------------------------------- MODULE Queen -------------------------------
(***************************************************************************)
(* queen_t of danmaku.c, the queue of texts waiting for a layer: a flat    *)
(* array with a head and a tail that only grow, moved back to the start    *)
(* when the tail reaches the end.  A queue is a record and each operation  *)
(* returns the queue it leaves.                                            *)
(***************************************************************************)
EXTENDS Integers, Sequences

CONSTANTS QUEEN_SIZE, Texts

ASSUME QueenAssumption == QUEEN_SIZE \in Nat \ {0}

Cells == 0 .. QUEEN_SIZE-1
Queens == {q \in [str : [Cells -> Texts], head : 0 .. QUEEN_SIZE, tail : 0 .. QUEEN_SIZE] :
             q.head <= q.tail}

\* The texts in the queue, oldest first: what the array stands for.
Backlog(q) == q.tail - q.head
Waiting(q) == [i \in 1 .. Backlog(q) |-> q.str[q.head + i - 1]]

\* InitQueen of a queue whose array holds str.
InitQueen(str) == [str |-> str, head |-> 0, tail |-> 0]

\* Fetch returns false for an empty queue, and the oldest text otherwise.
CanFetch(q) == q.tail # q.head
Fetch(q) == q.str[q.head]

\* Mutant of Pop: the last text stays in the queue.
MutPop(q) == IF q.tail - q.head > 1 THEN [q EXCEPT !.head = @ + 1] ELSE q

Pop(q) == IF q.tail - q.head > 0 THEN [q EXCEPT !.head = @ + 1] ELSE q

\* Mutant of ClearQueen: the texts move one cell too far.
MutClearQueen(q) ==
  [str |-> [i \in Cells |-> IF i < Backlog(q) /\ q.head + i + 1 \in Cells
                            THEN q.str[q.head + i + 1] ELSE q.str[i]],
   head |-> 0, tail |-> Backlog(q)]

\* The copy runs upwards, so that it never reads a cell it has written.
ClearQueen(q) ==
  [str |-> [i \in Cells |-> IF i < Backlog(q) THEN q.str[q.head + i] ELSE q.str[i]],
   head |-> 0, tail |-> Backlog(q)]

\* Mutant of Settled: the texts are never moved back.
MutSettled(q) == q

\* Push first moves the texts back when the tail has reached the end.
Settled(q) == IF q.tail >= QUEEN_SIZE THEN ClearQueen(q) ELSE q

\* Whether Push stays within the array: it does not look again after ClearQueen.
PushFits(q) == Settled(q).tail < QUEEN_SIZE

Push(q, text) ==
  LET s == Settled(q) IN [s EXCEPT !.str[s.tail] = text, !.tail = @ + 1]
=============================================================================
