------------------------------ MODULE Geometry ------------------------------
(***************************************************************************)
(* What SubMain (danmaku.c) derives from the resolution.                   *)
(***************************************************************************)
EXTENDS Integers

CONSTANTS
  MIN_SIZE,      \* a side SubMain accepts is at least this long
  EDGE_DIV       \* a character is this part of the width of the screen

ASSUME GeometryAssumption == MIN_SIZE \in Nat \ {0} /\ EDGE_DIV \in Nat \ {0}

Accepts(w, h) ==
  w >= MIN_SIZE /\ h >= MIN_SIZE /\ w % 4 = 0 /\ h % 4 = 0

\* Rounded up to words: n + 3 & ~3.
UpToWord(n) == ((n + 3) \div 4) * 4

\* Mutant of ImgSize: one sync byte a line.
MutImgSize(w, h) == UpToWord((w + 1) * h)

\* A line is its pixels and two sync bytes.
ImgSize(w, h) == UpToWord((w + 2) * h)

Edge(w) == w \div EDGE_DIV
=============================================================================
