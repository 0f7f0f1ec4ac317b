------------------------- MODULE PictureProperties -------------------------
(***************************************************************************)
(* What is seen of the texts.                                              *)
(***************************************************************************)
EXTENDS Picture

\* A layer in use: its text, its place, its map.
Layer(s, x, width, y, m) == [id |-> s.id, x |-> x, width |-> width, y |-> y, map |-> m]
InUse ==
  {Layer(sliding_layers[p], sliding_layers[p].x, sliding_layers[p].width, p[1],
         sliding_maps[p]) : p \in {q \in Places : sliding_layers[q].enable}}
  \cup
  {LET s == static_layers[i]
       x == IF s.valid_len < screen_width THEN (screen_width - s.valid_len) \div 2 ELSE 0
   IN  Layer(s, x, s.valid_len, i, static_maps[i]) :
     i \in {j \in Statics : static_layers[j].enable}}

\* Its text was put there in this session and is no wider than its characters' columns.
Fresh(l) == l.map.edge = edge /\ l.width <= edge * Chars[l.id]

\* The pixel (row i, column j) of its text is at this address of the frame.
At(l, i, j) == (edge * l.y + i) * (screen_width + 2) + l.x + j
OnScreen(l, j) == l.x + j \in 0 .. screen_width - 1

\* The screen has room for the rows of texts.
RowsFit ==
  /\ edge * SLIDING_LAYER_ROWS <= HeightOf[screen_width]
  /\ edge * NUM_STATIC_LAYER <= HeightOf[screen_width]

\* Two sync bytes at the end of every line, VSYNC at the end of the last, no others.
InSync ==
  LET w == screen_width  h == HeightOf[screen_width] IN
  \A a \in 0 .. (w + 2) * h - 1 :
    /\ fb[a] = VSync <=> a % (w+2) >= w /\ a \div (w+2) = h-1
    /\ fb[a] = HSync <=> a % (w+2) >= w /\ a \div (w+2) < h-1

\* What follows the frame in memory, where another buffer begins, is left alone on a screen
\* that has room for the rows of texts.
NothingBehind ==
  RowsFit' => \A a \in DOMAIN fb : a >= img_size' => fb'[a] = fb[a]

\* The overlay finds the frame it expects (Overlay!Head) in a buffer that has been drawn in
\* this session, whatever the buffer held before, and no frame writes past its end.
WellFormed == [](drawn => InSync) /\ [][NothingBehind]_<<vars, pictureVars>>

\* Nothing is seen of texts that have gone, nor of memory never written, although
\* layers reuse their maps: as long as the texts in use are fresh.
NothingLeftOver ==
  drawn /\ (\A l \in InUse : Fresh(l)) =>
    \A a \in 0 .. img_size-1 :
      /\ fb[a] # Junk
      /\ fb[a].id # 0 =>
           \E l \in InUse : /\ l.id = fb[a].id
                            /\ \E i \in 0 .. edge-1, j \in 0 .. l.width-1 :
                                 OnScreen(l, j) /\ a = At(l, i, j)

\* The ink of a text is seen wherever the screen has room for it, unless another text
\* is over it: neither the text's own outline nor the blanks of another hide it.
InkShown ==
  \A l \in InUse : drawn /\ l.map.edge = edge /\ RowsFit =>
    \A c \in Ink[l.id] :
      c[1] < edge /\ c[2] < l.width /\ OnScreen(l, c[2]) =>
        LET b == fb[At(l, c[1], c[2])] IN
        b = InkOf(l.id) \/ (b.id # l.id /\ b \notin {Clear, Transparent})
=============================================================================
