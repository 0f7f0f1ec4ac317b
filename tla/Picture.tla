------------------------------ MODULE Picture ------------------------------
(***************************************************************************)
(* The frame that RenderOnce leaves in a buffer: Danmaku's layers with the *)
(* map of pixels each has, written by WriteFontMap and copied over the     *)
(* blank screen by the render DMA through pixel_filter.                    *)
(*                                                                         *)
(* The ink of a text is a constant: what Pango draws is external.          *)
(***************************************************************************)
EXTENDS Danmaku, Geometry

CONSTANTS
  HeightOf,  \* heights of the screens, by their widths
  Chars,     \* characters of a text, by its number
  Ink,       \* pixels <<row, column>> of a text that are ink, by its number
  Rows, Cols,\* rows and columns of a map: MAX_HEIGHT, 2 * MAX_WIDTH
  Span       \* bytes of memory that are looked at, from the frame buffer on

ASSUME PictureAssumption ==
  /\ CYCLE_PER_DANMU >= 2 /\ DURATION >= 2
  /\ \A w \in ScreenWidths :
       /\ HeightOf[w] \in Nat /\ Accepts(w, HeightOf[w]) /\ Edge(w) \in 1 .. Rows
       /\ ImgSize(w, HeightOf[w]) <= Span
  /\ \A n \in 1 .. MaxTexts : Chars[n] \in Nat /\ Ink[n] \subseteq Nat \X Nat
  /\ Rows \in Nat /\ Cols \in Nat /\ Span \in Nat /\ MAX_WIDTH <= Cols

VARIABLES
  sliding_maps, static_maps,  \* a map: its cells and, as history, the edge it was written with
  fb,                         \* the frame buffer and, past its frame, what follows in memory
  drawn                       \* history: fb holds a frame of this session

pictureVars == <<sliding_maps, static_maps, fb, drawn>>

-----------------------------------------------------------------------------
(* Bytes, by what pixel_filter, color_mapper and the overlay make of them. *)

Byte(code) == [code |-> code, id |-> 0]
Transparent == Byte("transparent")  \* PXL_BLANK, which pixel_filter does not write
Clear == Byte("clear")              \* 0x10 | PXL_BLANK, which it does
HSync == Byte("hsync")
VSync == Byte("vsync")
Junk == Byte("junk")                \* memory never written
InkOf(id) == [code |-> "ink", id |-> id]
OutlineOf(id) == [code |-> "outline", id |-> id]

edge == Edge(screen_width)

-----------------------------------------------------------------------------
(* WriteFontMap. *)

\* Mutant of WriteFontMap: the map is not filled with PXL_BLANK first.
MutWriteFontMap(m, text) ==
  LET inked(i, j) == j < OutWidth(text) /\ <<i, j>> \in Ink[text.id]
  IN  [m EXCEPT !.edge = edge,
                !.cells = [c \in DOMAIN m.cells |->
                             IF c[1] < edge /\ inked(c[1], c[2]) THEN InkOf(text.id)
                             ELSE m.cells[c]]]

\* A text is given edge columns for each of its characters; ink is drawn, and its
\* outline, as far as the text is wide.
WriteFontMap(m, text) ==
  LET cleared == edge * Chars[text.id]
      inked(i, j) == j < OutWidth(text) /\ <<i, j>> \in Ink[text.id]
      beside(i, j) ==
        \/ i + 1 < edge /\ inked(i+1, j)
        \/ j + 1 < cleared /\ inked(i, j+1)
        \/ i - 1 > 0 /\ inked(i-1, j)
        \/ j - 1 > 0 /\ inked(i, j-1)
      cell(i, j) ==
        IF i < edge /\ inked(i, j) THEN InkOf(text.id)
        ELSE IF i < edge /\ j < OutWidth(text) /\ beside(i, j) THEN OutlineOf(text.id)
        ELSE IF i < edge /\ j < cleared THEN Transparent
        ELSE m.cells[<<i, j>>]
  IN  [edge |-> edge, cells |-> [c \in DOMAIN m.cells |-> cell(c[1], c[2])]]

\* The layers that texts have entered in this frame have their maps rewritten.
Rewrite(maps, before, after, text) ==
  [l \in DOMAIN maps |->
     IF after[l].enable /\ after[l].id # before[l].id THEN WriteFontMap(maps[l], text)
     ELSE maps[l]]

-----------------------------------------------------------------------------
(* The frame in memory. *)

img_size == ImgSize(screen_width, HeightOf[screen_width])

\* InitBlankScreen.
BlankScreen(w) ==
  LET size == ImgSize(w, HeightOf[w]) IN
  [a \in 0 .. size-1 |->
     IF a >= size - 2 THEN VSync
     ELSE IF a < (w+2) * HeightOf[w] - 2 /\ a % (w+2) >= w THEN HSync ELSE Clear]

\* Mutant of LineBase: a line has one sync byte.
MutLineBase(y) == edge * y * (screen_width + 1)

\* line_base of a layer in row y.
LineBase(y) == edge * y * (screen_width + 2)

\* The byte of its map that the edge transfers of a layer, one for each line, bring to
\* an address: one or none.
Transferred(layer, a) ==
  LET i == (a - LineBase(layer.y)) \div (screen_width + 2)
      x == (a - LineBase(layer.y)) % (screen_width + 2)
  IN  {layer.map.cells[<<i, strip.src + x - strip.from>>] :
         strip \in {s \in layer.strips :
                     a >= LineBase(layer.y) /\ i < edge /\ x \in s.from .. s.to}}

\* Mutant of Filtered: every byte is written.
MutFiltered(layer, a) == Transferred(layer, a)

\* What pixel_filter lets through.
Filtered(layer, a) == Transferred(layer, a) \ {Transparent}

\* The layers in the order they are drawn: rows and columns, then the static ones.
Drawing(sliding, smaps, static, tmaps) ==
  LET slidings == SLIDING_LAYER_ROWS * SLIDING_LAYER_COLS IN
  [k \in 0 .. slidings + NUM_STATIC_LAYER - 1 |->
     IF k < slidings
     THEN LET p == <<k \div SLIDING_LAYER_COLS, k % SLIDING_LAYER_COLS>>
          IN  [y |-> p[1], strips |-> SlidingStrip(sliding[p]), map |-> smaps[p]]
     ELSE LET i == k - slidings
          IN  [y |-> i, strips |-> StaticStrip(static[i]), map |-> tmaps[i]]]

\* Transfers are done in the order they are started: the last byte that is written to an
\* address stays there.
Paint(buf, layers) ==
  [a \in DOMAIN buf |->
     LET over == {k \in DOMAIN layers : Filtered(layers[k], a) # {}}
     IN  IF over = {} THEN buf[a]
         ELSE CHOOSE byte \in Filtered(layers[Max(over)], a) : TRUE]

\* ClearScreen.
Cleared(buf, w) ==
  [a \in DOMAIN buf |-> IF a < ImgSize(w, HeightOf[w]) THEN BlankScreen(w)[a] ELSE buf[a]]

\* RenderOnce draws its layers over the blank screen.
Draw ==
  /\ sliding_maps' = Rewrite(sliding_maps, sliding_layers, sliding_layers', sliding_latest')
  /\ static_maps' = Rewrite(static_maps, static_layers, static_layers', static_latest')
  /\ \E layers \in {Drawing(sliding_layers', sliding_maps', static_layers', static_maps')} :
        fb' = Paint(Cleared(fb, screen_width), layers)
  /\ drawn' = TRUE

-----------------------------------------------------------------------------

FrameDrawn ==
  (SlidingLine \/ StaticLine \/ UnknownLine \/ NoLine \/ ButtonDone) /\ ~overrun' /\ Draw

\* The ClearScreen of Render's beginning copies nothing, render_running being 0: a buffer
\* holds what it did until a frame is drawn in it.
NewSession ==
  /\ ResolutionChanges
  /\ drawn' = FALSE
  /\ UNCHANGED <<sliding_maps, static_maps, fb>>

NothingDrawn ==
  /\ ButtonClick \/ ButtonLine \/ ButtonEvent \/ ((SlidingLine \/ StaticLine) /\ overrun')
  /\ UNCHANGED pictureVars

\* InitStatic fills its map, InitSliding does not.
PictureInit ==
  /\ Init
  /\ LET cells == (0 .. Rows-1) \X (0 .. Cols-1) IN
       /\ sliding_maps = [p \in Places |-> [edge |-> 0, cells |-> [c \in cells |-> Junk]]]
       /\ static_maps =
            [i \in Statics |-> [edge |-> 0, cells |-> [c \in cells |-> Transparent]]]
  /\ fb = [a \in 0 .. Span-1 |-> Junk] /\ drawn = FALSE

PictureNext == FrameDrawn \/ NewSession \/ NothingDrawn

PictureSpec == PictureInit /\ [][PictureNext]_<<vars, pictureVars>>
=============================================================================
