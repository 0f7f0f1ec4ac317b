---------------------------- MODULE PictureProofs ----------------------------
(***************************************************************************)
(* What is seen of the texts is right, for every screen, every number of   *)
(* layers and whatever Pango draws.  The invariant follows the numbers of  *)
(* the texts into the maps: a map bears marks of the texts written to it,  *)
(* and no other map bears the same.                                        *)
(***************************************************************************)
EXTENDS PictureProperties, TextsProofs

MapCells == (0 .. Rows-1) \X (0 .. Cols-1)
Codes ==
  {Junk, Transparent} \cup {InkOf(n) : n \in 1 .. MaxTexts}
                      \cup {OutlineOf(n) : n \in 1 .. MaxTexts}
Maps == [edge : Nat, cells : [MapCells -> Codes]]

\* The texts that have left something in a map.
Marks(m) == {m.cells[c].id : c \in MapCells} \ {0}

\* A map with text id, drawn width columns wide: in the columns that were cleared there
\* is nothing else, and all of its ink is there.
Renders(m, id, width) ==
  /\ id \in 1 .. MaxTexts
  /\ \A c \in MapCells :
       c[1] < m.edge /\ c[2] < m.edge * Chars[id]
         => m.cells[c] \in {Transparent, InkOf(id), OutlineOf(id)}
  /\ \A c \in MapCells :
       c[1] < m.edge /\ c[2] < width /\ c \in Ink[id] => m.cells[c] = InkOf(id)

\* The layers in use have their texts in their maps.
RightMaps(S, maps, layers, width) ==
  \A l \in S : IF layers[l].enable THEN Renders(maps[l], layers[l].id, width[l])
               ELSE layers[l].id = 0

SlidingWidth == [p \in Places |-> sliding_layers[p].width]
StaticWidth == [i \in Statics |-> static_layers[i].valid_len]

MapsTrue ==
  /\ sliding_maps \in [Places -> Maps] /\ static_maps \in [Statics -> Maps]
  /\ RightMaps(Places, sliding_maps, sliding_layers, SlidingWidth)
  /\ RightMaps(Statics, static_maps, static_layers, StaticWidth)

\* No text has marked two maps, and none that is still to come has marked one.
Apartness(S, maps, last) ==
  /\ \A l \in S : \A n \in Marks(maps[l]) : n <= last
  /\ \A l, k \in S : l # k => Marks(maps[l]) \cap Marks(maps[k]) = {}

AllMarks(S, maps) == UNION {Marks(maps[l]) : l \in S}

MarksApart ==
  /\ Apartness(Places, sliding_maps, sliding_latest.id)
  /\ Apartness(Statics, static_maps, static_latest.id)
  /\ (WaitingIds(sliding_queen) \cup AllMarks(Places, sliding_maps))
       \cap (WaitingIds(static_queen) \cup AllMarks(Statics, static_maps)) = {}

\* The layers as they were drawn last.
SlidingNow(p) ==
  [y |-> p[1], strips |-> SlidingStrip(sliding_layers[p]), map |-> sliding_maps[p]]
StaticNow(i) ==
  [y |-> i, strips |-> StaticStrip(static_layers[i]), map |-> static_maps[i]]
LayersNow == {SlidingNow(p) : p \in Places} \cup {StaticNow(i) : i \in Statics}

\* A byte of the frame is one that a layer has there, or the blank screen's where none has.
Visibly(a) ==
  \/ /\ fb[a] = BlankScreen(screen_width)[a]
     /\ \A l \in LayersNow : Filtered(l, a) = {}
  \/ \E l \in LayersNow : fb[a] \in Filtered(l, a)

\* Of a buffer that no frame of the session has been drawn in nothing is said.
FrameTrue ==
  /\ DOMAIN fb = 0 .. Span-1 /\ drawn \in BOOLEAN
  /\ drawn => \A a \in 0 .. img_size-1 : Visibly(a)

PictureInvariant == TextsInvariant /\ MapsTrue /\ MarksApart /\ FrameTrue

-----------------------------------------------------------------------------
(* Arithmetic of addresses. *)

LEMMA Product ==
  ASSUME NEW a \in Nat, NEW b \in Nat, NEW c \in Nat, a <= b
  PROVE  a * c <= b * c /\ a * c \in Nat /\ b * c \in Nat
<1>1. PICK d \in Nat : b = a + d
  BY b - a \in Nat
<1>2. b * c = a * c + d * c /\ d * c \in Nat /\ a * c \in Nat
  BY <1>1
<1> QED
  BY <1>2

\* Byte r of line i, in lines of W bytes.
LEMMA LineAndByte ==
  ASSUME NEW W \in Nat \ {0}, NEW i \in Nat, NEW r \in 0 .. W-1
  PROVE  /\ i * W + r \in Nat /\ i * W \in Nat
         /\ (i * W + r) \div W = i /\ (i * W + r) % W = r
<1>1. PICK n \in Nat : n = i * W + r
  OBVIOUS
<1>2. PICK q \in Nat : q = n \div W
  BY n \div W \in Nat
<1>3. n = W * q + (n % W) /\ (n % W) \in 0 .. W-1
  BY <1>2
<1>4. ~(q < i)
  <2> SUFFICES ASSUME q < i PROVE FALSE
    OBVIOUS
  <2>1. (q + 1) * W <= i * W
    BY Product
  <2>2. (q + 1) * W = q * W + W /\ q * W = W * q /\ q * W \in Nat /\ i * W \in Nat
    OBVIOUS
  <2> QED
    BY <1>1, <1>3, <2>1, <2>2
<1>5. ~(i < q)
  <2> SUFFICES ASSUME i < q PROVE FALSE
    OBVIOUS
  <2>1. (i + 1) * W <= q * W
    BY Product
  <2>2. (i + 1) * W = i * W + W /\ q * W = W * q /\ q * W \in Nat /\ i * W \in Nat
    OBVIOUS
  <2> QED
    BY <1>1, <1>3, <2>1, <2>2
<1>6. q = i
  BY <1>4, <1>5
<1>7. i * W = W * i /\ i * W \in Nat
  OBVIOUS
<1> QED
  BY <1>1, <1>2, <1>3, <1>6, <1>7

LEMMA LineOf ==
  ASSUME NEW W \in Nat \ {0}, NEW n \in Nat
  PROVE  /\ n \div W \in Nat /\ (n % W) \in 0 .. W-1
         /\ n = (n \div W) * W + (n % W)
<1>1. n = W * (n \div W) + (n % W) /\ (n % W) \in 0 .. W-1 /\ n \div W \in Nat
  OBVIOUS
<1>2. W * (n \div W) = (n \div W) * W
  BY <1>1
<1> QED
  BY <1>1, <1>2

\* Lines before line h end before it starts.
LEMMA LineBefore ==
  ASSUME NEW W \in Nat \ {0}, NEW i \in Nat, NEW r \in 0 .. W-1, NEW h \in Nat
  PROVE  /\ i < h <=> i * W + r < h * W
         /\ h * W \in Nat /\ i * W \in Nat
<1>1. CASE i < h
  <2>1. (i + 1) * W <= h * W
    BY <1>1, Product
  <2>2. (i + 1) * W = i * W + W /\ i * W \in Nat /\ h * W \in Nat
    OBVIOUS
  <2> QED
    BY <1>1, <2>1, <2>2
<1>2. CASE ~(i < h)
  <2>1. h * W <= i * W
    BY <1>2, Product
  <2>2. i * W \in Nat /\ h * W \in Nat
    OBVIOUS
  <2> QED
    BY <1>2, <2>1, <2>2
<1> QED
  BY <1>1, <1>2

-----------------------------------------------------------------------------
(* Least and greatest elements. *)

LEMMA LeastOf ==
  ASSUME NEW T, T \subseteq Nat, T # {}
  PROVE  \E x \in T : \A y \in T : x <= y
<1>1. PICK x \in T : \A y \in T : <<y, x>> \notin OpToRel(<, Nat)
  BY NatLessThanWellFounded, WFMin
<1>2. \A y \in T : ~(y < x)
  BY <1>1 DEF OpToRel
<1> QED
  BY <1>2

LEMMA MinIs ==
  ASSUME NEW T, T \subseteq Nat, T # {}
  PROVE  Min(T) \in T
  BY LeastOf DEF Min

LEMMA MaxIs ==
  ASSUME NEW n \in Nat, NEW T, T \subseteq 0 .. n, T # {}
  PROVE  Max(T) \in T
<1> DEFINE U == {n - k : k \in T}
<1>1. U \subseteq Nat /\ U # {}
  <2>1. \A k \in T : k \in Nat /\ n - k \in Nat
    OBVIOUS
  <2> QED
    BY <2>1
<1>2. PICK x \in U : \A y \in U : x <= y
  BY <1>1, LeastOf
<1>3. PICK k \in T : x = n - k
  OBVIOUS
<1>4. \A l \in T : n - k <= n - l
  BY <1>2, <1>3
<1>5. \A l \in T : k >= l
  <2>1. k \in Nat /\ \A l \in T : l \in Nat
    OBVIOUS
  <2> QED
    BY <1>4, <2>1
<1> QED
  BY <1>5 DEF Max

-----------------------------------------------------------------------------
(* The screen. *)

LEMMA ScreenIs ==
  ASSUME NEW w \in ScreenWidths
  PROVE  /\ w \in Nat \ {0} /\ HeightOf[w] \in Nat \ {0} /\ Edge(w) \in 1 .. Rows
         /\ ImgSize(w, HeightOf[w]) = HeightOf[w] * (w + 2)
         /\ ImgSize(w, HeightOf[w]) \in 0 .. Span
         /\ Rows \in Nat /\ Cols \in Nat /\ Span \in Nat
<1> DEFINE h == HeightOf[w]
<1>1. /\ w \in Nat \ {0} /\ h \in Nat /\ Accepts(w, h) /\ Edge(w) \in 1 .. Rows
      /\ ImgSize(w, h) <= Span /\ Rows \in Nat /\ Cols \in Nat /\ Span \in Nat
  BY DanmakuAssumption, PictureAssumption
<1> HIDE DEF h
<1>2. h >= 1
  BY <1>1, GeometryAssumption DEF Accepts
<1>3. PICK b \in Nat : h = 4 * b
  BY <1>1, h = 4 * (h \div 4), h \div 4 \in Nat DEF Accepts
<1>4. PICK k \in Nat : k = b * (w + 2)
  BY <1>1
<1>5. h * (w + 2) = 4 * k /\ (w + 2) * h = 4 * k
  <2>1. h * (w + 2) = (4 * b) * (w + 2)
    BY <1>3
  <2>2. (4 * b) * (w + 2) = 4 * (b * (w + 2)) /\ (w + 2) * (4 * b) = 4 * (b * (w + 2))
    BY <1>1
  <2> QED
    BY <1>3, <1>4, <2>1, <2>2
<1>6. UpToWord(4 * k) = 4 * k
  BY DEF UpToWord
<1>7. ImgSize(w, h) = h * (w + 2) /\ ImgSize(w, h) \in Nat
  BY <1>5, <1>6 DEF ImgSize
<1> QED
  BY <1>1, <1>2, <1>7 DEF h

\* A byte of the blank screen is a sync byte at the end of a line.
LEMMA BlankIs ==
  ASSUME NEW w \in ScreenWidths, NEW a \in 0 .. ImgSize(w, HeightOf[w]) - 1
  PROVE  /\ BlankScreen(w)[a] \in {Clear, HSync, VSync}
         /\ BlankScreen(w)[a] = VSync <=> a % (w+2) >= w /\ a \div (w+2) = HeightOf[w] - 1
         /\ BlankScreen(w)[a] = HSync <=> a % (w+2) >= w /\ a \div (w+2) < HeightOf[w] - 1
<1> DEFINE h == HeightOf[w]  size == ImgSize(w, h)
<1> PICK W \in Nat \ {0} : W = w + 2
  BY ScreenIs
<1>1. /\ w \in Nat \ {0} /\ h \in Nat \ {0} /\ size = h * W /\ size \in Nat
      /\ W \in Nat \ {0} /\ a \in Nat /\ a < size
  BY ScreenIs
<1>2. BlankScreen(w)[a] =
        IF a >= size - 2 THEN VSync
        ELSE IF a < W * h - 2 /\ a % W >= w THEN HSync ELSE Clear
  BY DEF BlankScreen
<1>3. VSync # HSync /\ VSync # Clear /\ HSync # Clear
  BY DEF VSync, HSync, Clear, Byte
<1>4. PICK q \in Nat, r \in 0 .. W-1 : q = a \div W /\ r = a % W /\ a = q * W + r
  BY <1>1, LineOf, a \div W \in Nat, a % W \in 0 .. W-1
<1>5. PICK g \in Nat : h = g + 1
  BY <1>1, h - 1 \in Nat
<1>6. size = g * W + W /\ g * W \in Nat /\ W * h = size
  BY <1>1, <1>5
<1>7. q < g + 1 /\ (q < g <=> a < g * W)
  <2>1. q < g + 1 <=> q * W + r < (g + 1) * W
    BY <1>4, g + 1 \in Nat, LineBefore
  <2>2. q < g <=> q * W + r < g * W
    BY <1>4, <1>5, LineBefore
  <2>3. (g + 1) * W = size
    BY <1>1, <1>5
  <2> QED
    BY <1>1, <1>4, <2>1, <2>2, <2>3
<1>8. q = g => q * W = g * W
  OBVIOUS
<1>9. a >= size - 2 <=> r >= w /\ q = g
  <2>1. CASE q = g
    BY <1>1, <1>4, <1>6, <1>8, <2>1
  <2>2. CASE q # g
    BY <1>1, <1>4, <1>6, <1>7, <2>2
  <2> QED
    BY <2>1, <2>2
<1>10. h - 1 = g
  BY <1>5
<1> HIDE DEF h, size
<1>11. BlankScreen(w)[a] = IF r >= w /\ q = g THEN VSync ELSE IF r >= w THEN HSync ELSE Clear
  <2>1. CASE r >= w /\ q = g
    BY <1>2, <1>9, <2>1 DEF h, size
  <2>2. CASE ~(r >= w /\ q = g)
    <3>1. a < W * h - 2
      BY <1>1, <1>6, <1>9, <2>2
    <3> QED
      BY <1>2, <1>4, <1>9, <2>2, <3>1 DEF h, size
  <2> QED
    BY <2>1, <2>2
<1>12. a % (w+2) = r /\ a \div (w+2) = q /\ HeightOf[w] - 1 = g
  BY <1>4, <1>10 DEF h
<1> QED
  BY <1>3, <1>7, <1>11, <1>12

-----------------------------------------------------------------------------
(* The maps. *)

\* WriteFontMap leaves the text in the map, and of what was there nothing in its columns.
LEMMA Written ==
  ASSUME NEW m \in Maps, NEW text \in Texts, text.id \in 1 .. MaxTexts,
         screen_width \in ScreenWidths,
         NEW n, n = WriteFontMap(m, text)
  PROVE  /\ n \in Maps /\ Renders(n, text.id, OutWidth(text))
         /\ Marks(n) \subseteq Marks(m) \cup {text.id}
<1> DEFINE id == text.id  cleared == edge * Chars[id]
           inked(i, j) == j < OutWidth(text) /\ <<i, j>> \in Ink[id]
<1>1. /\ m.edge \in Nat /\ m.cells \in [MapCells -> Codes] /\ DOMAIN m.cells = MapCells
  BY DEF Maps
<1>2. edge \in Nat /\ id \in 1 .. MaxTexts
  BY ScreenIs DEF edge
<1>3. /\ n.edge = edge /\ n = [edge |-> n.edge, cells |-> n.cells]
      /\ n.cells = [c \in MapCells |-> n.cells[c]]
  BY <1>1 DEF WriteFontMap
<1>4. ASSUME NEW c \in MapCells
      PROVE  /\ n.cells[c] \in {m.cells[c], Transparent, InkOf(id), OutlineOf(id)}
             /\ c[1] < edge /\ c[2] < cleared
                  => n.cells[c] \in {Transparent, InkOf(id), OutlineOf(id)}
             /\ c[1] < edge /\ c[2] < OutWidth(text) /\ c \in Ink[id]
                  => n.cells[c] = InkOf(id)
  <2>1. c = <<c[1], c[2]>>
    BY DEF MapCells
  <2> QED
    BY <1>1, <2>1 DEF WriteFontMap
<1>5. n.cells \in [MapCells -> Codes]
  <2>1. {Transparent, InkOf(id), OutlineOf(id)} \subseteq Codes
    BY <1>2 DEF Codes
  <2>2. \A c \in MapCells : n.cells[c] \in Codes
    BY <1>1, <1>4, <2>1
  <2> QED
    BY <1>3, <2>2
<1>6. Renders(n, id, OutWidth(text))
  BY <1>2, <1>3, <1>4 DEF Renders
<1>7. Marks(n) \subseteq Marks(m) \cup {id}
  <2>1. Transparent.id = 0 /\ InkOf(id).id = id /\ OutlineOf(id).id = id
    BY DEF Transparent, Byte, InkOf, OutlineOf
  <2> QED
    BY <1>4, <2>1 DEF Marks
<1> QED
  BY <1>2, <1>3, <1>5, <1>6, <1>7 DEF Maps

LEMMA MarksAre ==
  ASSUME NEW m \in Maps
  PROVE  Marks(m) \subseteq 1 .. MaxTexts
<1>1. \A b \in Codes : b.id = 0 \/ b.id \in 1 .. MaxTexts
  BY DEF Codes, Junk, Transparent, Byte, InkOf, OutlineOf
<1>2. \A c \in MapCells : m.cells[c] \in Codes
  BY DEF Maps
<1> QED
  BY <1>1, <1>2 DEF Marks

\* What a frame does to the layers of one kind: text enters the layers of E, the others
\* that are still in use hold what they held.
Entered(S, E, text, before, after, bwidth, awidth) ==
  /\ \A l \in S \ E :
       IF after[l].enable
       THEN before[l].enable /\ after[l].id = before[l].id /\ awidth[l] = bwidth[l]
       ELSE after[l].id = 0
  /\ \A l \in S \cap E :
       /\ before[l].id # text.id /\ text.id \in 1 .. MaxTexts
       /\ IF after[l].enable THEN after[l].id = text.id /\ awidth[l] = OutWidth(text)
          ELSE after[l].id = 0

\* Only the layers of E have marks of the text that they had not.
Marked(S, E, id, maps, new) ==
  \A l \in S : Marks(new[l]) \subseteq Marks(maps[l]) \cup (IF l \in E THEN {id} ELSE {})

\* The text comes from q, which leaves r, or it is the last one and enters nothing.
Takes(S, E, q, r, last, text) ==
  \/ E = {} /\ text = last /\ r = q
  \/ (\E e \in S : E = {e}) /\ CanFetch(q) /\ text = Fetch(q) /\ r = Pop(q)

\* The maps of the layers of one kind hold what they should.
Holding(S, maps, layers, width, last) ==
  maps \in [S -> Maps] /\ RightMaps(S, maps, layers, width) /\ Apartness(S, maps, last.id)

LEMMA Rewritten ==
  ASSUME screen_width \in ScreenWidths,
         NEW S, NEW maps, NEW before, NEW after, NEW bwidth, NEW awidth, NEW last,
         NEW text \in Texts, NEW E,
         Holding(S, maps, before, bwidth, last),
         Entered(S, E, text, before, after, bwidth, awidth)
  PROVE  LET new == Rewrite(maps, before, after, text)
         IN  /\ new \in [S -> Maps] /\ RightMaps(S, new, after, awidth)
             /\ Marked(S, E, text.id, maps, new)
<1> PICK new : new = Rewrite(maps, before, after, text)
  OBVIOUS
<1> maps \in [S -> Maps] /\ RightMaps(S, maps, before, bwidth)
  BY DEF Holding
<1>1. \A l \in S : new[l] = IF after[l].enable /\ after[l].id # before[l].id
                            THEN WriteFontMap(maps[l], text) ELSE maps[l]
  BY DEF Rewrite
<1>2. ASSUME NEW l \in S \ E
      PROVE  new[l] = maps[l]
  BY <1>1, <1>2 DEF Entered
<1>3. ASSUME NEW l \in S \cap E, after[l].enable
      PROVE  /\ new[l] \in Maps /\ Renders(new[l], text.id, OutWidth(text))
             /\ Marks(new[l]) \subseteq Marks(maps[l]) \cup {text.id}
  <2>1. text.id \in 1 .. MaxTexts /\ new[l] = WriteFontMap(maps[l], text) /\ maps[l] \in Maps
    BY <1>1, <1>3 DEF Entered
  <2> QED
    BY <2>1, Written
<1>4. ASSUME NEW l \in S \cap E, ~after[l].enable
      PROVE  new[l] = maps[l]
  BY <1>1, <1>4
<1>5. \A l \in S : new[l] \in Maps
  BY <1>2, <1>3, <1>4
<1>6. new \in [S -> Maps]
  BY <1>5 DEF Rewrite
<1>7. Marked(S, E, text.id, maps, new)
  BY <1>2, <1>3, <1>4 DEF Marked
<1>8. ASSUME NEW l \in S
      PROVE  IF after[l].enable THEN Renders(new[l], after[l].id, awidth[l])
             ELSE after[l].id = 0
  <2>1. CASE l \in E
    BY <1>3, <2>1 DEF Entered
  <2>2. CASE l \notin E
    BY <1>2, <2>2 DEF Entered, RightMaps
  <2> QED
    BY <2>1, <2>2
<1> QED
  BY <1>6, <1>7, <1>8 DEF RightMaps

LEMMA ApartStill ==
  ASSUME NEW S, NEW maps \in [S -> Maps], NEW new, NEW last \in Nat, NEW id \in Nat, NEW E,
         Apartness(S, maps, last), Marked(S, E, id, maps, new),
         \/ E = {} /\ id = last
         \/ (\E e \in S : E = {e}) /\ last < id
  PROVE  Apartness(S, new, id)
<1>1. \A l \in S : \A n \in Marks(maps[l]) : n \in Nat /\ n <= last
  <2>1. \A l \in S : Marks(maps[l]) \subseteq 1 .. MaxTexts
    BY MarksAre
  <2> QED
    BY <2>1, DanmakuAssumption DEF Apartness
<1>2. CASE E = {} /\ id = last
  <2>1. \A l \in S : Marks(new[l]) \subseteq Marks(maps[l])
    BY <1>2 DEF Marked
  <2> QED
    BY <1>1, <1>2, <2>1 DEF Apartness
<1>3. CASE (\E e \in S : E = {e}) /\ last < id
  <2>1. PICK e \in S : E = {e} /\ last < id
    BY <1>3
  <2>2. \A l \in S : l # e => Marks(new[l]) \subseteq Marks(maps[l])
    BY <2>1 DEF Marked
  <2>3. Marks(new[e]) \subseteq Marks(maps[e]) \cup {id}
    BY <2>1 DEF Marked
  <2>4. \A l \in S : id \notin Marks(maps[l])
    BY <1>1, <2>1
  <2>5. \A l \in S : \A n \in Marks(new[l]) : n <= id
    BY <1>1, <2>1, <2>2, <2>3
  <2>6. ASSUME NEW l \in S, NEW k \in S, l # k
        PROVE  Marks(new[l]) \cap Marks(new[k]) = {}
    <3>1. Marks(maps[l]) \cap Marks(maps[k]) = {}
      BY <2>6 DEF Apartness
    <3> QED
      BY <2>2, <2>3, <2>4, <2>6, <3>1
  <2> QED
    BY <2>5, <2>6 DEF Apartness
<1> QED
  BY <1>2, <1>3

LEMMA SlidingOver ==
  ASSUME NEW s \in SlidingLayers
  PROVE  LET n == SlidingNextCycle(s)
         IN  IF n.enable THEN s.enable /\ n.id = s.id /\ n.width = s.width ELSE n.id = 0
<1> DEFINE m == [s EXCEPT !.x = s.x - s.ppc, !.age = s.age + 1]
<1>1. m.enable = s.enable /\ m.id = s.id /\ m.width = s.width
  BY DEF SlidingLayers
<1>2. SlidingOff.enable = FALSE /\ SlidingOff.id = 0
  BY DEF SlidingOff
<1>3. SlidingNextCycle(s) = IF ~s.enable \/ m.x < -s.width THEN SlidingOff ELSE m
  BY DEF SlidingNextCycle
<1> HIDE DEF m
<1> QED
  BY <1>1, <1>2, <1>3

LEMMA StaticOver ==
  ASSUME NEW s \in StaticLayers
  PROVE  LET n == StaticNextCycle(s)
         IN  IF n.enable THEN s.enable /\ n.id = s.id /\ n.valid_len = s.valid_len ELSE n.id = 0
<1> DEFINE m == [s EXCEPT !.counter = s.counter + 1]
<1>1. m.enable = s.enable /\ m.id = s.id /\ m.valid_len = s.valid_len
  BY DEF StaticLayers
<1>2. StaticOff.enable = FALSE /\ StaticOff.id = 0
  BY DEF StaticOff
<1>3. StaticNextCycle(s) = IF ~s.enable \/ s.counter + 1 >= DURATION THEN StaticOff ELSE m
  BY DEF StaticNextCycle
<1> HIDE DEF m
<1> QED
  BY <1>1, <1>2, <1>3

\* The oldest text of a queue is later than the one shown last.
LEMMA FetchIsLater ==
  ASSUME NEW q \in Queens, CanFetch(q), NEW last \in Nat, NEW top,
         Numbered(Waiting(q), last, top)
  PROVE  /\ Fetch(q) \in Texts /\ Fetch(q).id \in 1 .. MaxTexts /\ last < Fetch(q).id
         /\ Pop(q) \in Queens /\ Fetch(q).id \in WaitingIds(q)
         /\ WaitingIds(Pop(q)) \subseteq WaitingIds(q)
<1>1. /\ Waiting(q) \in Seq(Texts) /\ Waiting(q) # <<>> /\ Fetch(q) = Head(Waiting(q))
      /\ Pop(q) \in Queens /\ Waiting(Pop(q)) = Tail(Waiting(q))
  BY QueenTyped, PopTakesOldest
<1>2. /\ Len(Waiting(q)) = Backlog(q) /\ Len(Waiting(Pop(q))) = Backlog(Pop(q))
  BY <1>1, QueenTyped
<1>3. /\ Fetch(q) \in Texts /\ last < Fetch(q).id
  BY <1>1, NumberedTail
<1>4. Fetch(q).id \in 1 .. MaxTexts
  BY <1>3, TextIs, ConstantsAre
<1>5. 1 \in 1 .. Backlog(q) /\ Fetch(q) = Waiting(q)[1]
  BY <1>1, <1>2
<1>6. \A i \in 1 .. Backlog(Pop(q)) :
        i + 1 \in 1 .. Backlog(q) /\ Waiting(Pop(q))[i] = Waiting(q)[i + 1]
  BY <1>1, <1>2
<1> QED
  BY <1>1, <1>3, <1>4, <1>5, <1>6 DEF WaitingIds

LEMMA SlidingEntered ==
  ASSUME SlidingOK, screen_width \in ScreenWidths, NEW q \in Queens, NEW top,
         Numbered(Waiting(q), sliding_latest.id, top), RenderSliding(q),
         RightMaps(Places, sliding_maps, sliding_layers, SlidingWidth)
  PROVE  \E E :
           /\ Takes(Places, E, q, sliding_queen', sliding_latest, sliding_latest')
           /\ Entered(Places, E, sliding_latest', sliding_layers, sliding_layers',
                      SlidingWidth, SlidingWidth')
<1>1. sliding_layers \in [Places -> SlidingLayers] /\ sliding_latest.id \in Nat
  BY TextIs DEF SlidingOK
<1>2. /\ SlidingWidth = [p \in Places |-> sliding_layers[p].width]
      /\ SlidingWidth' = [p \in Places |-> sliding_layers'[p].width]
  BY DEF SlidingWidth
<1>3. CASE CanFetch(q) /\ FreePlaces # {}
  <2> DEFINE text == Fetch(q)
             L == [p \in Places |-> IF p = FirstFree THEN SlidingSetDanmu(text)
                                    ELSE sliding_layers[p]]
  <2>1. text \in Texts /\ text.id \in 1 .. MaxTexts
    BY <1>1, <1>3, FetchIsLater
  <2>2. FirstFree \in Places /\ ~sliding_layers[FirstFree].enable
    BY <1>3, FirstFreeIsFree DEF FreePlaces
  <2>3. /\ SlidingSetDanmu(text) \in SlidingLayers
        /\ SlidingSetDanmu(text).id = text.id
        /\ SlidingSetDanmu(text).width = OutWidth(text)
    BY <2>1, SetIsTyped DEF SlidingSetDanmu
  <2>4. L \in [Places -> SlidingLayers]
    BY <1>1, <2>3
  <2>5. /\ sliding_layers' = [p \in Places |-> SlidingNextCycle(L[p])]
        /\ sliding_queen' = Pop(q) /\ sliding_latest' = text
    BY <1>3 DEF RenderSliding
  <2>6. \A p \in Places : IF sliding_layers'[p].enable
                          THEN /\ L[p].enable /\ sliding_layers'[p].id = L[p].id
                               /\ sliding_layers'[p].width = L[p].width
                          ELSE sliding_layers'[p].id = 0
    BY <2>4, <2>5, SlidingOver
  <2>7. Entered(Places, {FirstFree}, text, sliding_layers, sliding_layers',
                SlidingWidth, SlidingWidth')
    <3>1. \A p \in Places \ {FirstFree} : L[p] = sliding_layers[p]
      OBVIOUS
    <3>2. L[FirstFree] = SlidingSetDanmu(text)
      BY <2>2
    <3>3. sliding_layers[FirstFree].id = 0
      BY <2>2 DEF RightMaps
    <3> HIDE DEF L, text
    <3> QED
      BY <1>2, <2>1, <2>2, <2>3, <2>6, <3>1, <3>2, <3>3 DEF Entered
  <2> QED
    BY <1>3, <2>2, <2>5, <2>7 DEF Takes
<1>4. CASE ~(CanFetch(q) /\ FreePlaces # {})
  <2>1. /\ sliding_layers' = [p \in Places |-> SlidingNextCycle(sliding_layers[p])]
        /\ sliding_queen' = q /\ sliding_latest' = sliding_latest
    BY <1>4 DEF RenderSliding
  <2>2. Entered(Places, {}, sliding_latest', sliding_layers, sliding_layers',
                SlidingWidth, SlidingWidth')
    BY <1>1, <1>2, <2>1, SlidingOver DEF Entered
  <2> QED
    BY <2>1, <2>2 DEF Takes
<1> QED
  BY <1>3, <1>4

LEMMA StaticEntered ==
  ASSUME StaticOK, screen_width \in ScreenWidths, NEW q \in Queens, NEW top,
         Numbered(Waiting(q), static_latest.id, top), RenderStatic(q),
         StaticNumbered(static_layers, static_latest.id),
         RightMaps(Statics, static_maps, static_layers, StaticWidth)
  PROVE  \E E :
           /\ Takes(Statics, E, q, static_queen', static_latest, static_latest')
           /\ Entered(Statics, E, static_latest', static_layers, static_layers',
                      StaticWidth, StaticWidth')
<1>1. static_layers \in [Statics -> StaticLayers] /\ static_latest.id \in Nat
  BY TextIs DEF StaticOK
<1>2. /\ StaticWidth = [i \in Statics |-> static_layers[i].valid_len]
      /\ StaticWidth' = [i \in Statics |-> static_layers'[i].valid_len]
  BY DEF StaticWidth
<1>3. CASE CanFetch(q)
  <2> DEFINE text == Fetch(q)
  <2>1. /\ text \in Texts /\ text.id \in 1 .. MaxTexts /\ static_latest.id < text.id
    BY <1>1, <1>3, FetchIsLater
  <2>2. PICK c \in StaticChoices :
          static_layers' =
            [i \in Statics |-> StaticNextCycle(IF i = c THEN ForceStaticSetDanmu(text)
                                               ELSE static_layers[i])]
    BY <1>3 DEF RenderStatic
  <2>3. static_queen' = Pop(q) /\ static_latest' = text
    BY <1>3 DEF RenderStatic
  <2> DEFINE L == [i \in Statics |-> IF i = c THEN ForceStaticSetDanmu(text)
                                     ELSE static_layers[i]]
  <2>4. /\ ForceStaticSetDanmu(text) \in StaticLayers
        /\ ForceStaticSetDanmu(text).id = text.id
        /\ ForceStaticSetDanmu(text).valid_len = OutWidth(text)
    BY <2>1, SetIsTyped DEF ForceStaticSetDanmu
  <2>5. L \in [Statics -> StaticLayers]
    BY <1>1, <2>4
  <2>6. static_layers' = [i \in Statics |-> StaticNextCycle(L[i])]
    BY <2>2
  <2>7. \A i \in Statics : IF static_layers'[i].enable
                           THEN /\ L[i].enable /\ static_layers'[i].id = L[i].id
                                /\ static_layers'[i].valid_len = L[i].valid_len
                           ELSE static_layers'[i].id = 0
    BY <2>5, <2>6, StaticOver
  <2>8. \A i \in Statics : static_layers[i].id # text.id
    <3>1. \A i \in Statics : static_layers[i].id \in Nat /\ text.id \in Nat
      BY <1>1, <2>1 DEF StaticLayers
    <3>2. \A i \in Statics : static_layers[i].enable => static_layers[i].id <= static_latest.id
      BY DEF StaticNumbered
    <3>3. \A i \in Statics : ~static_layers[i].enable => static_layers[i].id = 0
      BY DEF RightMaps
    <3> HIDE DEF text
    <3> QED
      BY <1>1, <2>1, <3>1, <3>2, <3>3
  <2>9. Entered(Statics, Statics \cap {c}, text, static_layers, static_layers',
                StaticWidth, StaticWidth')
    <3>1. \A i \in Statics \ {c} : L[i] = static_layers[i]
      OBVIOUS
    <3>2. c \in Statics => L[c] = ForceStaticSetDanmu(text)
      OBVIOUS
    <3> HIDE DEF L, text
    <3> QED
      BY <1>2, <2>1, <2>4, <2>7, <2>8, <3>1, <3>2 DEF Entered
  <2>10. c \in Statics
    <3> DEFINE off == {i \in Statics : ~static_layers[i].enable}
    <3>1. off # {} => Min(off) \in off
      BY MinIs, off \subseteq Nat DEF Statics
    <3> QED
      BY <3>1 DEF StaticChoices
  <2> QED
    BY <1>3, <2>3, <2>9, <2>10 DEF Takes
<1>4. CASE ~CanFetch(q)
  <2>1. /\ static_layers' = [i \in Statics |-> StaticNextCycle(static_layers[i])]
        /\ static_queen' = q /\ static_latest' = static_latest
    BY <1>4 DEF RenderStatic
  <2>2. Entered(Statics, {}, static_latest', static_layers, static_layers',
                StaticWidth, StaticWidth')
    BY <1>1, <1>2, <2>1, StaticOver DEF Entered
  <2> QED
    BY <2>1, <2>2 DEF Takes
<1> QED
  BY <1>3, <1>4

-----------------------------------------------------------------------------
(* The frame. *)

LEMMA DrawingIs ==
  ASSUME NEW sliding, NEW smaps, NEW static, NEW tmaps,
         NEW D, D = Drawing(sliding, smaps, static, tmaps)
  PROVE  /\ \E n \in Nat : DOMAIN D = 0 .. n
         /\ {D[k] : k \in DOMAIN D} =
              {[y |-> p[1], strips |-> SlidingStrip(sliding[p]), map |-> smaps[p]] : p \in Places}
              \cup {[y |-> i, strips |-> StaticStrip(static[i]), map |-> tmaps[i]] : i \in Statics}
<1>1. /\ SLIDING_LAYER_ROWS \in Nat \ {0} /\ SLIDING_LAYER_COLS \in Nat \ {0}
      /\ NUM_STATIC_LAYER \in Nat \ {0}
  BY DanmakuAssumption
<1> DEFINE R == SLIDING_LAYER_ROWS  C == SLIDING_LAYER_COLS
           Slide(p) == [y |-> p[1], strips |-> SlidingStrip(sliding[p]), map |-> smaps[p]]
           Stay(i) == [y |-> i, strips |-> StaticStrip(static[i]), map |-> tmaps[i]]
<1> PICK S \in Nat : S = R * C
  BY <1>1
<1>2. /\ DOMAIN D = 0 .. S + NUM_STATIC_LAYER - 1
      /\ \A k \in 0 .. S + NUM_STATIC_LAYER - 1 :
           D[k] = IF k < S THEN Slide(<<k \div C, k % C>>) ELSE Stay(k - S)
  BY DEF Drawing
<1> HIDE DEF Slide, Stay
<1>3. ASSUME NEW k \in DOMAIN D
      PROVE  (\E p \in Places : D[k] = Slide(p)) \/ (\E i \in Statics : D[k] = Stay(i))
  <2>1. CASE k < S
    <3>1. PICK i \in Nat, r \in 0 .. C-1 : i = k \div C /\ r = k % C /\ k = i * C + r
      BY <1>1, <1>2, LineOf, k \in Nat, k \div C \in Nat, k % C \in 0 .. C-1
    <3>2. i < R
      <4>1. i < R <=> i * C + r < R * C
        BY <1>1, <3>1, LineBefore
      <4> QED
        BY <2>1, <3>1, <4>1
    <3>3. <<i, r>> \in Places
      BY <1>1, <3>1, <3>2 DEF Places
    <3> QED
      BY <1>2, <2>1, <3>1, <3>3
  <2>2. CASE ~(k < S)
    <3>1. k - S \in Statics
      <4>1. k \in 0 .. S + NUM_STATIC_LAYER - 1
        BY <1>2
      <4> QED
        BY <1>1, <2>2, <4>1 DEF Statics
    <3> QED
      BY <1>2, <2>2, <3>1
  <2> QED
    BY <2>1, <2>2
<1>4. ASSUME NEW p \in Places
      PROVE  \E k \in DOMAIN D : D[k] = Slide(p)
  <2>1. p[1] \in 0 .. R-1 /\ p[2] \in 0 .. C-1 /\ p = <<p[1], p[2]>>
    BY DEF Places
  <2>2. PICK k \in Nat : k = p[1] * C + p[2]
    BY <1>1, <2>1
  <2>3. k \div C = p[1] /\ k % C = p[2] /\ k < S
    BY <1>1, <2>1, <2>2, LineAndByte, LineBefore
  <2>4. k \in DOMAIN D
    BY <1>1, <1>2, <2>3
  <2> QED
    BY <1>2, <2>1, <2>3, <2>4
<1>5. ASSUME NEW i \in Statics
      PROVE  \E k \in DOMAIN D : D[k] = Stay(i)
  <2>1. i \in Nat /\ i <= NUM_STATIC_LAYER - 1
    BY <1>1 DEF Statics
  <2>2. PICK k \in Nat : k = i + S /\ ~(k < S) /\ k - S = i /\ k <= S + NUM_STATIC_LAYER - 1
    BY <1>1, <2>1
  <2>3. k \in 0 .. S + NUM_STATIC_LAYER - 1
    BY <1>1, <2>2
  <2>4. k \in DOMAIN D
    BY <1>2, <2>3
  <2>5. D[k] = Stay(k - S)
    BY <1>2, <2>2, <2>3
  <2> QED
    BY <2>2, <2>4, <2>5
<1>6. {D[k] : k \in DOMAIN D} = {Slide(p) : p \in Places} \cup {Stay(i) : i \in Statics}
  BY <1>3, <1>4, <1>5
<1>7. \E n \in Nat : DOMAIN D = 0 .. n
  <2>1. S + NUM_STATIC_LAYER - 1 \in Nat
    BY <1>1
  <2> QED
    BY <1>2, <2>1
<1> QED
  BY <1>6, <1>7 DEF Slide, Stay

LEMMA PaintIs ==
  ASSUME NEW n \in Nat, NEW D, DOMAIN D = 0 .. n, NEW buf, NEW a \in DOMAIN buf
  PROVE  \/ Paint(buf, D)[a] = buf[a] /\ \A l \in {D[k] : k \in DOMAIN D} : Filtered(l, a) = {}
         \/ \E l \in {D[k] : k \in DOMAIN D} : Paint(buf, D)[a] \in Filtered(l, a)
<1> DEFINE over == {k \in DOMAIN D : Filtered(D[k], a) # {}}
<1>1. Paint(buf, D)[a] = IF over = {} THEN buf[a]
                         ELSE CHOOSE byte \in Filtered(D[Max(over)], a) : TRUE
  BY DEF Paint
<1>2. over # {} => Max(over) \in over
  BY MaxIs
<1> QED
  BY <1>1, <1>2

-----------------------------------------------------------------------------
(* What is drawn where. *)

\* l draws the text of u, and nothing else, where u is.
Draws(l, u) ==
  /\ l.map = u.map
  /\ \A a \in Nat : \A b \in Transferred(l, a) :
       \E i \in 0 .. edge-1, j \in 0 .. u.width-1 :
         OnScreen(u, j) /\ a = At(u, i, j) /\ b = u.map.cells[<<i, j>>]
  /\ \A i \in 0 .. edge-1, j \in 0 .. u.width-1 :
       OnScreen(u, j) => u.map.cells[<<i, j>>] \in Transferred(l, At(u, i, j))

\* The transfers of a layer bring the pixels of its text to their addresses, and nothing
\* else anywhere.
LEMMA DrawsIs ==
  ASSUME screen_width \in ScreenWidths, NEW u, u.x \in Int, u.width \in Nat, u.y \in Nat,
         NEW strips, Drawn(strips) = Visible(u.x, u.width),
         NEW l, l = [y |-> u.y, strips |-> strips, map |-> u.map]
  PROVE  Draws(l, u)
<1> PICK x \in Int : x = u.x
  OBVIOUS
<1> PICK width \in Nat : width = u.width
  OBVIOUS
<1> PICK y \in Nat : y = u.y
  OBVIOUS
<1> PICK m : m = u.map
  OBVIOUS
<1>1. screen_width \in Nat \ {0} /\ edge \in Nat
  BY ScreenIs DEF edge
<1> PICK W \in Nat \ {0} : W = screen_width + 2
  BY <1>1
<1> PICK base \in Nat : base = edge * y
  BY <1>1
<1> PICK first \in Nat : first = base * W
  OBVIOUS
<1>2. /\ l.y = y /\ l.strips = strips /\ l.map = m /\ LineBase(y) = first
  BY <1>1 DEF LineBase
<1> DEFINE Line(a) == (a - first) \div W  Col(a) == (a - first) % W
<1>3. ASSUME NEW a, NEW b
      PROVE  b \in Transferred(l, a) <=>
               \E s \in strips : /\ a >= first /\ Line(a) < edge /\ Col(a) \in s.from .. s.to
                                 /\ b = m.cells[<<Line(a), s.src + Col(a) - s.from>>]
  <2> HIDE DEF edge
  <2>1. Transferred(l, a) =
          {m.cells[<<Line(a), s.src + Col(a) - s.from>>] :
             s \in {t \in strips :
                      a >= first /\ Line(a) < edge /\ Col(a) \in t.from .. t.to}}
    BY <1>2 DEF Transferred
  <2> HIDE DEF Line, Col
  <2> QED
    BY <2>1
<1>4. \A i \in Nat : (base + i) * W = first + i * W /\ i * W \in Nat
  BY <1>1
<1>5. ASSUME NEW a \in Nat, NEW b \in Transferred(l, a)
      PROVE  \E i \in 0 .. edge-1, j \in 0 .. width-1 :
               /\ x + j \in 0 .. screen_width-1
               /\ a = (base + i) * W + x + j /\ b = m.cells[<<i, j>>]
  <2> HIDE DEF Line, Col
  <2>1. PICK s \in strips : /\ a >= first /\ Line(a) < edge /\ Col(a) \in s.from .. s.to
                            /\ b = m.cells[<<Line(a), s.src + Col(a) - s.from>>]
    BY <1>3, <1>5
  <2>2. PICK n \in Nat : n = a - first /\ a = first + n
    BY <2>1
  <2>3. PICK i \in Nat, c \in 0 .. W-1 : i = n \div W /\ c = n % W /\ n = i * W + c
    BY LineOf, n \div W \in Nat, n % W \in 0 .. W-1
  <2>4. i < edge /\ c \in s.from .. s.to /\ b = m.cells[<<i, s.src + c - s.from>>]
    <3>1. Line(a) = i /\ Col(a) = c
      BY <2>2, <2>3 DEF Line, Col
    <3> QED
      BY <2>1, <3>1
  <2>5. <<c, s.src + c - s.from>> \in Drawn(strips)
    BY <2>4 DEF Drawn
  <2>6. c \in 0 .. screen_width-1 /\ c - x \in 0 .. width-1 /\ s.src + c - s.from = c - x
    BY <2>5 DEF Visible
  <2>7. PICK j \in 0 .. width-1 : j = c - x /\ x + j = c
    BY <2>6, c \in Int
  <2>8. i \in 0 .. edge-1 /\ b = m.cells[<<i, j>>]
    BY <1>1, <2>4, <2>6, <2>7
  <2>9. PICK line \in Nat : line = i * W
    BY <1>4
  <2>10. (base + i) * W = first + line
    BY <1>4, <2>3, <2>9
  <2>11. n = line + c
    BY <2>3, <2>9
  <2>12. a = first + line + x + j
    <3>1. c \in Int /\ j \in Int
      OBVIOUS
    <3> QED
      BY <2>2, <2>7, <2>11, <3>1
  <2>13. a = (base + i) * W + x + j
    BY <2>10, <2>12
  <2> QED
    BY <2>6, <2>7, <2>8, <2>13
<1>6. ASSUME NEW i \in 0 .. edge-1, NEW j \in 0 .. width-1, x + j \in 0 .. screen_width-1
      PROVE  m.cells[<<i, j>>] \in Transferred(l, (base + i) * W + x + j)
  <2>1. PICK c \in 0 .. screen_width-1 : c = x + j /\ j = c - x
    BY <1>6
  <2>2. i \in Nat /\ c \in 0 .. W-1 /\ i < edge /\ c \in Nat
    BY <1>1, <2>1
  <2>3. <<c, c - x>> \in Visible(x, width)
    BY <2>1 DEF Visible
  <2>4. PICK s \in strips : <<c, c - x>> \in {<<d, s.src + d - s.from>> : d \in s.from .. s.to}
    BY <2>3 DEF Drawn
  <2>5. c \in s.from .. s.to /\ s.src + c - s.from = j
    BY <2>1, <2>4
  <2>6. PICK line \in Nat : line = i * W
    BY <1>4, <2>2
  <2>7. PICK n \in Nat : n = line + c
    BY <2>2
  <2>8. n \div W = i /\ n % W = c
    BY <2>2, <2>6, <2>7, LineAndByte
  <2>9. PICK a \in Nat : a = first + n
    OBVIOUS
  <2>10. a - first = n /\ a >= first
    BY <2>9
  <2>11. m.cells[<<i, j>>] \in Transferred(l, a)
    <3>1. Line(a) = i /\ Col(a) = c
      BY <2>8, <2>10
    <3> HIDE DEF Line, Col
    <3> QED
      BY <1>3, <2>2, <2>5, <2>10, <3>1
  <2>12. (base + i) * W = first + line
    BY <1>4, <2>2, <2>6
  <2>13. first + line + x + j = a
    BY <2>1, <2>2, <2>7, <2>9, j \in Int
  <2> QED
    BY <2>11, <2>12, <2>13
<1>7. ASSUME NEW i, NEW j
      PROVE  At(u, i, j) = (base + i) * W + x + j
  BY DEF At
<1>8. \A j : OnScreen(u, j) <=> x + j \in 0 .. screen_width-1
  BY DEF OnScreen
<1>9. ASSUME NEW a \in Nat, NEW b \in Transferred(l, a)
      PROVE  \E i \in 0 .. edge-1, j \in 0 .. u.width-1 :
               OnScreen(u, j) /\ a = At(u, i, j) /\ b = u.map.cells[<<i, j>>]
  <2>1. PICK i \in 0 .. edge-1, j \in 0 .. width-1 :
          /\ x + j \in 0 .. screen_width-1
          /\ a = (base + i) * W + x + j /\ b = m.cells[<<i, j>>]
    BY <1>5, <1>9
  <2>2. a = At(u, i, j)
    BY <1>7, <2>1
  <2> QED
    BY <1>8, <2>1, <2>2
<1>10. ASSUME NEW i \in 0 .. edge-1, NEW j \in 0 .. u.width-1, OnScreen(u, j)
       PROVE  u.map.cells[<<i, j>>] \in Transferred(l, At(u, i, j))
  <2>1. At(u, i, j) = (base + i) * W + x + j
    BY <1>7
  <2>2. m.cells[<<i, j>>] \in Transferred(l, (base + i) * W + x + j)
    BY <1>6, <1>8, <1>10
  <2> QED
    BY <2>1, <2>2
<1> QED
  BY <1>2, <1>9, <1>10 DEF Draws

SlidingLayer(p) ==
  Layer(sliding_layers[p], sliding_layers[p].x, sliding_layers[p].width, p[1],
        sliding_maps[p])
StaticLayer(i) ==
  LET s == static_layers[i]
      x == IF s.valid_len < screen_width THEN (screen_width - s.valid_len) \div 2 ELSE 0
  IN  Layer(s, x, s.valid_len, i, static_maps[i])

LEMMA InUseAre ==
  InUse = {SlidingLayer(p) : p \in Sliding} \cup {StaticLayer(i) : i \in Shown}
BY DEF InUse, SlidingLayer, StaticLayer, Sliding, Shown

LEMMA SlidingDraws ==
  ASSUME DanmakuInvariant, NEW p \in Sliding
  PROVE  Draws(SlidingNow(p), SlidingLayer(p))
<1> DEFINE s == sliding_layers[p]
<1>1. /\ s.x \in Int /\ s.width \in Nat /\ p[1] \in Nat
      /\ screen_width \in ScreenWidths
  BY ConstantsAre, DanmakuAssumption DEF DanmakuInvariant, SlidingOK, SlidingLayers, Sliding, Places
<1>2. Drawn(SlidingStrip(s)) = Visible(s.x, s.width)
  BY StripsFitNow DEF StripsFit
<1>3. SlidingNow(p) = [y |-> p[1], strips |-> SlidingStrip(s), map |-> sliding_maps[p]]
  BY DEF SlidingNow
<1>4. LET u == SlidingLayer(p)
      IN  u.x = s.x /\ u.width = s.width /\ u.y = p[1] /\ u.map = sliding_maps[p]
  BY DEF SlidingLayer, Layer
<1> HIDE DEF s
<1> QED
  BY <1>1, <1>2, <1>3, <1>4, DrawsIs

LEMMA StaticDraws ==
  ASSUME DanmakuInvariant, NEW i \in Shown
  PROVE  Draws(StaticNow(i), StaticLayer(i))
<1> DEFINE s == static_layers[i]
           x == IF s.valid_len < screen_width THEN (screen_width - s.valid_len) \div 2 ELSE 0
<1>1. /\ x \in Int /\ s.valid_len \in Nat /\ i \in Nat
      /\ screen_width \in ScreenWidths
  BY ConstantsAre, DanmakuAssumption DEF DanmakuInvariant, StaticOK, StaticLayers, Shown, Statics
<1>2. Drawn(StaticStrip(s)) = Visible(x, s.valid_len)
  BY StripsFitNow DEF StripsFit
<1>3. StaticNow(i) = [y |-> i, strips |-> StaticStrip(s), map |-> static_maps[i]]
  BY DEF StaticNow
<1>4. LET u == StaticLayer(i)
      IN  u.x = x /\ u.width = s.valid_len /\ u.y = i /\ u.map = static_maps[i]
  BY DEF StaticLayer, Layer
<1> HIDE DEF s, x
<1> QED
  BY <1>1, <1>2, <1>3, <1>4, DrawsIs

\* Every layer drawn is one in use or draws nothing; every one in use is drawn.
LEMMA LayersAre ==
  ASSUME DanmakuInvariant
  PROVE  /\ \A l \in LayersNow : (\E u \in InUse : Draws(l, u)) \/ \A a : Filtered(l, a) = {}
         /\ \A u \in InUse : \E l \in LayersNow : Draws(l, u)
<1>1. ASSUME NEW p \in Places, ~sliding_layers[p].enable
      PROVE  \A a : Filtered(SlidingNow(p), a) = {}
  <2>1. SlidingNow(p).strips = {}
    BY <1>1 DEF SlidingNow, SlidingStrip
  <2> QED
    BY <2>1 DEF Filtered, Transferred
<1>2. ASSUME NEW i \in Statics, ~static_layers[i].enable
      PROVE  \A a : Filtered(StaticNow(i), a) = {}
  <2>1. StaticNow(i).strips = {}
    BY <1>2 DEF StaticNow, StaticStrip
  <2> QED
    BY <2>1 DEF Filtered, Transferred
<1>3. Sliding \subseteq Places /\ Shown \subseteq Statics
  BY DEF Sliding, Shown
<1>4. ASSUME NEW l \in LayersNow
      PROVE  (\E u \in InUse : Draws(l, u)) \/ \A a : Filtered(l, a) = {}
  <2>1. ASSUME NEW p \in Places, l = SlidingNow(p)
        PROVE  (\E u \in InUse : Draws(l, u)) \/ \A a : Filtered(l, a) = {}
    <3>1. CASE p \in Sliding
      BY <2>1, <3>1, SlidingDraws, InUseAre
    <3>2. CASE p \notin Sliding
      BY <1>1, <2>1, <3>2 DEF Sliding
    <3> QED
      BY <3>1, <3>2
  <2>2. ASSUME NEW i \in Statics, l = StaticNow(i)
        PROVE  (\E u \in InUse : Draws(l, u)) \/ \A a : Filtered(l, a) = {}
    <3>1. CASE i \in Shown
      BY <2>2, <3>1, StaticDraws, InUseAre
    <3>2. CASE i \notin Shown
      BY <1>2, <2>2, <3>2 DEF Shown
    <3> QED
      BY <3>1, <3>2
  <2> QED
    BY <2>1, <2>2 DEF LayersNow
<1>5. \A u \in InUse : \E l \in LayersNow : Draws(l, u)
  BY <1>3, SlidingDraws, StaticDraws, InUseAre DEF LayersNow
<1> QED
  BY <1>4, <1>5

\* A layer in use has its text in its map, and the map is large enough.
InUseOK(u) ==
  /\ u.map \in Maps /\ Renders(u.map, u.id, u.width)
  /\ u.x \in Int /\ u.width \in 0 .. MAX_WIDTH /\ u.y \in Nat
  /\ u.y < SLIDING_LAYER_ROWS \/ u.y < NUM_STATIC_LAYER

LEMMA InUseIs ==
  ASSUME DanmakuInvariant, MapsTrue, NEW u \in InUse
  PROVE  /\ InUseOK(u)
         /\ \A i \in 0 .. edge-1, j \in 0 .. u.width-1 : <<i, j>> \in MapCells
<1>1. screen_width \in ScreenWidths /\ MAX_WIDTH \in Nat
  BY ConstantsAre DEF DanmakuInvariant
<1>2. InUseOK(u)
  <2>1. ASSUME NEW p \in Sliding, u = SlidingLayer(p)
        PROVE  InUseOK(u)
    <3> DEFINE s == sliding_layers[p]
    <3>1. /\ p \in Places /\ s.enable /\ s.x \in Int /\ s.width \in 0 .. MAX_WIDTH
      BY DEF DanmakuInvariant, SlidingOK, SlidingLayers, Sliding
    <3>2. p[1] \in Nat /\ p[1] < SLIDING_LAYER_ROWS
      BY <3>1, DanmakuAssumption DEF Places
    <3>3. sliding_maps[p] \in Maps /\ Renders(sliding_maps[p], s.id, s.width)
      BY <3>1 DEF MapsTrue, RightMaps, SlidingWidth
    <3>4. /\ u.x = s.x /\ u.width = s.width /\ u.y = p[1] /\ u.id = s.id
          /\ u.map = sliding_maps[p]
      BY <2>1 DEF SlidingLayer, Layer
    <3> HIDE DEF s
    <3> QED
      BY <3>1, <3>2, <3>3, <3>4 DEF InUseOK
  <2>2. ASSUME NEW i \in Shown, u = StaticLayer(i)
        PROVE  InUseOK(u)
    <3> DEFINE s == static_layers[i]
               x == IF s.valid_len < screen_width THEN (screen_width - s.valid_len) \div 2 ELSE 0
    <3>1. /\ i \in Statics /\ s.enable /\ s.valid_len \in 0 .. MAX_WIDTH
      BY DEF DanmakuInvariant, StaticOK, StaticLayers, Shown
    <3>2. i \in Nat /\ i < NUM_STATIC_LAYER /\ x \in Int
      BY <1>1, <3>1, DanmakuAssumption DEF Statics
    <3>3. static_maps[i] \in Maps /\ Renders(static_maps[i], s.id, s.valid_len)
      BY <3>1 DEF MapsTrue, RightMaps, StaticWidth
    <3>4. /\ u.x = x /\ u.width = s.valid_len /\ u.y = i /\ u.id = s.id
          /\ u.map = static_maps[i]
      BY <2>2 DEF StaticLayer, Layer
    <3> HIDE DEF s, x
    <3> QED
      BY <3>1, <3>2, <3>3, <3>4 DEF InUseOK
  <2> QED
    BY <2>1, <2>2, InUseAre
<1>3. /\ edge \in 1 .. Rows /\ Rows \in Nat /\ Cols \in Nat /\ MAX_WIDTH <= Cols
  BY <1>1, ScreenIs, PictureAssumption DEF edge
<1>4. \A i \in 0 .. edge-1, j \in 0 .. u.width-1 : <<i, j>> \in MapCells
  BY <1>1, <1>2, <1>3 DEF InUseOK, MapCells
<1> QED
  BY <1>2, <1>4

\* Where the screen has room for the rows, a text is within the frame.
LEMMA InFrame ==
  ASSUME DanmakuInvariant, MapsTrue, NEW u \in InUse,
         NEW i \in 0 .. edge-1, NEW j \in 0 .. u.width-1, OnScreen(u, j)
  PROVE  /\ At(u, i, j) \in Nat
         /\ At(u, i, j) % (screen_width + 2) = u.x + j
         /\ At(u, i, j) \div (screen_width + 2) = edge * u.y + i
         /\ RowsFit => At(u, i, j) \in 0 .. img_size - 1
<1>1. /\ screen_width \in Nat \ {0} /\ HeightOf[screen_width] \in Nat
      /\ img_size = HeightOf[screen_width] * (screen_width + 2)
      /\ edge \in Nat /\ edge = Edge(screen_width) /\ u.x \in Int
  BY ScreenIs, InUseIs DEF InUseOK, DanmakuInvariant, img_size, edge
<1> PICK W \in Nat \ {0} : W = screen_width + 2
  BY <1>1
<1> PICK c \in 0 .. screen_width - 1 : c = u.x + j
  BY DEF OnScreen
<1> PICK h \in Nat : h = HeightOf[screen_width]
  BY <1>1
<1> PICK e \in Nat : e = edge
  BY <1>1
<1> PICK y \in Nat : y = u.y
  BY InUseIs DEF InUseOK
<1> PICK n \in Nat : n = e * y + i
  OBVIOUS
<1>2. At(u, i, j) = n * W + c
  <2>1. At(u, i, j) = n * W + u.x + j
    BY DEF At
  <2>2. PICK k \in Nat : k = n * W
    OBVIOUS
  <2>3. k + u.x + j = k + c
    BY <1>1, j \in Int
  <2> QED
    BY <2>1, <2>2, <2>3
<1>3. c \in 0 .. W-1
  BY <1>1
<1>4. n * W + c \in Nat /\ (n * W + c) \div W = n /\ (n * W + c) % W = c
  BY <1>3, LineAndByte
<1>5. ASSUME RowsFit
      PROVE  At(u, i, j) \in 0 .. img_size - 1
  <2>1. PICK rows \in Nat : y < rows /\ e * rows <= h
    BY <1>5, InUseIs, DanmakuAssumption DEF InUseOK, RowsFit
  <2>2. n < h
    <3>1. (y + 1) * e <= rows * e
      BY <2>1, Product
    <3>2. (y + 1) * e = e * y + e /\ rows * e = e * rows /\ e * y \in Nat /\ e * rows \in Nat
      OBVIOUS
    <3> QED
      BY <2>1, <3>1, <3>2
  <2>3. n * W + c < h * W
    BY <1>3, <2>2, LineBefore
  <2> QED
    BY <1>1, <1>2, <1>4, <2>3, img_size \in Int
<1> QED
  BY <1>2, <1>4, <1>5

\* A byte that a layer writes is one of the map of a layer in use, on a pixel.
PixelOf(u, a, b) ==
  \E i \in 0 .. edge-1, j \in 0 .. u.width-1 :
    /\ OnScreen(u, j) /\ a = At(u, i, j)
    /\ b = u.map.cells[<<i, j>>] /\ b # Transparent /\ b \in Codes

LEMMA WrittenIs ==
  ASSUME DanmakuInvariant, MapsTrue, NEW l \in LayersNow, NEW a \in Nat,
         NEW b \in Filtered(l, a)
  PROVE  \E u \in InUse : PixelOf(u, a, b)
<1>1. b \in Transferred(l, a) /\ b # Transparent
  BY DEF Filtered
<1>2. PICK u \in InUse : Draws(l, u)
  BY LayersAre
<1>3. PICK i \in 0 .. edge-1, j \in 0 .. u.width-1 :
        OnScreen(u, j) /\ a = At(u, i, j) /\ b = u.map.cells[<<i, j>>]
  BY <1>1, <1>2 DEF Draws
<1>4. u.map \in Maps /\ <<i, j>> \in MapCells
  BY InUseIs DEF InUseOK
<1>5. b \in Codes
  BY <1>3, <1>4 DEF Maps
<1> QED
  BY <1>1, <1>3, <1>5 DEF PixelOf

LEMMA CodesAre ==
  ASSUME NEW b \in Codes
  PROVE  b \notin {Clear, HSync, VSync}
BY DEF Codes, Junk, Transparent, Clear, HSync, VSync, Byte, InkOf, OutlineOf

\* Past the frame nothing is written where the screen has room for the rows.
OnlyInFrame == \A l \in LayersNow : \A a \in Nat : a >= img_size => Filtered(l, a) = {}

LEMMA WrittenInFrame == DanmakuInvariant /\ MapsTrue /\ RowsFit => OnlyInFrame
<1> SUFFICES ASSUME DanmakuInvariant, MapsTrue, RowsFit,
                    NEW l \in LayersNow, NEW a \in Nat, a >= img_size, NEW b \in Filtered(l, a)
             PROVE  FALSE
  BY DEF OnlyInFrame
<1>1. PICK u \in InUse : PixelOf(u, a, b)
  BY WrittenIs
<1>2. a \in 0 .. img_size - 1
  BY <1>1, InFrame DEF PixelOf
<1>3. img_size \in Int
  BY ScreenIs DEF DanmakuInvariant, img_size
<1> QED
  BY <1>2, <1>3

-----------------------------------------------------------------------------
(* What the invariant says of the frame. *)

LEMMA InSyncNow == PictureInvariant => (drawn => InSync)
<1> SUFFICES ASSUME PictureInvariant, drawn PROVE InSync
  OBVIOUS
<1> DEFINE w == screen_width  h == HeightOf[screen_width]
<1>1. DanmakuInvariant /\ MapsTrue /\ FrameTrue /\ w \in ScreenWidths
  BY DEF PictureInvariant, TextsInvariant, DanmakuInvariant
<1>2. /\ w \in Nat \ {0} /\ h \in Nat /\ img_size = h * (w + 2) /\ img_size \in 0 .. Span
      /\ Span \in Nat
  BY <1>1, ScreenIs DEF img_size
<1>3. (w + 2) * h = img_size
  BY <1>2
<1>4. ASSUME NEW a \in 0 .. img_size - 1
      PROVE  /\ fb[a] = VSync <=> a % (w+2) >= w /\ a \div (w+2) = h-1
             /\ fb[a] = HSync <=> a % (w+2) >= w /\ a \div (w+2) < h-1
  <2>1. /\ BlankScreen(w)[a] = VSync <=> a % (w+2) >= w /\ a \div (w+2) = h-1
        /\ BlankScreen(w)[a] = HSync <=> a % (w+2) >= w /\ a \div (w+2) < h-1
    BY <1>1, BlankIs DEF img_size
  <2>2. CASE fb[a] = BlankScreen(w)[a]
    BY <2>1, <2>2
  <2>3. CASE fb[a] # BlankScreen(w)[a]
    <3>1. PICK l \in LayersNow : fb[a] \in Filtered(l, a)
      BY <1>1, <2>3 DEF FrameTrue, Visibly
    <3>2. PICK u \in InUse : PixelOf(u, a, fb[a])
      BY <1>1, <3>1, a \in Nat, WrittenIs
    <3>3. PICK i \in 0 .. edge-1, j \in 0 .. u.width-1 :
            OnScreen(u, j) /\ a = At(u, i, j) /\ fb[a] \in Codes
      BY <3>2 DEF PixelOf
    <3>4. a % (w+2) = u.x + j
      BY <1>1, <3>3, InFrame
    <3>5. u.x + j \in 0 .. w-1
      BY <3>3 DEF OnScreen
    <3>6. ~(a % (w+2) >= w)
      BY <1>2, <3>4, <3>5
    <3> QED
      BY <3>3, <3>6, CodesAre
  <2> QED
    BY <2>2, <2>3
<1> QED
  BY <1>3, <1>4 DEF InSync

LEMMA NothingLeftOverNow == PictureInvariant => NothingLeftOver
<1> SUFFICES ASSUME PictureInvariant, drawn, \A u \in InUse : Fresh(u),
                    NEW a \in 0 .. img_size-1
             PROVE  /\ fb[a] # Junk
                    /\ fb[a].id # 0 =>
                         \E u \in InUse : /\ u.id = fb[a].id
                                          /\ \E i \in 0 .. edge-1, j \in 0 .. u.width-1 :
                                               OnScreen(u, j) /\ a = At(u, i, j)
  BY DEF NothingLeftOver
<1>1. DanmakuInvariant /\ MapsTrue /\ FrameTrue /\ screen_width \in ScreenWidths
  BY DEF PictureInvariant, TextsInvariant, DanmakuInvariant
<1>2. CASE fb[a] = BlankScreen(screen_width)[a]
  <2>1. fb[a] \in {Clear, HSync, VSync}
    BY <1>1, <1>2, BlankIs DEF img_size
  <2> QED
    BY <2>1 DEF Clear, HSync, VSync, Junk, Byte
<1>3. CASE fb[a] # BlankScreen(screen_width)[a]
  <2>1. PICK l \in LayersNow : fb[a] \in Filtered(l, a)
    BY <1>1, <1>3 DEF FrameTrue, Visibly
  <2>2. PICK u \in InUse : PixelOf(u, a, fb[a])
    BY <1>1, <2>1, a \in Nat, WrittenIs
  <2>3. PICK i \in 0 .. edge-1, j \in 0 .. u.width-1 :
          /\ OnScreen(u, j) /\ a = At(u, i, j)
          /\ fb[a] = u.map.cells[<<i, j>>] /\ fb[a] # Transparent
    BY <2>2 DEF PixelOf
  <2>4. /\ Renders(u.map, u.id, u.width) /\ u.width \in Nat /\ <<i, j>> \in MapCells
        /\ u.map.edge = edge /\ u.width <= edge * Chars[u.id] /\ edge \in Nat
    BY <1>1, InUseIs, ConstantsAre, ScreenIs DEF InUseOK, Fresh, edge
  <2>5. i < edge /\ j < edge * Chars[u.id]
    <3>1. PICK cleared \in Nat : cleared = edge * Chars[u.id]
      BY <2>4, PictureAssumption DEF Renders
    <3> QED
      BY <2>4, <3>1
  <2>6. fb[a] \in {InkOf(u.id), OutlineOf(u.id)}
    BY <2>3, <2>4, <2>5 DEF Renders
  <2>7. fb[a] # Junk /\ fb[a].id = u.id
    BY <2>6 DEF Junk, Byte, InkOf, OutlineOf
  <2> QED
    BY <2>3, <2>7
<1> QED
  BY <1>2, <1>3

\* Two layers in use have different maps, with different marks.
LEMMA InUseApart ==
  ASSUME MapsTrue, MarksApart, NEW u \in InUse, NEW v \in InUse, u # v
  PROVE  Marks(u.map) \cap Marks(v.map) = {}
<1>1. /\ \A p \in Sliding : p \in Places /\ SlidingLayer(p).map = sliding_maps[p]
      /\ \A i \in Shown : i \in Statics /\ StaticLayer(i).map = static_maps[i]
  BY DEF Sliding, Shown, SlidingLayer, StaticLayer, Layer
<1>2. /\ \A p \in Places : Marks(sliding_maps[p]) \subseteq AllMarks(Places, sliding_maps)
      /\ \A i \in Statics : Marks(static_maps[i]) \subseteq AllMarks(Statics, static_maps)
      /\ AllMarks(Places, sliding_maps) \cap AllMarks(Statics, static_maps) = {}
  BY DEF AllMarks, MarksApart
<1>3. /\ \A p, o \in Places : p # o => Marks(sliding_maps[p]) \cap Marks(sliding_maps[o]) = {}
      /\ \A i, j \in Statics : i # j => Marks(static_maps[i]) \cap Marks(static_maps[j]) = {}
  BY DEF MarksApart, Apartness
<1>4. ASSUME NEW p \in Sliding, u = SlidingLayer(p)
      PROVE  Marks(u.map) \cap Marks(v.map) = {}
  <2>1. ASSUME NEW o \in Sliding, v = SlidingLayer(o)
        PROVE  Marks(u.map) \cap Marks(v.map) = {}
    BY <1>1, <1>3, <1>4, <2>1
  <2>2. ASSUME NEW i \in Shown, v = StaticLayer(i)
        PROVE  Marks(u.map) \cap Marks(v.map) = {}
    BY <1>1, <1>2, <1>4, <2>2
  <2> QED
    BY <2>1, <2>2, InUseAre
<1>5. ASSUME NEW i \in Shown, u = StaticLayer(i)
      PROVE  Marks(u.map) \cap Marks(v.map) = {}
  <2>1. ASSUME NEW o \in Sliding, v = SlidingLayer(o)
        PROVE  Marks(u.map) \cap Marks(v.map) = {}
    BY <1>1, <1>2, <1>5, <2>1
  <2>2. ASSUME NEW j \in Shown, v = StaticLayer(j)
        PROVE  Marks(u.map) \cap Marks(v.map) = {}
    BY <1>1, <1>3, <1>5, <2>2
  <2> QED
    BY <2>1, <2>2, InUseAre
<1> QED
  BY <1>4, <1>5, InUseAre

LEMMA InkShownNow == PictureInvariant => InkShown
<1> SUFFICES ASSUME PictureInvariant, NEW u \in InUse, drawn, u.map.edge = edge, RowsFit,
                    NEW c \in Ink[u.id], c[1] < edge, c[2] < u.width, OnScreen(u, c[2])
             PROVE  LET b == fb[At(u, c[1], c[2])]
                    IN  b = InkOf(u.id) \/ (b.id # u.id /\ b \notin {Clear, Transparent})
  BY DEF InkShown
<1>1. /\ DanmakuInvariant /\ MapsTrue /\ MarksApart /\ FrameTrue
      /\ screen_width \in ScreenWidths
  BY DEF PictureInvariant, TextsInvariant, DanmakuInvariant
<1>2. /\ u.map \in Maps /\ Renders(u.map, u.id, u.width) /\ u.id \in 1 .. MaxTexts
      /\ u.width \in Nat /\ edge \in Nat /\ MaxTexts \in Nat
  BY <1>1, InUseIs, ConstantsAre, ScreenIs, DanmakuAssumption DEF InUseOK, Renders, edge
<1>3. PICK i \in 0 .. edge-1, j \in 0 .. u.width-1 : i = c[1] /\ j = c[2] /\ c = <<i, j>>
  <2>1. c \in Nat \X Nat
    BY <1>2, PictureAssumption
  <2> QED
    BY <1>2, <2>1
<1>4. OnScreen(u, j) /\ <<i, j>> \in MapCells
  BY <1>1, <1>3, InUseIs
<1>5. u.map.cells[<<i, j>>] = InkOf(u.id)
  BY <1>2, <1>3, <1>4 DEF Renders
<1>6. PICK a \in 0 .. img_size-1 : a = At(u, i, j) /\ a \in Nat
  BY <1>1, <1>4, InFrame
<1>7. InkOf(u.id) # Transparent /\ InkOf(u.id).id = u.id
  BY DEF InkOf, Transparent, Byte
<1>8. PICK l \in LayersNow : InkOf(u.id) \in Filtered(l, a)
  <2>1. PICK l \in LayersNow : Draws(l, u)
    BY <1>1, LayersAre
  <2>2. InkOf(u.id) \in Transferred(l, a)
    BY <1>4, <1>5, <1>6, <2>1 DEF Draws
  <2> QED
    BY <1>7, <2>2 DEF Filtered
<1>9. PICK k \in LayersNow : fb[a] \in Filtered(k, a)
  BY <1>1, <1>8 DEF FrameTrue, Visibly
<1>10. PICK v \in InUse : PixelOf(v, a, fb[a])
  BY <1>1, <1>6, <1>9, WrittenIs
<1>11. PICK m \in 0 .. edge-1, n \in 0 .. v.width-1 :
         /\ OnScreen(v, n) /\ a = At(v, m, n)
         /\ fb[a] = v.map.cells[<<m, n>>] /\ fb[a] # Transparent /\ fb[a] \in Codes
  BY <1>10 DEF PixelOf
<1>12. CASE u = v
  <2>1. /\ a % (screen_width + 2) = u.x + j /\ a % (screen_width + 2) = u.x + n
        /\ a \div (screen_width + 2) = edge * u.y + i
        /\ a \div (screen_width + 2) = edge * u.y + m
    <3>1. n \in 0 .. u.width-1 /\ OnScreen(u, n) /\ a = At(u, m, n)
      BY <1>11, <1>12
    <3>2. /\ At(u, i, j) % (screen_width + 2) = u.x + j
          /\ At(u, i, j) \div (screen_width + 2) = edge * u.y + i
      BY <1>1, <1>4, InFrame
    <3>3. /\ At(u, m, n) % (screen_width + 2) = u.x + n
          /\ At(u, m, n) \div (screen_width + 2) = edge * u.y + m
      BY <1>1, <3>1, InFrame
    <3> QED
      BY <1>6, <3>1, <3>2, <3>3, Zenon
  <2>2. u.x \in Int /\ u.y \in Nat
    BY <1>1, InUseIs DEF InUseOK
  <2>3. PICK base \in Nat : base = edge * u.y
    BY <1>2, <2>2
  <2>4. u.x + j = u.x + n /\ base + i = base + m
    BY <2>1, <2>3
  <2>5. j = n /\ i = m
    BY <2>2, <2>4, i \in Int, m \in Int, j \in Int, n \in Int
  <2> QED
    BY <1>3, <1>5, <1>6, <1>11, <1>12, <2>5
<1>13. CASE u # v
  <2>1. u.id \in Marks(u.map)
    BY <1>2, <1>4, <1>5, <1>7 DEF Marks
  <2>2. v.map \in Maps /\ <<m, n>> \in MapCells
    BY <1>1, InUseIs DEF InUseOK
  <2>3. fb[a].id # u.id
    <3>1. CASE fb[a].id = 0
      BY <1>2, <3>1
    <3>2. CASE fb[a].id # 0
      <4>1. fb[a].id \in Marks(v.map)
        BY <1>11, <2>2, <3>2 DEF Marks
      <4> QED
        BY <1>1, <1>13, <2>1, <4>1, InUseApart
    <3> QED
      BY <3>1, <3>2
  <2> QED
    BY <1>3, <1>6, <1>11, <2>3, CodesAre
<1> QED
  BY <1>12, <1>13

-----------------------------------------------------------------------------
(* The inductive invariant: the maps. *)

\* The invariant after a step is what the operators say of the values after it.
LEMMA MapsPrimed ==
  ASSUME NEW sm, sliding_maps' = sm, NEW tm, static_maps' = tm,
         NEW L, sliding_layers' = L, NEW T, static_layers' = T,
         NEW lw, SlidingWidth' = lw, NEW tw, StaticWidth' = tw,
         sm \in [Places -> Maps], tm \in [Statics -> Maps],
         RightMaps(Places, sm, L, lw), RightMaps(Statics, tm, T, tw)
  PROVE  MapsTrue'
<1>1. /\ RightMaps(Places, sliding_maps, sliding_layers, SlidingWidth)'
      /\ RightMaps(Statics, static_maps, static_layers, StaticWidth)'
  BY DEF RightMaps, Renders
<1> QED
  BY <1>1 DEF MapsTrue

LEMMA MarksPrimed ==
  ASSUME NEW sm, sliding_maps' = sm, NEW tm, static_maps' = tm,
         NEW ls, sliding_latest'.id = ls, NEW lt, static_latest'.id = lt,
         NEW qs, WaitingIds(sliding_queen)' = qs, NEW qt, WaitingIds(static_queen)' = qt,
         Apartness(Places, sm, ls), Apartness(Statics, tm, lt),
         (qs \cup AllMarks(Places, sm)) \cap (qt \cup AllMarks(Statics, tm)) = {}
  PROVE  MarksApart'
<1>1. /\ \A p : Marks(sliding_maps[p])' = Marks(sm[p])
      /\ \A i : Marks(static_maps[i])' = Marks(tm[i])
  BY DEF Marks
<1>2. /\ AllMarks(Places, sliding_maps)' = AllMarks(Places, sm)
      /\ AllMarks(Statics, static_maps)' = AllMarks(Statics, tm)
  BY DEF AllMarks, Marks
<1>3. Apartness(Places, sliding_maps, sliding_latest.id)'
  BY <1>1 DEF Apartness
<1>4. Apartness(Statics, static_maps, static_latest.id)'
  BY <1>1 DEF Apartness
<1> QED
  BY <1>2, <1>3, <1>4 DEF MarksApart

\* What a frame's text does to the maps of its layers.
LEMMA MapsAfter ==
  ASSUME screen_width \in ScreenWidths,
         NEW S, NEW maps, NEW before, NEW after, NEW bwidth, NEW awidth,
         NEW last \in Texts, NEW text \in Texts, NEW q \in Queens, NEW top, NEW r, NEW E,
         Holding(S, maps, before, bwidth, last), Numbered(Waiting(q), last.id, top),
         Takes(S, E, q, r, last, text),
         Entered(S, E, text, before, after, bwidth, awidth)
  PROVE  LET new == Rewrite(maps, before, after, text)
         IN  /\ Holding(S, new, after, awidth, text)
             /\ WaitingIds(r) \cup AllMarks(S, new) \subseteq WaitingIds(q) \cup AllMarks(S, maps)
<1> PICK new : new = Rewrite(maps, before, after, text)
  OBVIOUS
<1>1. /\ new \in [S -> Maps] /\ RightMaps(S, new, after, awidth)
      /\ Marked(S, E, text.id, maps, new)
  BY Rewritten
<1>2. text.id \in Nat /\ last.id \in Nat
  BY TextIs
<1>3. E # {} => /\ last.id < text.id /\ text.id \in WaitingIds(q)
                /\ WaitingIds(r) \subseteq WaitingIds(q)
  BY <1>2, FetchIsLater DEF Takes
<1>4. Apartness(S, new, text.id)
  <2>1. \/ E = {} /\ text.id = last.id
        \/ (\E e \in S : E = {e}) /\ last.id < text.id
    BY <1>3 DEF Takes
  <2>2. maps \in [S -> Maps] /\ Apartness(S, maps, last.id)
    BY DEF Holding
  <2> QED
    BY <1>1, <1>2, <2>1, <2>2, ApartStill
<1>5. WaitingIds(r) \subseteq WaitingIds(q)
  BY <1>3 DEF Takes
<1>6. AllMarks(S, new) \subseteq WaitingIds(q) \cup AllMarks(S, maps)
  BY <1>1, <1>3 DEF AllMarks, Marked
<1> QED
  BY <1>1, <1>4, <1>5, <1>6 DEF Holding

LEMMA FrameMaps ==
  ASSUME PictureInvariant, NEW q \in Queens, NEW t \in Queens, NEW top, Frame(q, t),
         Numbered(Waiting(q), sliding_latest.id, top),
         Numbered(Waiting(t), static_latest.id, top),
         (WaitingIds(q) \cup AllMarks(Places, sliding_maps))
           \cap (WaitingIds(t) \cup AllMarks(Statics, static_maps)) = {},
         TextsInvariant',
         sliding_maps' = Rewrite(sliding_maps, sliding_layers, sliding_layers', sliding_latest'),
         static_maps' = Rewrite(static_maps, static_layers, static_layers', static_latest')
  PROVE  MapsTrue' /\ MarksApart'
<1>1. /\ SlidingOK /\ StaticOK /\ screen_width \in ScreenWidths
      /\ sliding_latest \in Texts /\ static_latest \in Texts
      /\ StaticNumbered(static_layers, static_latest.id)
  BY DEF PictureInvariant, TextsInvariant, DanmakuInvariant, StaticTexts, SlidingOK, StaticOK
<1>2. sliding_latest' \in Texts /\ static_latest' \in Texts
  BY DEF TextsInvariant, DanmakuInvariant, SlidingOK, StaticOK
<1>3. RenderSliding(q) /\ RenderStatic(t)
  BY DEF Frame
<1>4. /\ Holding(Places, sliding_maps, sliding_layers, SlidingWidth, sliding_latest)
      /\ Holding(Statics, static_maps, static_layers, StaticWidth, static_latest)
  BY DEF PictureInvariant, MapsTrue, MarksApart, Holding
<1>5. PICK E : /\ Takes(Places, E, q, sliding_queen', sliding_latest, sliding_latest')
               /\ Entered(Places, E, sliding_latest', sliding_layers, sliding_layers',
                          SlidingWidth, SlidingWidth')
  BY <1>1, <1>3, <1>4, SlidingEntered DEF Holding
<1>6. PICK F : /\ Takes(Statics, F, t, static_queen', static_latest, static_latest')
               /\ Entered(Statics, F, static_latest', static_layers, static_layers',
                          StaticWidth, StaticWidth')
  BY <1>1, <1>3, <1>4, StaticEntered DEF Holding
<1>7. /\ Holding(Places, sliding_maps', sliding_layers', SlidingWidth', sliding_latest')
      /\ WaitingIds(sliding_queen') \cup AllMarks(Places, sliding_maps')
           \subseteq WaitingIds(q) \cup AllMarks(Places, sliding_maps)
  BY <1>1, <1>2, <1>4, <1>5, MapsAfter
<1>8. /\ Holding(Statics, static_maps', static_layers', StaticWidth', static_latest')
      /\ WaitingIds(static_queen') \cup AllMarks(Statics, static_maps')
           \subseteq WaitingIds(t) \cup AllMarks(Statics, static_maps)
  BY <1>1, <1>2, <1>4, <1>6, MapsAfter
<1>9. MapsTrue'
  BY <1>7, <1>8, MapsPrimed DEF Holding
<1>10. /\ WaitingIds(sliding_queen)' = WaitingIds(sliding_queen')
       /\ WaitingIds(static_queen)' = WaitingIds(static_queen')
  BY DEF WaitingIds, Waiting, Backlog
<1>11. (WaitingIds(sliding_queen') \cup AllMarks(Places, sliding_maps'))
          \cap (WaitingIds(static_queen') \cup AllMarks(Statics, static_maps')) = {}
  BY <1>7, <1>8
<1>12. MarksApart'
  BY <1>7, <1>8, <1>10, <1>11, MarksPrimed DEF Holding
<1> QED
  BY <1>9, <1>12

-----------------------------------------------------------------------------
(* The inductive invariant: the frame. *)

LEMMA ClearedIs ==
  ASSUME NEW w \in ScreenWidths, NEW buf, DOMAIN buf = 0 .. Span-1
  PROVE  LET c == Cleared(buf, w)
         IN  /\ DOMAIN c = 0 .. Span-1
             /\ \A a \in 0 .. ImgSize(w, HeightOf[w]) - 1 : c[a] = BlankScreen(w)[a]
             /\ \A a \in ImgSize(w, HeightOf[w]) .. Span-1 : c[a] = buf[a]
<1>1. ImgSize(w, HeightOf[w]) \in 0 .. Span /\ Span \in Nat
  BY ScreenIs
<1> DEFINE size == ImgSize(w, HeightOf[w])
<1>2. \A a \in 0 .. Span-1 : Cleared(buf, w)[a] = IF a < size THEN BlankScreen(w)[a] ELSE buf[a]
  BY DEF Cleared
<1>3. DOMAIN Cleared(buf, w) = 0 .. Span-1
  BY DEF Cleared
<1> HIDE DEF size
<1>4. /\ \A a \in 0 .. size - 1 : a \in 0 .. Span-1 /\ a < size
      /\ \A a \in size .. Span-1 : a \in 0 .. Span-1 /\ ~(a < size)
  BY <1>1 DEF size
<1> QED
  BY <1>2, <1>3, <1>4 DEF size

LEMMA DrawTrue ==
  ASSUME PictureInvariant, DanmakuInvariant', MapsTrue', screen_width' = screen_width, Draw
  PROVE  FrameTrue' /\ NothingBehind
<1>1. /\ DanmakuInvariant /\ FrameTrue /\ screen_width \in ScreenWidths
  BY DEF PictureInvariant, TextsInvariant, DanmakuInvariant
<1>2. /\ img_size \in 0 .. Span /\ Span \in Nat /\ img_size = ImgSize(screen_width, HeightOf[screen_width])
  BY <1>1, ScreenIs DEF img_size
<1>3. PICK D : /\ D = Drawing(sliding_layers', sliding_maps', static_layers', static_maps')
               /\ fb' = Paint(Cleared(fb, screen_width), D)
  BY DEF Draw
<1>4. PICK buf : buf = Cleared(fb, screen_width)
  OBVIOUS
<1>5. /\ DOMAIN buf = 0 .. Span-1
      /\ \A a \in 0 .. img_size - 1 : buf[a] = BlankScreen(screen_width)[a]
      /\ \A a \in img_size .. Span-1 : buf[a] = fb[a]
  BY <1>1, <1>2, <1>4, ClearedIs DEF FrameTrue
<1>6. /\ \A p : SlidingStrip(sliding_layers[p])' = SlidingStrip(sliding_layers'[p])
      /\ \A i : StaticStrip(static_layers[i])' = StaticStrip(static_layers'[i])
  BY DEF SlidingStrip, StaticStrip
<1>7. (\E n \in Nat : DOMAIN D = 0 .. n) /\ {D[k] : k \in DOMAIN D} = LayersNow'
  BY <1>3, <1>6, DrawingIs DEF LayersNow, SlidingNow, StaticNow
<1>8. \A a \in 0 .. Span-1 :
        \/ fb'[a] = buf[a] /\ \A l \in LayersNow' : Filtered(l, a) = {}
        \/ \E l \in LayersNow' : fb'[a] \in Filtered(l, a)
  <2> SUFFICES ASSUME NEW a \in 0 .. Span-1
               PROVE  \/ fb'[a] = buf[a] /\ \A l \in LayersNow' : Filtered(l, a) = {}
                      \/ \E l \in LayersNow' : fb'[a] \in Filtered(l, a)
    OBVIOUS
  <2>1. PICK n \in Nat : DOMAIN D = 0 .. n
    BY <1>7
  <2>2. \/ Paint(buf, D)[a] = buf[a] /\ \A l \in {D[k] : k \in DOMAIN D} : Filtered(l, a) = {}
        \/ \E l \in {D[k] : k \in DOMAIN D} : Paint(buf, D)[a] \in Filtered(l, a)
    BY <1>5, <2>1, PaintIs
  <2> QED
    BY <1>3, <1>4, <1>7, <2>2
<1>9. \A l, a : Filtered(l, a)' = Filtered(l, a)
  BY DEF Filtered, Transferred, LineBase, edge
<1>10. img_size' = img_size /\ BlankScreen(screen_width)' = BlankScreen(screen_width)
  BY DEF img_size, BlankScreen
<1>11. DOMAIN fb = 0 .. Span-1
  BY <1>1 DEF FrameTrue
<1>12. DOMAIN fb' = 0 .. Span-1 /\ drawn' = TRUE
  BY <1>3, <1>4, <1>5 DEF Paint, Draw
<1>13. ASSUME RowsFit', NEW a \in 0 .. Span-1, a >= img_size
       PROVE  fb'[a] = fb[a]
  <2>1. (DanmakuInvariant /\ MapsTrue /\ RowsFit => OnlyInFrame)'
    BY WrittenInFrame, PTL
  <2>2. a \in Nat /\ a \in img_size .. Span-1
    BY <1>2, <1>13
  <2>3. \A l \in LayersNow' : Filtered(l, a) = {}
    BY <1>9, <1>10, <1>13, <2>1, <2>2 DEF OnlyInFrame
  <2> QED
    BY <1>5, <1>8, <1>13, <2>2, <2>3
<1>14. ASSUME NEW a \in 0 .. img_size - 1
       PROVE  Visibly(a)'
  <2>1. a \in 0 .. Span-1
    BY <1>2
  <2> QED
    BY <1>5, <1>8, <1>9, <1>10, <2>1 DEF Visibly
<1>15. FrameTrue'
  BY <1>10, <1>12, <1>14 DEF FrameTrue
<1>16. NothingBehind
  BY <1>10, <1>11, <1>13 DEF NothingBehind
<1> QED
  BY <1>15, <1>16

LEMMA SameFrame ==
  ASSUME FrameTrue, UNCHANGED <<layerVars, screen_width, pictureVars>>
  PROVE  FrameTrue'
<1>1. /\ \A p : SlidingStrip(sliding_layers[p])' = SlidingStrip(sliding_layers[p])
      /\ \A i : StaticStrip(static_layers[i])' = StaticStrip(static_layers[i])
  BY DEF SlidingStrip, StaticStrip, layerVars
<1>2. LayersNow' = LayersNow
  BY <1>1 DEF LayersNow, SlidingNow, StaticNow, pictureVars
<1>3. \A l, a : Filtered(l, a)' = Filtered(l, a)
  BY DEF Filtered, Transferred, LineBase, edge
<1>4. img_size' = img_size /\ BlankScreen(screen_width)' = BlankScreen(screen_width)
  BY DEF img_size, BlankScreen
<1>5. \A a : Visibly(a)' <=> Visibly(a)
  BY <1>2, <1>3, <1>4 DEF Visibly, pictureVars
<1> QED
  BY <1>4, <1>5 DEF FrameTrue, pictureVars

-----------------------------------------------------------------------------
(* The inductive invariant: the steps. *)

LEMMA PictureStart == PictureInit => PictureInvariant
<1> SUFFICES ASSUME PictureInit PROVE PictureInvariant
  OBVIOUS
<1>1. TextsInvariant
  BY TextsInit DEF PictureInit
<1>2. FrameTrue
  BY DEF FrameTrue, PictureInit
<1>3. /\ \A p \in Places : ~sliding_layers[p].enable /\ sliding_layers[p].id = 0
      /\ \A i \in Statics : ~static_layers[i].enable /\ static_layers[i].id = 0
  BY DEF PictureInit, Init, SlidingOff, StaticOff
<1> DEFINE Filled(code) == [edge |-> 0, cells |-> [c \in MapCells |-> code]]
<1>4. ASSUME NEW code \in {Junk, Transparent}
      PROVE  Filled(code) \in Maps /\ Marks(Filled(code)) = {}
  <2>1. code \in Codes /\ code.id = 0
    BY DEF Codes, Junk, Transparent, Byte
  <2>2. Filled(code).cells = [c \in MapCells |-> code] /\ Filled(code) \in Maps
    BY <2>1 DEF Maps
  <2>3. \A c \in MapCells : Filled(code).cells[c].id = 0
    BY <2>1, <2>2
  <2> QED
    BY <2>2, <2>3 DEF Marks
<1>5. /\ sliding_maps = [p \in Places |-> Filled(Junk)]
      /\ static_maps = [i \in Statics |-> Filled(Transparent)]
  BY DEF PictureInit, MapCells
<1> HIDE DEF Filled
<1>6. /\ \A p \in Places : sliding_maps[p] \in Maps /\ Marks(sliding_maps[p]) = {}
      /\ \A i \in Statics : static_maps[i] \in Maps /\ Marks(static_maps[i]) = {}
  BY <1>4, <1>5
<1>7. MapsTrue
  <2>1. sliding_maps \in [Places -> Maps] /\ static_maps \in [Statics -> Maps]
    BY <1>5, <1>6
  <2> QED
    BY <1>3, <2>1 DEF MapsTrue, RightMaps
<1>8. MarksApart
  <2>1. WaitingIds(sliding_queen) = {} /\ WaitingIds(static_queen) = {}
    BY DEF PictureInit, Init, InitQueen, WaitingIds, Backlog
  <2>2. AllMarks(Places, sliding_maps) = {} /\ AllMarks(Statics, static_maps) = {}
    BY <1>6 DEF AllMarks
  <2> QED
    BY <1>6, <2>1, <2>2 DEF MarksApart, Apartness
<1> QED
  BY <1>1, <1>2, <1>7, <1>8 DEF PictureInvariant

LEMMA SameMaps ==
  ASSUME MapsTrue, UNCHANGED <<layerVars, sliding_maps, static_maps>>
  PROVE  MapsTrue'
<1>1. SlidingWidth' = SlidingWidth /\ StaticWidth' = StaticWidth
  BY DEF SlidingWidth, StaticWidth, layerVars
<1> QED
  BY <1>1, MapsPrimed DEF MapsTrue, layerVars

\* What a new text does to the numbers in its queue; no map bears its number.
LEMMA PushedIds ==
  ASSUME DanmakuInvariant, NEW q \in Queens, PushFits(q), read < MaxTexts, NEW text \in NewTexts
  PROVE  WaitingIds(Push(q, text)) \subseteq WaitingIds(q) \cup {read + 1}
<1>1. text \in Texts /\ text.id = read + 1
  BY NewTextIs DEF DanmakuInvariant, NewTexts
<1>2. Push(q, text) \in Queens /\ Waiting(Push(q, text)) = Append(Waiting(q), text)
  BY <1>1, PushAppends
<1>3. /\ Waiting(q) \in Seq(Texts) /\ Len(Waiting(q)) = Backlog(q)
      /\ Len(Waiting(Push(q, text))) = Backlog(Push(q, text))
  BY <1>2, QueenTyped
<1>4. ASSUME NEW i \in 1 .. Backlog(Push(q, text))
      PROVE  Waiting(Push(q, text))[i].id \in WaitingIds(q) \cup {read + 1}
  <2>1. i \in 1 .. Backlog(q) \/ i = Backlog(q) + 1
    BY <1>2, <1>3
  <2>2. CASE i \in 1 .. Backlog(q)
    <3>1. Waiting(Push(q, text))[i] = Waiting(q)[i]
      BY <1>2, <1>3, <2>2
    <3> QED
      BY <2>2, <3>1 DEF WaitingIds
  <2>3. CASE i = Backlog(q) + 1
    <3>1. Waiting(Push(q, text))[i] = text
      BY <1>2, <1>3, <2>3
    <3> QED
      BY <1>1, <3>1
  <2> QED
    BY <2>1, <2>2, <2>3
<1> QED
  BY <1>4 DEF WaitingIds

LEMMA NewToAll ==
  ASSUME TextsInvariant, MarksApart
  PROVE  read + 1 \notin WaitingIds(sliding_queen) \cup AllMarks(Places, sliding_maps)
           \cup WaitingIds(static_queen) \cup AllMarks(Statics, static_maps)
<1>1. /\ sliding_queen \in Queens /\ static_queen \in Queens /\ read \in Nat
      /\ sliding_latest.id \in Nat /\ static_latest.id \in Nat
  BY TextIs DEF TextsInvariant, DanmakuInvariant, SlidingOK, StaticOK
<1>2. ASSUME NEW q \in Queens, NEW last \in Nat, Numbered(Waiting(q), last, read)
      PROVE  read + 1 \notin WaitingIds(q) /\ last <= read
  <2>1. Len(Waiting(q)) = Backlog(q)
    BY QueenTyped
  <2>2. \A i \in 1 .. Backlog(q) : Waiting(q)[i].id <= read
    BY <1>2, <2>1 DEF Numbered
  <2> QED
    BY <1>1, <1>2, <2>2 DEF WaitingIds, Numbered
<1>3. ASSUME NEW S, NEW maps, NEW last \in Nat, last <= read, Apartness(S, maps, last)
      PROVE  read + 1 \notin AllMarks(S, maps)
  <2>1. ~(read + 1 <= last)
    BY <1>1, <1>3
  <2> QED
    BY <1>3, <2>1 DEF Apartness, AllMarks
<1>4. /\ read + 1 \notin WaitingIds(sliding_queen) /\ sliding_latest.id <= read
      /\ read + 1 \notin WaitingIds(static_queen) /\ static_latest.id <= read
  BY <1>1, <1>2 DEF TextsInvariant, SlidingTexts, StaticTexts
<1>5. /\ read + 1 \notin AllMarks(Places, sliding_maps)
      /\ read + 1 \notin AllMarks(Statics, static_maps)
  BY <1>1, <1>3, <1>4 DEF MarksApart
<1> QED
  BY <1>4, <1>5

\* The queues that input has left to a frame.
Left(q, t, top) ==
  /\ q \in Queens /\ t \in Queens /\ Frame(q, t)
  /\ Numbered(Waiting(q), sliding_latest.id, top)
  /\ Numbered(Waiting(t), static_latest.id, top)
  /\ (WaitingIds(q) \cup AllMarks(Places, sliding_maps))
       \cap (WaitingIds(t) \cup AllMarks(Statics, static_maps)) = {}

LEMMA FrameLeft ==
  ASSUME TextsInvariant, MarksApart, ~overrun',
         SlidingLine \/ StaticLine \/ UnknownLine \/ NoLine \/ ButtonDone
  PROVE  \E q, t, top : Left(q, t, top)
<1>1. /\ sliding_queen \in Queens /\ static_queen \in Queens /\ read \in Nat
      /\ sliding_latest.id \in Nat /\ static_latest.id \in Nat /\ DanmakuInvariant
  BY TextIs DEF TextsInvariant, DanmakuInvariant, SlidingOK, StaticOK
<1>2. /\ Numbered(Waiting(sliding_queen), sliding_latest.id, read)
      /\ Numbered(Waiting(static_queen), static_latest.id, read)
  BY DEF TextsInvariant, SlidingTexts, StaticTexts
<1>3. /\ Numbered(Waiting(sliding_queen), sliding_latest.id, read + 1)
      /\ Numbered(Waiting(static_queen), static_latest.id, read + 1)
  BY <1>1, <1>2, QueenTyped, NumberedLater
<1>4. (WaitingIds(sliding_queen) \cup AllMarks(Places, sliding_maps))
         \cap (WaitingIds(static_queen) \cup AllMarks(Statics, static_maps)) = {}
  BY DEF MarksApart
<1>5. CASE SlidingLine
  <2>1. PushFits(sliding_queen) /\ read < MaxTexts
    BY <1>5 DEF SlidingLine, Overruns
  <2>2. PICK text \in NewTexts : Frame(Push(sliding_queen, text), static_queen)
    BY <1>5, <2>1 DEF SlidingLine
  <2>3. /\ Push(sliding_queen, text) \in Queens
        /\ Numbered(Waiting(Push(sliding_queen, text)), sliding_latest.id, read + 1)
    BY <1>1, <1>2, <2>1, PushNumbered
  <2>4. WaitingIds(Push(sliding_queen, text)) \subseteq WaitingIds(sliding_queen) \cup {read + 1}
    BY <1>1, <2>1, PushedIds
  <2>5. (WaitingIds(Push(sliding_queen, text)) \cup AllMarks(Places, sliding_maps))
           \cap (WaitingIds(static_queen) \cup AllMarks(Statics, static_maps)) = {}
    BY <1>4, <2>4, NewToAll
  <2> QED
    BY <1>1, <1>3, <2>2, <2>3, <2>5 DEF Left
<1>6. CASE StaticLine
  <2>1. PushFits(static_queen) /\ read < MaxTexts
    BY <1>6 DEF StaticLine, Overruns
  <2>2. PICK text \in NewTexts : Frame(sliding_queen, Push(static_queen, text))
    BY <1>6, <2>1 DEF StaticLine
  <2>3. /\ Push(static_queen, text) \in Queens
        /\ Numbered(Waiting(Push(static_queen, text)), static_latest.id, read + 1)
    BY <1>1, <1>2, <2>1, PushNumbered
  <2>4. WaitingIds(Push(static_queen, text)) \subseteq WaitingIds(static_queen) \cup {read + 1}
    BY <1>1, <2>1, PushedIds
  <2>5. (WaitingIds(sliding_queen) \cup AllMarks(Places, sliding_maps))
           \cap (WaitingIds(Push(static_queen, text)) \cup AllMarks(Statics, static_maps)) = {}
    BY <1>4, <2>4, NewToAll
  <2> QED
    BY <1>1, <1>3, <2>2, <2>3, <2>5 DEF Left
<1>7. CASE UnknownLine \/ NoLine \/ ButtonDone
  <2>1. Frame(sliding_queen, static_queen)
    BY <1>7 DEF UnknownLine, NoLine, ButtonDone
  <2> QED
    BY <1>1, <1>2, <1>4, <2>1 DEF Left
<1> QED
  BY <1>5, <1>6, <1>7

\* Between frames the numbers in the queues of static texts alone may grow.
LEMMA MarksStay ==
  ASSUME PictureInvariant, UNCHANGED <<sliding_maps, static_maps, sliding_queen, layerVars>>,
         UNCHANGED static_queen
           \/ WaitingIds(static_queen)' \subseteq WaitingIds(static_queen) \cup {read + 1}
  PROVE  MarksApart'
<1>1. /\ TextsInvariant /\ MarksApart
  BY DEF PictureInvariant
<1>2. WaitingIds(sliding_queen)' = WaitingIds(sliding_queen)
  BY DEF WaitingIds, Waiting, Backlog
<1>3. WaitingIds(static_queen)' \subseteq WaitingIds(static_queen) \cup {read + 1}
  <2>1. UNCHANGED static_queen => WaitingIds(static_queen)' = WaitingIds(static_queen)
    BY DEF WaitingIds, Waiting, Backlog
  <2> QED
    BY <2>1
<1>4. (WaitingIds(sliding_queen) \cup AllMarks(Places, sliding_maps))
         \cap (WaitingIds(static_queen)' \cup AllMarks(Statics, static_maps)) = {}
  BY <1>1, <1>3, NewToAll DEF MarksApart
<1>5. PICK qt : qt = WaitingIds(static_queen)'
  OBVIOUS
<1>6. /\ Apartness(Places, sliding_maps, sliding_latest.id)
      /\ Apartness(Statics, static_maps, static_latest.id)
  BY <1>1 DEF MarksApart
<1> QED
  BY <1>2, <1>4, <1>5, <1>6, MarksPrimed DEF layerVars

LEMMA NoFrame ==
  ASSUME DanmakuInvariant,
         ButtonClick \/ ButtonLine \/ ButtonEvent \/ ((SlidingLine \/ StaticLine) /\ overrun')
  PROVE  /\ UNCHANGED <<layerVars, screen_width, sliding_queen>>
         /\ UNCHANGED static_queen
              \/ WaitingIds(static_queen)' \subseteq WaitingIds(static_queen) \cup {read + 1}
<1>1. CASE ButtonClick \/ ButtonEvent
  BY <1>1 DEF ButtonClick, ButtonEvent
<1>2. CASE ButtonLine /\ PushFits(static_queen)
  <2>1. PICK text \in NewTexts : static_queen' = Push(static_queen, text)
    BY <1>2 DEF ButtonLine
  <2>2. WaitingIds(static_queen)' = WaitingIds(Push(static_queen, text))
    BY <2>1 DEF WaitingIds, Waiting, Backlog
  <2>3. read < MaxTexts /\ static_queen \in Queens
    BY <1>2 DEF ButtonLine, DanmakuInvariant, StaticOK
  <2>4. UNCHANGED <<layerVars, screen_width, sliding_queen>>
    BY <1>2 DEF ButtonLine
  <2> QED
    BY <1>2, <2>2, <2>3, <2>4, PushedIds
<1>3. CASE ButtonLine /\ ~PushFits(static_queen)
  BY <1>3 DEF ButtonLine, Overruns
<1>4. CASE (SlidingLine \/ StaticLine) /\ overrun'
  <2>1. ASSUME NEW q, NEW t, Frame(q, t), ~overrun
        PROVE  ~overrun'
    <3>1. overrun' = overrun
      BY <2>1 DEF Frame
    <3> QED
      BY <2>1, <3>1
  <2>2. ~overrun
    BY <1>4 DEF SlidingLine, StaticLine, Fgets
  <2>3. Overruns
    BY <1>4, <2>1, <2>2 DEF SlidingLine, StaticLine
  <2> QED
    BY <2>3 DEF Overruns
<1> QED
  BY <1>1, <1>2, <1>3, <1>4

LEMMA PictureStep ==
  PictureInvariant /\ [PictureNext]_<<vars, pictureVars>> => PictureInvariant'
<1> SUFFICES ASSUME PictureInvariant, [PictureNext]_<<vars, pictureVars>>
             PROVE  PictureInvariant'
  OBVIOUS
<1>1. TextsInvariant /\ MapsTrue /\ MarksApart /\ FrameTrue /\ DanmakuInvariant
  BY DEF PictureInvariant, TextsInvariant
<1>2. [Next]_vars
  BY DEF PictureNext, FrameDrawn, NewSession, NothingDrawn, Next, RenderOnce
<1>3. TextsInvariant' /\ DanmakuInvariant'
  BY <1>1, <1>2, TextsNext DEF TextsInvariant
<1>4. CASE FrameDrawn
  <2>1. PICK q, t, top : Left(q, t, top)
    BY <1>1, <1>4, FrameLeft DEF FrameDrawn
  <2>2. Draw /\ screen_width' = screen_width
    BY <1>4, <2>1 DEF FrameDrawn, Left, Frame
  <2>3. MapsTrue' /\ MarksApart'
    BY <1>3, <2>1, <2>2, FrameMaps DEF Left, Draw
  <2>4. FrameTrue'
    BY <1>3, <2>2, <2>3, DrawTrue
  <2> QED
    BY <1>3, <2>3, <2>4 DEF PictureInvariant
<1>5. CASE NewSession
  <2>1. UNCHANGED <<sliding_maps, static_maps, sliding_queen, static_queen, layerVars>>
    BY <1>5 DEF NewSession, ResolutionChanges
  <2>2. MapsTrue' /\ MarksApart'
    BY <1>1, <2>1, SameMaps, MarksStay
  <2>3. FrameTrue'
    BY <1>1, <1>5 DEF FrameTrue, NewSession
  <2> QED
    BY <1>3, <2>2, <2>3 DEF PictureInvariant
<1>6. CASE NothingDrawn \/ UNCHANGED <<vars, pictureVars>>
  <2>1. UNCHANGED <<layerVars, screen_width, pictureVars, sliding_queen>>
    <3>1. CASE UNCHANGED <<vars, pictureVars>>
      BY <3>1 DEF vars
    <3>2. CASE NothingDrawn
      BY <1>1, <3>2, NoFrame DEF NothingDrawn
    <3> QED
      BY <1>6, <3>1, <3>2
  <2>2. MapsTrue' /\ FrameTrue'
    BY <1>1, <2>1, SameMaps, SameFrame DEF pictureVars
  <2>3. \/ UNCHANGED static_queen
        \/ WaitingIds(static_queen)' \subseteq WaitingIds(static_queen) \cup {read + 1}
    <3>1. CASE UNCHANGED <<vars, pictureVars>>
      BY <3>1 DEF vars
    <3>2. CASE NothingDrawn
      BY <1>1, <3>2, NoFrame DEF NothingDrawn
    <3> QED
      BY <1>6, <3>1, <3>2
  <2>4. MarksApart'
    BY <2>1, <2>3, MarksStay DEF pictureVars
  <2> QED
    BY <1>3, <2>2, <2>4 DEF PictureInvariant
<1> QED
  BY <1>4, <1>5, <1>6 DEF PictureNext

LEMMA BehindStays ==
  ASSUME PictureInvariant, PictureInvariant', [PictureNext]_<<vars, pictureVars>>
  PROVE  [NothingBehind]_<<vars, pictureVars>>
<1>1. TextsInvariant /\ MarksApart /\ DanmakuInvariant /\ DanmakuInvariant' /\ MapsTrue'
  BY DEF PictureInvariant, TextsInvariant
<1>2. CASE FrameDrawn
  <2>1. PICK q, t, top : Left(q, t, top)
    BY <1>1, <1>2, FrameLeft DEF FrameDrawn
  <2>2. Draw /\ screen_width' = screen_width
    BY <1>2, <2>1 DEF FrameDrawn, Left, Frame
  <2> QED
    BY <1>1, <2>2, DrawTrue
<1>3. CASE UNCHANGED fb
  BY <1>3 DEF NothingBehind
<1> QED
  BY <1>2, <1>3 DEF PictureNext, NewSession, NothingDrawn, pictureVars

-----------------------------------------------------------------------------
(* The theorems. *)

\* Every map in use bears its text and no other map bears the marks of that text, and a
\* buffer a frame has been drawn in holds the blank screen under the layers drawn last, in
\* every reachable state.
THEOREM PictureInvariantHolds == PictureSpec => []PictureInvariant
  BY PictureStart, PictureStep, PTL DEF PictureSpec

\* The overlay finds its sync bytes where it expects them, whatever RenderOnce draws over
\* the blank screen and whatever the buffer held before: no transfer reaches the end of a
\* line or, on a screen with room for the rows, passes the frame.
THEOREM FrameWellFormed == PictureSpec => WellFormed
<1>1. PictureInvariant => (drawn => InSync)
  BY InSyncNow
<1>2. PictureInvariant /\ PictureInvariant' /\ [PictureNext]_<<vars, pictureVars>>
        => [NothingBehind]_<<vars, pictureVars>>
  BY BehindStays
<1> QED
  BY PictureInvariantHolds, <1>1, <1>2, PTL DEF PictureSpec, WellFormed

\* WriteFontMap clears as much of a map as is drawn of it: nothing of an earlier text, and
\* nothing of memory that was never written, comes to the screen.
THEOREM OnlyTextsInUse == PictureSpec => []NothingLeftOver
  BY PictureInvariantHolds, NothingLeftOverNow, PTL

\* What Pango drew of a text is on the screen where the text is, unless another text covers
\* it: pixel_filter keeps the blanks of the layers drawn later from hiding it.
THEOREM InkAlwaysShown == PictureSpec => []InkShown
  BY PictureInvariantHolds, InkShownNow, PTL
=============================================================================
