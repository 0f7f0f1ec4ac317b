---------------------------- MODULE MemoryProofs ----------------------------
(***************************************************************************)
(* Maps, blank screens and frame buffers never overlap, and every frame of *)
(* an accepted size can be transmitted: for every size of the areas and    *)
(* every resolution.                                                       *)
(***************************************************************************)
EXTENDS MemoryProperties, TLAPS

LEMMA Product ==
  ASSUME NEW a \in Nat, NEW b \in Nat, NEW c \in Nat, a <= b
  PROVE  a * c \in Nat /\ b * c \in Nat /\ a * c <= b * c
<1>1. PICK d \in Nat : b = a + d
  BY b - a \in Nat /\ b = a + (b - a)
<1>2. b * c = a * c + d * c
  BY <1>1
<1>3. a * c \in Nat /\ d * c \in Nat
  BY <1>1
<1> QED
  BY <1>2, <1>3

\* UpToWord yields words and rounds up by less than one.
LEMMA Words ==
  ASSUME NEW n \in Nat
  PROVE  UpToWord(n) \in Nat /\ n <= UpToWord(n) /\ UpToWord(n) <= n + 3
  BY DEF UpToWord

LEMMA WordsMonotone ==
  ASSUME NEW m \in Nat, NEW n \in Nat, m <= n
  PROVE  UpToWord(m) <= UpToWord(n)
<1>1. (m + 3) \div 4 <= (n + 3) \div 4
  OBVIOUS
<1> QED
  BY <1>1 DEF UpToWord

LEMMA SizesTyped ==
  /\ FRAME_BUFFER_SIZE \in Nat /\ MapSize \in Nat
  /\ \A w, h \in Nat : ImgSize(w, h) \in Nat
<1>1. (MAX_WIDTH + 2) * MAX_SCREEN_HEIGHT \in Nat /\ MapSize \in Nat
  BY MemoryAssumption DEF MapSize
<1>2. ASSUME NEW w \in Nat, NEW h \in Nat PROVE ImgSize(w, h) \in Nat
  BY Words, (w + 2) * h \in Nat DEF ImgSize
<1> QED
  BY <1>1, <1>2, Words DEF FRAME_BUFFER_SIZE

\* Every frame SubMain accepts consists of whole 64-bit beats of the DMA: its sides are
\* multiples of four and its lines two bytes longer (the assertion of
\* danmaku_driver.c:287, on a length that danmaku.c:686 rounds up to four only).
THEOREM FramesAreWholeBeats ==
  \A w, h \in Nat : Accepts(w, h) => ImgSize(w, h) = (w + 2) * h /\ ImgSize(w, h) % 8 = 0
<1> SUFFICES ASSUME NEW w \in Nat, NEW h \in Nat, Accepts(w, h)
    PROVE  ImgSize(w, h) = (w + 2) * h /\ ImgSize(w, h) % 8 = 0
  OBVIOUS
<1>1. PICK a \in Nat : w = 4 * a
  BY w = 4 * (w \div 4), w \div 4 \in Nat DEF Accepts
<1>2. PICK b \in Nat : h = 4 * b
  BY h = 4 * (h \div 4), h \div 4 \in Nat DEF Accepts
<1>3. PICK k \in Nat : k = (2 * a + 1) * b
  OBVIOUS
<1>4. (w + 2) * h = 8 * k
  <2>1. (w + 2) * h = (2 * (2 * a + 1)) * (4 * b)
    BY <1>1, <1>2
  <2> QED
    BY <2>1, <1>3
<1>5. UpToWord(8 * k) = 8 * k /\ (8 * k) % 8 = 0
  BY DEF UpToWord
<1> QED
  BY <1>4, <1>5 DEF ImgSize

LEMMA FramesShortEnough ==
  ASSUME NEW w \in Nat, NEW h \in Nat, w <= MAX_WIDTH, h <= MAX_SCREEN_HEIGHT
  PROVE  ImgSize(w, h) <= FRAME_BUFFER_SIZE
<1>1. (w + 2) * h <= (MAX_WIDTH + 2) * h
  BY Product, MemoryAssumption
<1>2. (MAX_WIDTH + 2) * h <= (MAX_WIDTH + 2) * MAX_SCREEN_HEIGHT
  <2>1. h * (MAX_WIDTH + 2) <= MAX_SCREEN_HEIGHT * (MAX_WIDTH + 2)
    BY Product, MemoryAssumption
  <2> QED
    BY <2>1, MemoryAssumption
<1>3. (w + 2) * h \in Nat /\ (MAX_WIDTH + 2) * h \in Nat
      /\ (MAX_WIDTH + 2) * MAX_SCREEN_HEIGHT \in Nat
  BY MemoryAssumption
<1> QED
  BY <1>1, <1>2, <1>3, WordsMonotone DEF ImgSize, FRAME_BUFFER_SIZE
-----------------------------------------------------------------------------

\* Below sz_allocated lies what has been allocated.
Allocated ==
  start <= sz_dyn_area =>
    /\ phase = "open" => areas = {}
    /\ sz_allocated <= sz_dyn_area
    /\ \A a \in areas : Inside(a, sz_allocated)
    /\ \A a, b \in areas : a # b => Apart(a, b)

\* A frame that was handed over is one of the session's, from one of the buffers.
Handed ==
  /\ screen # <<0, 0>> => Accepts(screen[1], screen[2])
  /\ \A t \in txmit :
       /\ screen # <<0, 0>> /\ t.length = img_size
       /\ \E i \in 0 .. NUM_FRAME_BUFFER-1 : t.base = GetFrameBuffer(i)
  /\ phase = "running" => FRAME_BUFFER_SIZE * NUM_FRAME_BUFFER <= sz_udmabuf0
  /\ txmit # {} => FRAME_BUFFER_SIZE * NUM_FRAME_BUFFER <= sz_udmabuf0

MemoryInvariant == TypeOK /\ Allocated /\ Handed

LEMMA InitInvariant == Init => MemoryInvariant
  BY MemoryAssumption DEF Init, MemoryInvariant, TypeOK, Allocated, Handed

LEMMA AllocationTyped ==
  ASSUME MemoryInvariant, phase = "running", NEW length \in Nat,
         length + sz_dyn_area < WordRange, AllocRenderBuf(length), UNCHANGED start
  PROVE  /\ phase' \in {"running", "exited"}
         /\ sz_allocated' \in 0 .. WordRange-1 /\ start' \in 0 .. WordRange-1
         /\ areas' \subseteq [base : Nat, length : Nat]
         /\ Allocated'
<1>1. /\ sz_allocated \in Nat /\ start \in 0 .. WordRange-1 /\ WordRange \in Nat \ {0}
      /\ sz_dyn_area \in Nat
  BY MemoryAssumption DEF MemoryInvariant, TypeOK
<1>2. sz_allocated' \in 0 .. WordRange-1
  BY <1>1 DEF AllocRenderBuf, MemoryInvariant, TypeOK
<1>3. areas' \subseteq [base : Nat, length : Nat]
  BY <1>1 DEF AllocRenderBuf, MemoryInvariant, TypeOK, Area
<1>4. phase' \in {"running", "exited"}
  BY DEF AllocRenderBuf
<1>5. ASSUME start <= sz_dyn_area
      PROVE  /\ sz_allocated' <= sz_dyn_area
             /\ \A a \in areas' : Inside(a, sz_allocated')
             /\ \A a, b \in areas' : a # b => Apart(a, b)
  <2>1. /\ sz_allocated <= sz_dyn_area
        /\ \A a \in areas : Inside(a, sz_allocated)
        /\ \A a, b \in areas : a # b => Apart(a, b)
    BY <1>5 DEF MemoryInvariant, Allocated
  <2>2. (sz_allocated + length) % WordRange = sz_allocated + length
    BY <2>1, <1>1
  <2>3. CASE phase' = "exited"
    BY <2>1, <2>3 DEF AllocRenderBuf
  <2>4. CASE phase' # "exited"
    <3>1. /\ areas' = areas \cup {Area(sz_allocated, length)}
          /\ sz_allocated' = sz_allocated + length /\ sz_allocated' <= sz_dyn_area
      BY <2>2, <2>4, <1>1 DEF AllocRenderBuf
    <3>2. \A a \in areas : a.base \in Nat /\ a.length \in Nat
      BY DEF MemoryInvariant, TypeOK
    <3>3. \A a \in areas : Inside(a, sz_allocated') /\ Apart(a, Area(sz_allocated, length))
                           /\ Apart(Area(sz_allocated, length), a)
      BY <2>1, <3>1, <3>2, <1>1 DEF Inside, Apart, Area
    <3>4. Inside(Area(sz_allocated, length), sz_allocated')
      BY <3>1, <1>1 DEF Inside, Area
    <3> QED
      BY <2>1, <3>1, <3>3, <3>4
  <2> QED
    BY <2>3, <2>4
<1> QED
  BY <1>2, <1>3, <1>4, <1>5, <1>1 DEF Allocated

LEMMA InductiveStep ==
  ASSUME MemoryInvariant, [Next]_vars PROVE MemoryInvariant'
<1> USE DEF MemoryInvariant
<1>1. CASE Open
  <2>1. phase' \in {"running", "exited"} /\ UNCHANGED <<sz_allocated, areas, maps, screen, txmit, start>>
    BY <1>1 DEF Open
  <2>2. phase' = "running" => FRAME_BUFFER_SIZE * NUM_FRAME_BUFFER <= sz_udmabuf0
    <3>1. FRAME_BUFFER_SIZE * NUM_FRAME_BUFFER \in Nat /\ sz_udmabuf0 \in Nat
      BY SizesTyped, MemoryAssumption
    <3> QED
      BY <1>1, <3>1 DEF Open
  <2>3. TypeOK' /\ Allocated'
    BY <1>1, <2>1 DEF TypeOK, Allocated, Open
  <2>4. Handed'
    BY <2>1, <2>2 DEF Handed, img_size
  <2> QED
    BY <2>3, <2>4
<1>2. CASE InitLayer
  <2>1. MapSize \in Nat /\ MapSize + sz_dyn_area < WordRange
    BY SizesTyped, MemoryAssumption
  <2>2. /\ phase' \in {"running", "exited"}
        /\ sz_allocated' \in 0 .. WordRange-1 /\ start' \in 0 .. WordRange-1
        /\ areas' \subseteq [base : Nat, length : Nat]
        /\ Allocated'
    BY <1>2, <2>1, AllocationTyped DEF InitLayer
  <2>3. maps' \in 0 .. Layers
    BY <1>2, MemoryAssumption DEF InitLayer, TypeOK
  <2>4. Handed'
    BY <1>2 DEF InitLayer, Handed, img_size
  <2> QED
    BY <1>2, <2>2, <2>3, <2>4 DEF InitLayer, TypeOK
<1>3. CASE Session
  <2>1. PICK r \in Resolutions :
          Accepts(r[1], r[2]) /\ screen' = r /\ AllocRenderBuf(ImgSize(r[1], r[2]))
    BY <1>3 DEF Session
  <2>2. ImgSize(r[1], r[2]) \in Nat /\ ImgSize(r[1], r[2]) + sz_dyn_area < WordRange
    BY SizesTyped, MemoryAssumption
  <2>3. /\ phase' \in {"running", "exited"}
        /\ sz_allocated' \in 0 .. WordRange-1 /\ start' \in 0 .. WordRange-1
        /\ areas' \subseteq [base : Nat, length : Nat]
        /\ Allocated'
    BY <1>3, <2>1, <2>2, AllocationTyped DEF Session
  <2>4. txmit' = {}
    BY <1>3 DEF Session
  <2>5. Handed'
    BY <1>3, <2>1, <2>3, <2>4 DEF Session, Handed
  <2> QED
    BY <1>3, <2>1, <2>3, <2>5 DEF Session, TypeOK
<1>4. CASE FrameBufferTxmit
  <2>1. PICK i \in 0 .. NUM_FRAME_BUFFER-1 : txmit' = {Area(GetFrameBuffer(i), img_size)}
    BY <1>4 DEF FrameBufferTxmit
  <2>2. screen \in Resolutions /\ img_size \in Nat /\ GetFrameBuffer(i) \in Nat
    <3>1. screen \in Resolutions
      BY <1>4 DEF FrameBufferTxmit, TypeOK
    <3>2. screen[1] \in Nat /\ screen[2] \in Nat
      BY <3>1, MemoryAssumption
    <3> QED
      BY <3>1, <3>2, SizesTyped, MemoryAssumption DEF img_size, GetFrameBuffer
  <2>3. TypeOK'
    <3>1. txmit' \subseteq [base : Nat, length : Nat]
      BY <2>1, <2>2 DEF Area
    <3>2. phase' \in {"open", "running", "exited"}
      BY <1>4 DEF FrameBufferTxmit, TypeOK
    <3> QED
      BY <1>4, <3>1, <3>2 DEF FrameBufferTxmit, TypeOK
  <2>4. Allocated'
    BY <1>4 DEF FrameBufferTxmit, Allocated
  <2>5. Handed'
    BY <1>4, <2>1 DEF FrameBufferTxmit, Handed, Area, img_size
  <2> QED
    BY <2>3, <2>4, <2>5
<1>5. CASE Restart
  BY <1>5, MemoryAssumption DEF Restart, TypeOK, Allocated, Handed
<1>6. CASE UNCHANGED vars
  BY <1>6 DEF vars, TypeOK, Allocated, Handed, img_size
<1> QED
  BY <1>1, <1>2, <1>3, <1>4, <1>5, <1>6 DEF Next
-----------------------------------------------------------------------------

LEMMA ApartFromInvariant == MemoryInvariant => AreasApart
<1> SUFFICES ASSUME MemoryInvariant, start <= sz_dyn_area, NEW a \in areas, NEW b \in areas
    PROVE  Inside(a, sz_dyn_area) /\ (a # b => Apart(a, b))
  BY DEF AreasApart
<1>1. Inside(a, sz_allocated) /\ sz_allocated <= sz_dyn_area /\ (a # b => Apart(a, b))
  BY DEF MemoryInvariant, Allocated
<1>2. a.base \in Nat /\ a.length \in Nat /\ sz_allocated \in Nat /\ sz_dyn_area \in Nat
  BY MemoryAssumption DEF MemoryInvariant, TypeOK
<1> QED
  BY <1>1, <1>2 DEF Inside

LEMMA FitFromInvariant == MemoryInvariant => FramesFit
<1> SUFFICES ASSUME MemoryInvariant, NEW t \in txmit,
                    screen[1] <= MAX_WIDTH, screen[2] <= MAX_SCREEN_HEIGHT
    PROVE  /\ TxmitAsserts(t.length)
           /\ Inside(t, sz_udmabuf0)
           /\ \A i \in 0 .. NUM_FRAME_BUFFER-1 :
                GetFrameBuffer(i) # t.base =>
                  Apart(Area(GetFrameBuffer(i), FRAME_BUFFER_SIZE), t)
  BY DEF FramesFit
<1>1. /\ screen \in Resolutions /\ Accepts(screen[1], screen[2])
      /\ t.length = ImgSize(screen[1], screen[2])
      /\ FRAME_BUFFER_SIZE * NUM_FRAME_BUFFER <= sz_udmabuf0
  BY DEF MemoryInvariant, TypeOK, Handed, img_size
<1>2. screen[1] \in Nat /\ screen[2] \in Nat
  BY <1>1, MemoryAssumption
<1>3. t.length <= FRAME_BUFFER_SIZE /\ t.length % 8 = 0 /\ t.length \in Nat
  BY <1>1, <1>2, FramesShortEnough, FramesAreWholeBeats, SizesTyped
<1>4. PICK j \in 0 .. NUM_FRAME_BUFFER-1 : t.base = GetFrameBuffer(j)
  BY DEF MemoryInvariant, Handed
<1>5. PICK F \in Nat : F = FRAME_BUFFER_SIZE
  BY SizesTyped
<1>6. \A m, n \in Nat : m < n => m * F + F <= n * F /\ m * F \in Nat /\ n * F \in Nat
  <2> SUFFICES ASSUME NEW m \in Nat, NEW n \in Nat, m < n
      PROVE  m * F + F <= n * F /\ m * F \in Nat /\ n * F \in Nat
    OBVIOUS
  <2>1. (m + 1) * F <= n * F
    BY Product
  <2>2. (m + 1) * F = m * F + F /\ m * F \in Nat /\ n * F \in Nat
    OBVIOUS
  <2> QED
    BY <2>1, <2>2
<1>7. Inside(t, sz_udmabuf0)
  <2>1. j * F + F <= NUM_FRAME_BUFFER * F /\ j * F \in Nat /\ NUM_FRAME_BUFFER * F \in Nat
    BY <1>6, MemoryAssumption
  <2>2. NUM_FRAME_BUFFER * F <= sz_udmabuf0 /\ sz_udmabuf0 \in Nat
    BY <1>1, <1>5, MemoryAssumption
  <2> QED
    BY <2>1, <2>2, <1>3, <1>4, <1>5 DEF Inside, GetFrameBuffer
<1>8. ASSUME NEW i \in 0 .. NUM_FRAME_BUFFER-1, GetFrameBuffer(i) # t.base
      PROVE  Apart(Area(GetFrameBuffer(i), FRAME_BUFFER_SIZE), t)
  <2>1. i # j /\ i \in Nat /\ j \in Nat
    BY <1>4, <1>8, MemoryAssumption
  <2>2. (i < j => i * F + F <= j * F) /\ (j < i => j * F + F <= i * F)
        /\ i * F \in Nat /\ j * F \in Nat
    BY <2>1, <1>6
  <2> QED
    BY <2>1, <2>2, <1>3, <1>4, <1>5 DEF Apart, Area, GetFrameBuffer
<1> QED
  BY <1>3, <1>7, <1>8 DEF TxmitAsserts

\* The maps and blank screens of a process are apart from one another, for every size of
\* udmabuf1 and every sequence of sessions.
THEOREM AlwaysApart == Spec => []AreasApart
<1> QED
  BY ApartFromInvariant, InitInvariant, InductiveStep, PTL DEF Spec

\* No frame within the limits of constants.h fails an assertion or leaves its buffer.
THEOREM AlwaysFit == Spec => []FramesFit
<1> QED
  BY FitFromInvariant, InitInvariant, InductiveStep, PTL DEF Spec
=============================================================================
