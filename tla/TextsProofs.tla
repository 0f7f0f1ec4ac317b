----------------------------- MODULE TextsProofs -----------------------------
(***************************************************************************)
(* Where texts are and what is drawn of them: no text is in two places,    *)
(* texts of a row keep apart, and a layer draws what the screen has room   *)
(* for.  The invariant is about the numbers of the texts: a queue holds    *)
(* them in increasing order, and the layers hold older ones.               *)
(***************************************************************************)
EXTENDS DanmakuProofs, WellFoundedInduction

\* The texts of a queue are numbered upwards, after the one shown last and up to top.
Numbered(w, last, top) ==
  /\ last <= top
  /\ \A i \in 1 .. Len(w) : last < w[i].id /\ w[i].id <= top
  /\ \A i, j \in 1 .. Len(w) : i < j => w[i].id < w[j].id

\* The texts on the sliding layers are different ones, none later than last...
SlidingNumbered(layers, last) ==
  /\ \A p \in Places : layers[p].enable => layers[p].id <= last
  /\ \A p, o \in Places :
       layers[p].enable /\ layers[o].enable /\ layers[p].id = layers[o].id => p = o

\* ...and do not run into one another.
SlidingApart(layers) ==
  \A p, o \in Places :
    LET a == layers[p]  b == layers[o]
    IN  a.enable /\ b.enable /\ p[1] = o[1] /\ a.id < b.id /\ b.ppc <= a.ppc
          => a.x + a.width <= b.x

StaticNumbered(layers, last) ==
  /\ \A i \in Statics : layers[i].enable => layers[i].id <= last
  /\ \A i, j \in Statics :
       layers[i].enable /\ layers[j].enable /\ layers[i].id = layers[j].id => i = j

SlidingTexts ==
  /\ Numbered(Waiting(sliding_queen), sliding_latest.id, read)
  /\ SlidingNumbered(sliding_layers, sliding_latest.id)
  /\ SlidingApart(sliding_layers)
StaticTexts ==
  /\ Numbered(Waiting(static_queen), static_latest.id, read)
  /\ StaticNumbered(static_layers, static_latest.id)

TextsInvariant == DanmakuInvariant /\ SlidingTexts /\ StaticTexts

-----------------------------------------------------------------------------
(* The numbers of the texts in a queue. *)

LEMMA NumberedLater ==
  ASSUME NEW w \in Seq(Texts), NEW last \in Nat, NEW top \in Nat, Numbered(w, last, top)
  PROVE  Numbered(w, last, top + 1)
<1>1. \A i \in 1 .. Len(w) : w[i].id \in Nat
  BY TextIs
<1> QED
  BY <1>1 DEF Numbered

LEMMA NumberedAppend ==
  ASSUME NEW w \in Seq(Texts), NEW last \in Nat, NEW top \in Nat, Numbered(w, last, top),
         NEW t \in Texts, t.id = top + 1
  PROVE  Numbered(Append(w, t), last, top + 1)
<1> DEFINE v == Append(w, t)
<1>1. /\ Len(v) = Len(w) + 1 /\ v[Len(w) + 1] = t
      /\ \A i \in 1 .. Len(w) : v[i] = w[i]
  OBVIOUS
<1>2. \A i \in 1 .. Len(w) : w[i].id \in Nat
  BY TextIs
<1>3. Len(w) \in Nat /\ \A i \in 1 .. Len(w) + 1 : i \in 1 .. Len(w) \/ i = Len(w) + 1
  OBVIOUS
<1> HIDE DEF v
<1>4. \A i \in 1 .. Len(v) : last < v[i].id /\ v[i].id <= top + 1
  BY <1>1, <1>2, <1>3 DEF Numbered
<1>5. \A i, j \in 1 .. Len(v) : i < j => v[i].id < v[j].id
  <2> SUFFICES ASSUME NEW i \in 1 .. Len(v), NEW j \in 1 .. Len(v), i < j
               PROVE  v[i].id < v[j].id
    OBVIOUS
  <2>1. i \in 1 .. Len(w)
    BY <1>1, <1>3
  <2>2. CASE j \in 1 .. Len(w)
    BY <1>1, <2>1, <2>2 DEF Numbered
  <2>3. CASE j = Len(w) + 1
    BY <1>1, <1>2, <2>1, <2>3 DEF Numbered
  <2> QED
    BY <1>1, <1>3, <2>2, <2>3
<1>6. last <= top + 1
  BY DEF Numbered
<1> QED
  BY <1>4, <1>5, <1>6 DEF Numbered, v

LEMMA NumberedTail ==
  ASSUME NEW w \in Seq(Texts), w # <<>>, NEW last, NEW top, Numbered(w, last, top)
  PROVE  /\ Numbered(Tail(w), Head(w).id, top) /\ last < Head(w).id
<1>1. /\ Len(w) >= 1 /\ Head(w) = w[1] /\ Len(Tail(w)) = Len(w) - 1
      /\ \A i \in 1 .. Len(Tail(w)) : Tail(w)[i] = w[i + 1]
  OBVIOUS
<1>2. \A i \in 1 .. Len(w) - 1 : i + 1 \in 1 .. Len(w) /\ 1 < i + 1
  BY <1>1
<1>3. 1 \in 1 .. Len(w)
  BY <1>1
<1>4. \A i, j \in 1 .. Len(w) - 1 : i < j => i + 1 < j + 1
  OBVIOUS
<1> QED
  BY <1>1, <1>2, <1>3, <1>4 DEF Numbered

-----------------------------------------------------------------------------
(* The sliding layers in a frame. *)

\* A layer that is still in use after a frame holds the same text, moved by its speed.
LEMMA NextCycleKeeps ==
  ASSUME NEW s \in SlidingLayers, NEW n, n = SlidingNextCycle(s), n.enable
  PROVE  /\ s.enable /\ n.id = s.id /\ n.width = s.width /\ n.ppc = s.ppc
         /\ n.x = s.x - s.ppc
<1> DEFINE m == [s EXCEPT !.x = s.x - s.ppc, !.age = s.age + 1]
<1>1. /\ m.enable = s.enable /\ m.id = s.id /\ m.x = s.x - s.ppc
      /\ m.ppc = s.ppc /\ m.width = s.width
  BY DEF SlidingLayers
<1>2. s.enable /\ n = m
  BY DEF SlidingNextCycle, SlidingOff
<1> QED
  BY <1>1, <1>2

LEMMA MoveKeeps ==
  ASSUME NEW L \in [Places -> SlidingLayers], NEW last,
         SlidingNumbered(L, last), SlidingApart(L),
         NEW M, M = [p \in Places |-> SlidingNextCycle(L[p])]
  PROVE  SlidingNumbered(M, last) /\ SlidingApart(M)
<1>1. ASSUME NEW p \in Places, M[p].enable
      PROVE  /\ L[p].enable /\ M[p].id = L[p].id /\ M[p].width = L[p].width
             /\ M[p].ppc = L[p].ppc /\ M[p].x = L[p].x - L[p].ppc
  <2>1. M[p] = SlidingNextCycle(L[p]) /\ L[p] \in SlidingLayers
    OBVIOUS
  <2> QED
    BY <1>1, <2>1, NextCycleKeeps
<1>2. SlidingNumbered(M, last)
  BY <1>1 DEF SlidingNumbered
<1>3. SlidingApart(M)
  <2> SUFFICES ASSUME NEW p \in Places, NEW o \in Places,
                      M[p].enable, M[o].enable, p[1] = o[1], M[p].id < M[o].id,
                      M[o].ppc <= M[p].ppc
               PROVE  M[p].x + M[p].width <= M[o].x
    BY DEF SlidingApart
  <2>1. L[p].x + L[p].width <= L[o].x
    BY <1>1 DEF SlidingApart
  <2>2. /\ L[p].x \in Int /\ L[o].x \in Int /\ L[p].width \in Nat
        /\ L[p].ppc \in Nat /\ L[o].ppc \in Nat
    BY ConstantsAre DEF SlidingLayers
  <2>3. L[o].ppc <= L[p].ppc
    BY <1>1
  <2>4. (L[p].x - L[p].ppc) + L[p].width <= L[o].x - L[o].ppc
    BY <2>1, <2>2, <2>3
  <2> QED
    BY <1>1, <2>4
<1> QED
  BY <1>2, <1>3

\* InsertSliding finds a free place if there is one.
LEMMA FirstFreeIsFree ==
  ASSUME FreePlaces # {}
  PROVE  FirstFree \in FreePlaces
<1> DEFINE Less == OpToRel(<, Nat)  Before == LexPairOrdering(Less, Less, Nat, Nat)
<1>1. IsWellFoundedOn(Less, Nat)
  BY NatLessThanWellFounded
<1>2. IsWellFoundedOn(Before, Nat \X Nat)
  BY <1>1, WFLexPairOrdering
<1>3. FreePlaces \subseteq Nat \X Nat
  BY DanmakuAssumption DEF FreePlaces, Places
<1>4. PICK x \in FreePlaces : \A y \in FreePlaces : ~(<<y, x>> \in Before)
  <2> HIDE DEF Before
  <2> QED
    BY <1>2, <1>3, WFMin
<1>5. \A m, n \in Nat : m < n => <<m, n>> \in Less
  BY DEF OpToRel
<1>6. \A o \in FreePlaces : x[1] < o[1] \/ (x[1] = o[1] /\ x[2] <= o[2])
  <2> SUFFICES ASSUME NEW o \in FreePlaces
               PROVE  x[1] < o[1] \/ (x[1] = o[1] /\ x[2] <= o[2])
    OBVIOUS
  <2>1. ~(<<o, x>> \in Before)
    BY <1>4
  <2>2. /\ o \in Nat \X Nat /\ x \in Nat \X Nat
        /\ o[1] \in Nat /\ o[2] \in Nat /\ x[1] \in Nat /\ x[2] \in Nat
    BY <1>3
  <2> HIDE DEF Less
  <2>3. ~(<<o[1], x[1]>> \in Less) /\ ~(o[1] = x[1] /\ <<o[2], x[2]>> \in Less)
    BY <2>1, <2>2 DEF LexPairOrdering
  <2>4. ~(o[1] < x[1]) /\ ~(o[1] = x[1] /\ o[2] < x[2])
    BY <1>5, <2>2, <2>3
  <2> QED
    BY <2>2, <2>4
<1> QED
  BY <1>6 DEF FirstFree

\* A later text enters at the right edge, behind every text of its row.
LEMMA EnterKeeps ==
  ASSUME SlidingOK, screen_width \in ScreenWidths, FreePlaces # {},
         NEW t \in Texts, NEW last \in Nat, last < t.id,
         SlidingNumbered(sliding_layers, last), SlidingApart(sliding_layers),
         NEW L, L = [p \in Places |-> IF p = FirstFree THEN SlidingSetDanmu(t)
                                      ELSE sliding_layers[p]]
  PROVE  /\ L \in [Places -> SlidingLayers]
         /\ SlidingNumbered(L, t.id) /\ SlidingApart(L)
<1> DEFINE f == FirstFree  new == SlidingSetDanmu(t)
<1>1. f \in Places /\ \A o \in Places : ~Conflict(f, o)
  BY FirstFreeIsFree DEF FreePlaces
<1>2. new \in SlidingLayers /\ sliding_layers \in [Places -> SlidingLayers]
  BY SetIsTyped DEF SlidingOK
<1>3. new.id = t.id /\ new.x = screen_width /\ t.id \in Nat
  BY TextIs DEF SlidingSetDanmu
<1>4. \A p \in Places : p # f => L[p] = sliding_layers[p]
  OBVIOUS
<1>5. L[f] = new
  BY <1>1
<1> HIDE DEF f, new
<1>6. L \in [Places -> SlidingLayers]
  BY <1>2 DEF f, new
<1>7. \A p \in Places : sliding_layers[p].id \in Nat
  BY <1>2 DEF SlidingLayers
<1>8. SlidingNumbered(L, t.id)
  <2>1. \A p \in Places : p # f /\ L[p].enable => L[p].id < t.id
    BY <1>3, <1>4, <1>7 DEF SlidingNumbered
  <2>2. \A p \in Places : L[p].enable => L[p].id <= t.id
    BY <1>3, <1>4, <1>5, <1>7, <2>1
  <2>3. ASSUME NEW p \in Places, NEW o \in Places,
               L[p].enable, L[o].enable, L[p].id = L[o].id
        PROVE  p = o
    <3>1. CASE p # f /\ o # f
      BY <1>4, <2>3, <3>1 DEF SlidingNumbered
    <3>2. CASE (p = f) # (o = f)
      BY <1>3, <1>4, <1>5, <1>7, <2>1, <2>3, <3>2
    <3> QED
      BY <3>1, <3>2
  <2> QED
    BY <2>2, <2>3 DEF SlidingNumbered
<1>9. SlidingApart(L)
  <2> SUFFICES ASSUME NEW p \in Places, NEW o \in Places,
                      L[p].enable, L[o].enable, p[1] = o[1], L[p].id < L[o].id,
                      L[o].ppc <= L[p].ppc
               PROVE  L[p].x + L[p].width <= L[o].x
    BY DEF SlidingApart
  <2>1. p # f
    BY <1>3, <1>5, <1>6, <1>8, <1>7, <1>4 DEF SlidingNumbered
  <2>2. CASE o # f
    BY <1>4, <2>1, <2>2 DEF SlidingApart
  <2>3. CASE o = f
    <3>1. ~Conflict(f, p) /\ L[p] = sliding_layers[p]
      BY <1>1, <1>4, <2>1
    <3>2. ~(sliding_layers[p].x + sliding_layers[p].width > screen_width)
      BY <2>1, <2>3, <3>1 DEF Conflict
    <3>3. sliding_layers[p].x \in Int /\ sliding_layers[p].width \in Nat
          /\ screen_width \in Nat
      BY <1>2, ConstantsAre, DanmakuAssumption DEF SlidingLayers
    <3>4. L[o].x = screen_width
      BY <1>3, <1>5, <2>3
    <3> QED
      BY <3>1, <3>2, <3>3, <3>4
  <2> QED
    BY <2>2, <2>3
<1> QED
  BY <1>6, <1>8, <1>9

\* The invariant after a step is what the operators say of the values after it.
LEMMA SlidingTextsPrimed ==
  ASSUME NEW w, Waiting(sliding_queen)' = w, NEW last, sliding_latest'.id = last,
         NEW top, read' = top, NEW L, sliding_layers' = L,
         Numbered(w, last, top), SlidingNumbered(L, last), SlidingApart(L)
  PROVE  SlidingTexts'
<1>1. Numbered(Waiting(sliding_queen), sliding_latest.id, read)'
  BY DEF Numbered
<1>2. SlidingNumbered(sliding_layers, sliding_latest.id)'
  BY DEF SlidingNumbered
<1>3. SlidingApart(sliding_layers)'
  BY DEF SlidingApart
<1> QED
  BY <1>1, <1>2, <1>3 DEF SlidingTexts

LEMMA StaticTextsPrimed ==
  ASSUME NEW w, Waiting(static_queen)' = w, NEW last, static_latest'.id = last,
         NEW top, read' = top, NEW L, static_layers' = L,
         Numbered(w, last, top), StaticNumbered(L, last)
  PROVE  StaticTexts'
<1>1. Numbered(Waiting(static_queen), static_latest.id, read)'
  BY DEF Numbered
<1>2. StaticNumbered(static_layers, static_latest.id)'
  BY DEF StaticNumbered
<1> QED
  BY <1>1, <1>2 DEF StaticTexts

LEMMA RenderSlidingTexts ==
  ASSUME SlidingOK, screen_width \in ScreenWidths, NEW q \in Queens, NEW top \in Nat,
         Numbered(Waiting(q), sliding_latest.id, top),
         SlidingNumbered(sliding_layers, sliding_latest.id), SlidingApart(sliding_layers),
         RenderSliding(q), read' = top
  PROVE  SlidingTexts'
<1>1. Waiting(q) \in Seq(Texts)
  BY QueenTyped
<1>2. sliding_latest.id \in Nat
  BY TextIs DEF SlidingOK
<1>3. CASE CanFetch(q) /\ FreePlaces # {}
  <2> DEFINE t == Fetch(q)
             L == [p \in Places |-> IF p = FirstFree THEN SlidingSetDanmu(t)
                                    ELSE sliding_layers[p]]
  <2>1. /\ Waiting(q) # <<>> /\ t = Head(Waiting(q))
        /\ Waiting(Pop(q)) = Tail(Waiting(q)) /\ t \in Texts
    BY <1>3, PopTakesOldest, FetchIsText
  <2>2. /\ sliding_layers' = [p \in Places |-> SlidingNextCycle(L[p])]
        /\ sliding_queen' = Pop(q) /\ sliding_latest' = t
    BY <1>3 DEF RenderSliding
  <2> HIDE DEF t
  <2>3. Numbered(Waiting(Pop(q)), t.id, top) /\ sliding_latest.id < t.id
    BY <1>1, <2>1, NumberedTail
  <2>4. /\ L \in [Places -> SlidingLayers]
        /\ SlidingNumbered(L, t.id) /\ SlidingApart(L)
    BY <1>2, <1>3, <2>1, <2>3, EnterKeeps
  <2> HIDE DEF L
  <2>5. /\ SlidingNumbered([p \in Places |-> SlidingNextCycle(L[p])], t.id)
        /\ SlidingApart([p \in Places |-> SlidingNextCycle(L[p])])
    BY <2>4, MoveKeeps
  <2>6. Waiting(sliding_queen)' = Waiting(Pop(q))
    BY <2>2 DEF Waiting, Backlog
  <2> QED
    BY <2>2, <2>3, <2>5, <2>6, SlidingTextsPrimed
<1>4. CASE ~(CanFetch(q) /\ FreePlaces # {})
  <2>1. /\ sliding_layers' = [p \in Places |-> SlidingNextCycle(sliding_layers[p])]
        /\ sliding_queen' = q /\ sliding_latest' = sliding_latest
    BY <1>4 DEF RenderSliding
  <2>2. /\ SlidingNumbered([p \in Places |-> SlidingNextCycle(sliding_layers[p])],
                           sliding_latest.id)
        /\ SlidingApart([p \in Places |-> SlidingNextCycle(sliding_layers[p])])
    BY MoveKeeps DEF SlidingOK
  <2>3. Waiting(sliding_queen)' = Waiting(q)
    BY <2>1 DEF Waiting, Backlog
  <2> QED
    BY <2>1, <2>2, <2>3, SlidingTextsPrimed
<1> QED
  BY <1>3, <1>4

-----------------------------------------------------------------------------
(* The static layers in a frame. *)

LEMMA StaticNextKeeps ==
  ASSUME NEW s \in StaticLayers, NEW n, n = StaticNextCycle(s), n.enable
  PROVE  s.enable /\ n.id = s.id
<1> DEFINE m == [s EXCEPT !.counter = s.counter + 1]
<1>1. m.enable = s.enable /\ m.id = s.id
  BY DEF StaticLayers
<1>2. s.enable /\ n = m
  BY DEF StaticNextCycle, StaticOff
<1> QED
  BY <1>1, <1>2

LEMMA StayKeeps ==
  ASSUME NEW L \in [Statics -> StaticLayers], NEW last, StaticNumbered(L, last),
         NEW M, M = [i \in Statics |-> StaticNextCycle(L[i])]
  PROVE  StaticNumbered(M, last)
<1>1. ASSUME NEW i \in Statics, M[i].enable
      PROVE  L[i].enable /\ M[i].id = L[i].id
  <2>1. M[i] = StaticNextCycle(L[i]) /\ L[i] \in StaticLayers
    OBVIOUS
  <2> QED
    BY <1>1, <2>1, StaticNextKeeps
<1> QED
  BY <1>1 DEF StaticNumbered

LEMMA SetKeeps ==
  ASSUME StaticOK, screen_width \in ScreenWidths, NEW c,
         NEW t \in Texts, NEW last \in Nat, last < t.id,
         StaticNumbered(static_layers, last),
         NEW L, L = [i \in Statics |-> IF i = c THEN ForceStaticSetDanmu(t)
                                       ELSE static_layers[i]]
  PROVE  L \in [Statics -> StaticLayers] /\ StaticNumbered(L, t.id)
<1> DEFINE new == ForceStaticSetDanmu(t)
<1>1. new \in StaticLayers /\ static_layers \in [Statics -> StaticLayers]
  BY SetIsTyped DEF StaticOK
<1>2. new.id = t.id /\ t.id \in Nat
  BY TextIs DEF ForceStaticSetDanmu
<1> HIDE DEF new
<1>3. L \in [Statics -> StaticLayers]
  BY <1>1 DEF new
<1>4. \A i \in Statics : L[i] = (IF i = c THEN new ELSE static_layers[i])
  BY DEF new
<1>5. \A i \in Statics : static_layers[i].id \in Nat
  BY <1>1 DEF StaticLayers
<1>6. \A i \in Statics : i # c /\ L[i].enable => L[i].id < t.id
  BY <1>2, <1>4, <1>5 DEF StaticNumbered
<1>7. \A i \in Statics : L[i].enable => L[i].id <= t.id
  BY <1>2, <1>4, <1>5, <1>6
<1>8. ASSUME NEW i \in Statics, NEW j \in Statics,
             L[i].enable, L[j].enable, L[i].id = L[j].id
      PROVE  i = j
  <2>1. CASE i # c /\ j # c
    BY <1>4, <1>8, <2>1 DEF StaticNumbered
  <2>2. CASE (i = c) # (j = c)
    BY <1>2, <1>4, <1>5, <1>6, <1>8, <2>2
  <2> QED
    BY <2>1, <2>2
<1> QED
  BY <1>3, <1>7, <1>8 DEF StaticNumbered

LEMMA RenderStaticTexts ==
  ASSUME StaticOK, screen_width \in ScreenWidths, NEW q \in Queens, NEW top \in Nat,
         Numbered(Waiting(q), static_latest.id, top),
         StaticNumbered(static_layers, static_latest.id), RenderStatic(q), read' = top
  PROVE  StaticTexts'
<1>1. Waiting(q) \in Seq(Texts)
  BY QueenTyped
<1>2. static_latest.id \in Nat
  BY TextIs DEF StaticOK
<1>3. CASE CanFetch(q)
  <2> DEFINE t == Fetch(q)
  <2>1. /\ Waiting(q) # <<>> /\ t = Head(Waiting(q))
        /\ Waiting(Pop(q)) = Tail(Waiting(q)) /\ t \in Texts
    BY <1>3, PopTakesOldest, FetchIsText
  <2>2. PICK c \in StaticChoices :
          static_layers' =
            [i \in Statics |-> StaticNextCycle(IF i = c THEN ForceStaticSetDanmu(t)
                                               ELSE static_layers[i])]
    BY <1>3 DEF RenderStatic
  <2> DEFINE L == [i \in Statics |-> IF i = c THEN ForceStaticSetDanmu(t)
                                     ELSE static_layers[i]]
  <2>3. /\ static_layers' = [i \in Statics |-> StaticNextCycle(L[i])]
        /\ static_queen' = Pop(q) /\ static_latest' = t
    BY <1>3, <2>2 DEF RenderStatic
  <2> HIDE DEF t
  <2>4. Numbered(Waiting(Pop(q)), t.id, top) /\ static_latest.id < t.id
    BY <1>1, <2>1, NumberedTail
  <2>5. L \in [Statics -> StaticLayers] /\ StaticNumbered(L, t.id)
    BY <1>2, <2>1, <2>4, SetKeeps
  <2> HIDE DEF L
  <2>6. StaticNumbered([i \in Statics |-> StaticNextCycle(L[i])], t.id)
    BY <2>5, StayKeeps
  <2>7. Waiting(static_queen)' = Waiting(Pop(q))
    BY <2>3 DEF Waiting, Backlog
  <2> QED
    BY <2>3, <2>4, <2>6, <2>7, StaticTextsPrimed
<1>4. CASE ~CanFetch(q)
  <2>1. /\ static_layers' = [i \in Statics |-> StaticNextCycle(static_layers[i])]
        /\ static_queen' = q /\ static_latest' = static_latest
    BY <1>4 DEF RenderStatic
  <2>2. StaticNumbered([i \in Statics |-> StaticNextCycle(static_layers[i])],
                       static_latest.id)
    BY StayKeeps DEF StaticOK
  <2>3. Waiting(static_queen)' = Waiting(q)
    BY <2>1 DEF Waiting, Backlog
  <2> QED
    BY <2>1, <2>2, <2>3, StaticTextsPrimed
<1> QED
  BY <1>3, <1>4

-----------------------------------------------------------------------------
(* The inductive invariant. *)

LEMMA TextsInit == Init => TextsInvariant
<1> SUFFICES ASSUME Init PROVE TextsInvariant
  OBVIOUS
<1>1. DanmakuInvariant
  BY InitInvariant
<1>2. Backlog(sliding_queen) = 0 /\ Backlog(static_queen) = 0
  BY DEF Init, InitQueen, Backlog
<1>3. Waiting(sliding_queen) = <<>> /\ Waiting(static_queen) = <<>>
  BY <1>2 DEF Waiting
<1>4. Numbered(<<>>, 0, 0)
  BY DEF Numbered
<1>5. read = 0 /\ sliding_latest.id = 0 /\ static_latest.id = 0
  BY DEF Init, NoText
<1>6. /\ \A p \in Places : ~sliding_layers[p].enable
      /\ \A i \in Statics : ~static_layers[i].enable
  BY DEF Init, SlidingOff, StaticOff
<1>7. SlidingNumbered(sliding_layers, 0) /\ SlidingApart(sliding_layers)
  BY <1>6 DEF SlidingNumbered, SlidingApart
<1>8. StaticNumbered(static_layers, 0)
  BY <1>6 DEF StaticNumbered
<1> QED
  BY <1>1, <1>3, <1>4, <1>5, <1>7, <1>8 DEF TextsInvariant, SlidingTexts, StaticTexts

LEMMA FrameTexts ==
  ASSUME TextsInvariant, NEW q \in Queens, NEW t \in Queens, Frame(q, t),
         read' = read \/ read' = read + 1,
         Numbered(Waiting(q), sliding_latest.id, read'),
         Numbered(Waiting(t), static_latest.id, read')
  PROVE  SlidingTexts' /\ StaticTexts'
<1>1. SlidingOK /\ StaticOK /\ screen_width \in ScreenWidths /\ read \in Nat
  BY DEF TextsInvariant, DanmakuInvariant
<1>2. RenderSliding(q) /\ RenderStatic(t)
  BY DEF Frame
<1>3. /\ SlidingNumbered(sliding_layers, sliding_latest.id) /\ SlidingApart(sliding_layers)
      /\ StaticNumbered(static_layers, static_latest.id)
  BY DEF TextsInvariant, SlidingTexts, StaticTexts
<1>4. PICK top \in Nat : read' = top
  BY <1>1
<1>5. SlidingTexts'
  BY <1>1, <1>2, <1>3, <1>4, RenderSlidingTexts
<1>6. StaticTexts'
  BY <1>1, <1>2, <1>3, <1>4, RenderStaticTexts
<1> QED
  BY <1>5, <1>6

LEMMA SameTexts ==
  ASSUME TextsInvariant, UNCHANGED <<sliding_queen, static_queen, layerVars, read>>
  PROVE  SlidingTexts' /\ StaticTexts'
<1>1. /\ Waiting(sliding_queen)' = Waiting(sliding_queen)
      /\ Waiting(static_queen)' = Waiting(static_queen)
  BY DEF Waiting, Backlog
<1>2. SlidingTexts'
  BY <1>1, SlidingTextsPrimed DEF TextsInvariant, SlidingTexts, layerVars
<1>3. StaticTexts'
  BY <1>1, StaticTextsPrimed DEF TextsInvariant, StaticTexts, layerVars
<1> QED
  BY <1>2, <1>3

\* What a new text does to the queue it joins and to the other one.
LEMMA PushNumbered ==
  ASSUME DanmakuInvariant, read < MaxTexts, NEW q \in Queens, PushFits(q),
         NEW text \in NewTexts, NEW last \in Nat, Numbered(Waiting(q), last, read)
  PROVE  Push(q, text) \in Queens /\ Numbered(Waiting(Push(q, text)), last, read + 1)
<1>1. text \in Texts /\ text.id = read + 1 /\ read \in Nat
  BY NewTextIs DEF DanmakuInvariant, NewTexts
<1>2. Push(q, text) \in Queens /\ Waiting(Push(q, text)) = Append(Waiting(q), text)
  BY <1>1, PushAppends
<1> QED
  BY <1>1, <1>2, QueenTyped, NumberedAppend

LEMMA TextsNext == TextsInvariant /\ [Next]_vars => TextsInvariant'
<1> SUFFICES ASSUME TextsInvariant, [Next]_vars PROVE TextsInvariant'
  OBVIOUS
<1>1. DanmakuInvariant'
  BY NextInvariant DEF TextsInvariant
<1>2. /\ sliding_queen \in Queens /\ static_queen \in Queens
      /\ sliding_latest.id \in Nat /\ static_latest.id \in Nat /\ read \in Nat
      /\ DanmakuInvariant
  BY TextIs DEF TextsInvariant, DanmakuInvariant, SlidingOK, StaticOK
<1>3. /\ Numbered(Waiting(sliding_queen), sliding_latest.id, read)
      /\ Numbered(Waiting(static_queen), static_latest.id, read)
  BY DEF TextsInvariant, SlidingTexts, StaticTexts
<1>4. /\ Numbered(Waiting(sliding_queen), sliding_latest.id, read + 1)
      /\ Numbered(Waiting(static_queen), static_latest.id, read + 1)
  BY <1>2, <1>3, QueenTyped, NumberedLater
<1>5. CASE SlidingLine /\ PushFits(sliding_queen)
  <2>1. PICK text \in NewTexts : Frame(Push(sliding_queen, text), static_queen)
    BY <1>5 DEF SlidingLine
  <2>2. read' = read + 1 /\ read < MaxTexts
    BY <1>5 DEF SlidingLine
  <2>3. /\ Push(sliding_queen, text) \in Queens
        /\ Numbered(Waiting(Push(sliding_queen, text)), sliding_latest.id, read + 1)
    BY <1>2, <1>3, <1>5, <2>2, PushNumbered
  <2>4. SlidingTexts' /\ StaticTexts'
    BY <1>2, <1>4, <2>1, <2>2, <2>3, FrameTexts
  <2> QED
    BY <1>1, <2>4 DEF TextsInvariant
<1>6. CASE StaticLine /\ PushFits(static_queen)
  <2>1. PICK text \in NewTexts : Frame(sliding_queen, Push(static_queen, text))
    BY <1>6 DEF StaticLine
  <2>2. read' = read + 1 /\ read < MaxTexts
    BY <1>6 DEF StaticLine
  <2>3. /\ Push(static_queen, text) \in Queens
        /\ Numbered(Waiting(Push(static_queen, text)), static_latest.id, read + 1)
    BY <1>2, <1>3, <1>6, <2>2, PushNumbered
  <2>4. SlidingTexts' /\ StaticTexts'
    BY <1>2, <1>4, <2>1, <2>2, <2>3, FrameTexts
  <2> QED
    BY <1>1, <2>4 DEF TextsInvariant
<1>7. CASE UnknownLine \/ NoLine \/ ButtonDone
  <2>1. Frame(sliding_queen, static_queen) /\ read' = read
    BY <1>7 DEF UnknownLine, NoLine, ButtonDone
  <2>2. SlidingTexts' /\ StaticTexts'
    BY <1>2, <1>3, <2>1, FrameTexts
  <2> QED
    BY <1>1, <2>2 DEF TextsInvariant
<1>8. CASE ButtonLine /\ PushFits(static_queen)
  <2>1. PICK text \in NewTexts : static_queen' = Push(static_queen, text)
    BY <1>8 DEF ButtonLine
  <2>2. /\ read' = read + 1 /\ read < MaxTexts
        /\ UNCHANGED <<sliding_queen, layerVars>>
    BY <1>8 DEF ButtonLine
  <2>3. Numbered(Waiting(Push(static_queen, text)), static_latest.id, read + 1)
    BY <1>2, <1>3, <1>8, <2>2, PushNumbered
  <2>4. /\ Waiting(static_queen)' = Waiting(Push(static_queen, text))
        /\ Waiting(sliding_queen)' = Waiting(sliding_queen)
    BY <2>1, <2>2 DEF Waiting, Backlog
  <2>5. SlidingTexts'
    BY <1>4, <2>2, <2>4, SlidingTextsPrimed DEF TextsInvariant, SlidingTexts, layerVars
  <2>6. StaticTexts'
    BY <2>2, <2>3, <2>4, StaticTextsPrimed DEF TextsInvariant, StaticTexts, layerVars
  <2> QED
    BY <1>1, <2>5, <2>6 DEF TextsInvariant
<1>9. CASE \/ SlidingLine /\ ~PushFits(sliding_queen)
           \/ StaticLine /\ ~PushFits(static_queen)
           \/ ButtonLine /\ ~PushFits(static_queen)
  <2>1. UNCHANGED <<sliding_queen, static_queen, layerVars, read>>
    BY <1>9 DEF SlidingLine, StaticLine, ButtonLine, Overruns
  <2> QED
    BY <1>1, <2>1, SameTexts DEF TextsInvariant
<1>10. CASE ButtonClick \/ ResolutionChanges \/ ButtonEvent \/ UNCHANGED vars
  <2>1. UNCHANGED <<sliding_queen, static_queen, layerVars, read>>
    BY <1>10 DEF ButtonClick, ResolutionChanges, ButtonEvent, vars
  <2> QED
    BY <1>1, <2>1, SameTexts DEF TextsInvariant
<1> QED
  BY <1>5, <1>6, <1>7, <1>8, <1>9, <1>10 DEF Next, RenderOnce

-----------------------------------------------------------------------------
(* The strips. *)

LEMMA StripsFitNow == DanmakuInvariant => StripsFit
<1> SUFFICES ASSUME DanmakuInvariant PROVE StripsFit
  OBVIOUS
<1>1. screen_width \in Nat \ {0}
  BY DanmakuAssumption DEF DanmakuInvariant
<1>2. ASSUME NEW p \in Sliding
      PROVE  Drawn(SlidingStrip(sliding_layers[p]))
               = Visible(sliding_layers[p].x, sliding_layers[p].width)
  <2> DEFINE s == sliding_layers[p]
             from == IF s.x < 0 THEN 0 ELSE s.x
             end == s.x + s.width - 1
             to == IF end >= screen_width THEN screen_width-1 ELSE end
             src == IF s.x < 0 THEN -s.x ELSE 0
  <2>1. s.x \in Int /\ s.width \in Nat /\ s.enable
    BY ConstantsAre DEF DanmakuInvariant, SlidingOK, SlidingLayers, Sliding
  <2>2. CASE s.x >= screen_width \/ end < 0 \/ end < s.x
    <3>1. SlidingStrip(s) = {}
      BY <2>2 DEF SlidingStrip
    <3>2. Visible(s.x, s.width) = {}
      BY <1>1, <2>1, <2>2 DEF Visible
    <3> QED
      BY <3>1, <3>2 DEF Drawn
  <2>3. CASE ~(s.x >= screen_width \/ end < 0 \/ end < s.x)
    <3>1. SlidingStrip(s) = {[from |-> from, to |-> to, src |-> src]}
      BY <2>1, <2>3 DEF SlidingStrip
    <3>2. Drawn(SlidingStrip(s)) = {<<c, src + c - from>> : c \in from .. to}
      BY <3>1 DEF Drawn
    <3>3. \A c \in Int : /\ src + c - from = c - s.x
                         /\ c \in from .. to <=> c \in 0 .. screen_width-1
                                                /\ c - s.x \in 0 .. s.width-1
      BY <1>1, <2>1, <2>3
    <3> QED
      BY <1>1, <2>1, <3>2, <3>3 DEF Visible
  <2> QED
    BY <2>2, <2>3
<1>3. ASSUME NEW i \in Shown
      PROVE  LET s == static_layers[i]
                 x == IF s.valid_len < screen_width
                      THEN (screen_width - s.valid_len) \div 2 ELSE 0
             IN  Drawn(StaticStrip(s)) = Visible(x, s.valid_len)
  <2> DEFINE s == static_layers[i]
             x == IF s.valid_len < screen_width
                  THEN (screen_width - s.valid_len) \div 2 ELSE 0
             end == x + s.valid_len - 1
             to == IF end >= screen_width THEN screen_width-1 ELSE end
  <2>1. s.valid_len \in Nat /\ s.enable
    BY ConstantsAre DEF DanmakuInvariant, StaticOK, StaticLayers, Shown
  <2>2. /\ x \in Nat /\ x < screen_width
        /\ x = IF screen_width > s.valid_len
               THEN (screen_width - s.valid_len) \div 2 ELSE 0
    BY <1>1, <2>1
  <2>3. StaticStrip(s) = IF end < x THEN {} ELSE {[from |-> x, to |-> to, src |-> 0]}
    BY <2>1, <2>2 DEF StaticStrip
  <2> HIDE DEF x
  <2>4. CASE end < x
    <3>1. Visible(x, s.valid_len) = {}
      BY <1>1, <2>1, <2>2, <2>4 DEF Visible
    <3> QED
      BY <2>3, <2>4, <3>1 DEF Drawn, x
  <2>5. CASE ~(end < x)
    <3>1. Drawn(StaticStrip(s)) = {<<c, 0 + c - x>> : c \in x .. to}
      BY <2>3, <2>5 DEF Drawn
    <3>2. x .. to = {d \in 0 .. screen_width-1 : d - x \in 0 .. s.valid_len-1}
      BY <1>1, <2>1, <2>2, <2>5
    <3>3. \A c \in x .. to : 0 + c - x = c - x
      BY <2>2
    <3>4. Drawn(StaticStrip(s)) = Visible(x, s.valid_len)
      BY <3>1, <3>2, <3>3 DEF Visible
    <3> QED
      BY <3>4 DEF x
  <2> QED
    BY <2>4, <2>5
<1> QED
  BY <1>2, <1>3 DEF StripsFit

-----------------------------------------------------------------------------
(* The theorems. *)

\* Texts in a queue are numbered upwards after the one its layers showed last, the layers
\* hold older ones, each its own, and those of a row are apart, in every reachable state.
THEOREM TextsInvariantHolds == Spec => []TextsInvariant
  BY TextsInit, TextsNext, PTL DEF Spec

\* A text is never in two places: not on two layers, and not on a layer while its
\* queue still holds it, whichever layers are free when RenderOnce fetches it.
THEOREM OnePlace == Spec => []OnceOnly
<1>1. TextsInvariant => OnceOnly
  <2> SUFFICES ASSUME TextsInvariant PROVE OnceOnly
    OBVIOUS
  <2>1. /\ sliding_queen \in Queens /\ static_queen \in Queens
        /\ sliding_latest.id \in Nat /\ static_latest.id \in Nat
        /\ \A p \in Places : sliding_layers[p].id \in Nat
        /\ \A i \in Statics : static_layers[i].id \in Nat
    BY TextIs DEF TextsInvariant, DanmakuInvariant, SlidingOK, StaticOK,
                  SlidingLayers, StaticLayers
  <2>2. ASSUME NEW q \in Queens, NEW last \in Nat, NEW top, Numbered(Waiting(q), last, top),
               NEW id \in Nat, id <= last
        PROVE  id \notin WaitingIds(q)
    <3>1. /\ Len(Waiting(q)) = Backlog(q) /\ Waiting(q) \in Seq(Texts)
          /\ Backlog(q) \in Nat
      BY QueenTyped, QueenAssumption
    <3>2. \A i \in 1 .. Backlog(q) : Waiting(q)[i].id \in Nat
      BY <3>1, TextIs
    <3> QED
      BY <2>2, <3>1, <3>2 DEF Numbered, WaitingIds
  <2>3. \A p \in Sliding : sliding_layers[p].id \notin WaitingIds(sliding_queen)
    BY <2>1, <2>2 DEF TextsInvariant, SlidingTexts, SlidingNumbered, Sliding
  <2>4. \A i \in Shown : static_layers[i].id \notin WaitingIds(static_queen)
    BY <2>1, <2>2 DEF TextsInvariant, StaticTexts, StaticNumbered, Shown
  <2>5. \A p, o \in Sliding : sliding_layers[p].id = sliding_layers[o].id => p = o
    BY DEF TextsInvariant, SlidingTexts, SlidingNumbered, Sliding
  <2>6. \A i, j \in Shown : static_layers[i].id = static_layers[j].id => i = j
    BY DEF TextsInvariant, StaticTexts, StaticNumbered, Shown
  <2> QED
    BY <2>3, <2>4, <2>5, <2>6 DEF OnceOnly
<1> QED
  BY <1>1, TextsInvariantHolds, PTL

\* Texts of a row never overlap unless the later one is the faster: the check that
\* InsertSliding makes when a text enters is enough for all the frames that follow.
THEOREM RowsApart == Spec => []Apart
<1>1. TextsInvariant => Apart
  BY DEF TextsInvariant, SlidingTexts, SlidingApart, Apart, Sliding
<1> QED
  BY <1>1, TextsInvariantHolds, PTL

\* A layer draws exactly the columns of its text that the screen has room for, for
\* every width of text and screen and every position.
THEOREM StripsAlwaysFit == Spec => []StripsFit
  BY StripsFitNow, InvariantHolds, PTL

-----------------------------------------------------------------------------
(* How long a static text stays. *)

\* InsertStatic takes a layer in use only when all are.
LEMMA ChoiceIsFree ==
  ASSUME NEW c \in StaticChoices
  PROVE  c \in Statics /\ (static_layers[c].enable => Shown = Statics)
<1> DEFINE off == {i \in Statics : ~static_layers[i].enable}
           Less == OpToRel(<, Nat)
<1>1. StaticChoices = IF off = {} THEN Statics ELSE {Min(off)}
  BY DEF StaticChoices
<1>2. CASE off = {}
  BY <1>1, <1>2 DEF Shown
<1>3. CASE off # {}
  <2>1. IsWellFoundedOn(Less, Nat)
    BY NatLessThanWellFounded
  <2>2. off \subseteq Nat
    BY DanmakuAssumption DEF Statics
  <2>3. PICK x \in off : \A y \in off : ~(<<y, x>> \in Less)
    <3> HIDE DEF Less, off
    <3> QED
      BY <1>3, <2>1, <2>2, WFMin
  <2>4. \A m, n \in Nat : m < n => <<m, n>> \in Less
    BY DEF OpToRel
  <2>5. \A y \in off : x <= y
    <3> HIDE DEF Less, off
    <3> TAKE y \in off
    <3>1. x \in Nat /\ y \in Nat
      BY <2>2, <2>3
    <3>2. ~(y < x)
      BY <2>3, <2>4, <3>1
    <3> QED
      BY <3>1, <3>2
  <2>6. Min(off) \in off
    <3> HIDE DEF off
    <3> QED
      BY <2>3, <2>5 DEF Min
  <2> QED
    BY <1>1, <1>3, <2>6
<1> QED
  BY <1>2, <1>3

LEMMA NextCycleStays ==
  ASSUME NEW s \in StaticLayers, NEW t, t = StaticNextCycle(s)
  PROVE  /\ s.enable /\ t.enable => t.id = s.id /\ t.counter = s.counter + 1
         /\ t.enable => s.enable
         /\ s.enable /\ ~t.enable => s.counter + 1 = DURATION
<1> DEFINE m == [s EXCEPT !.counter = s.counter + 1]
<1>1. /\ m.enable = s.enable /\ m.id = s.id /\ m.counter = s.counter + 1
      /\ s.counter \in 0 .. DURATION - 1 /\ DURATION \in Nat
  BY DanmakuAssumption DEF StaticLayers
<1>2. t = IF ~s.enable \/ s.counter + 1 >= DURATION THEN StaticOff ELSE m
  BY DEF StaticNextCycle
<1>3. ~StaticOff.enable
  BY DEF StaticOff
<1> HIDE DEF m
<1> QED
  BY <1>1, <1>2, <1>3

LEMMA RenderStaticStays ==
  ASSUME StaticOK, screen_width \in ScreenWidths, NEW q \in Queens, NEW top \in Nat,
         Numbered(Waiting(q), static_latest.id, top),
         StaticNumbered(static_layers, static_latest.id), RenderStatic(q),
         NEW i \in Statics
  PROVE  StaysOrYields(static_layers[i], static_layers'[i])
<1> DEFINE s == static_layers[i]  t == static_layers'[i]
<1>1. static_layers \in [Statics -> StaticLayers] /\ s \in StaticLayers
  BY DEF StaticOK
<1>2. s.id \in Nat /\ static_latest.id \in Nat /\ DURATION \in Nat \ {0}
      /\ s.counter \in 0 .. DURATION - 1
  BY <1>1, TextIs, DanmakuAssumption DEF StaticOK, StaticLayers
<1>3. ASSUME t = StaticNextCycle(s)
      PROVE  StaysOrYields(s, t)
  BY <1>1, <1>3, NextCycleStays DEF StaysOrYields
<1>4. CASE ~CanFetch(q)
  BY <1>3, <1>4 DEF RenderStatic
<1>5. CASE CanFetch(q)
  <2> DEFINE text == Fetch(q)  new == ForceStaticSetDanmu(text)
  <2>1. /\ Waiting(q) # <<>> /\ text = Head(Waiting(q)) /\ text \in Texts
        /\ Waiting(q) \in Seq(Texts)
    BY <1>5, FetchIsText, QueenTyped, PopTakesOldest
  <2>2. PICK c \in StaticChoices :
          static_layers' =
            [j \in Statics |-> StaticNextCycle(IF j = c THEN new ELSE static_layers[j])]
    BY <1>5 DEF RenderStatic
  <2>3. static_latest' = text
    BY <1>5 DEF RenderStatic
  <2> HIDE DEF text
  <2>4. static_latest.id < text.id /\ text.id \in Nat
    BY <1>2, <2>1, NumberedTail, TextIs
  <2>5. /\ new.enable /\ new.id = text.id /\ new.counter = 0 /\ new \in StaticLayers
    BY <2>1, SetIsTyped DEF ForceStaticSetDanmu
  <2> HIDE DEF new
  <2>6. CASE i # c
    BY <1>3, <2>2, <2>6
  <2>7. CASE i = c
    <3>1. t = StaticNextCycle(new)
      BY <2>2, <2>7
    <3>2. /\ t.enable => t.id = text.id /\ t.counter = 1
          /\ ~t.enable => DURATION = 1
      BY <2>5, <3>1, NextCycleStays
    <3>3. s.enable => Shown = Statics /\ s.id < text.id
      BY <1>2, <2>4, <2>7, ChoiceIsFree DEF StaticNumbered
    <3> HIDE DEF s, t
    <3>4. s.enable /\ t.enable => t.id # s.id
      BY <1>2, <2>4, <3>2, <3>3
    <3>5. ~t.enable => s.counter + 1 = DURATION
      BY <1>2, <3>2
    <3>6. s.enable /\ t.enable => Shown = Statics /\ t.id = static_latest'.id
      BY <2>3, <3>2, <3>3
    <3>7. StaysOrYields(s, t)
      BY <3>2, <3>4, <3>5, <3>6 DEF StaysOrYields
    <3> QED
      BY <3>7 DEF s, t
  <2> QED
    BY <2>6, <2>7
<1> QED
  BY <1>4, <1>5

LEMMA SameStays ==
  ASSUME UNCHANGED layerVars, StaticOK, NEW i \in Statics
  PROVE  StaysOrYields(static_layers[i], static_layers'[i])
<1>1. static_layers'[i] = static_layers[i]
  BY DEF layerVars
<1> QED
  BY <1>1 DEF StaysOrYields

LEMMA NextStays ==
  ASSUME TextsInvariant, [Next]_vars
  PROVE  \A i \in Statics : StaysOrYields(static_layers[i], static_layers'[i])
<1> TAKE i \in Statics
<1>1. /\ StaticOK /\ screen_width \in ScreenWidths /\ read \in Nat /\ DanmakuInvariant
      /\ static_queen \in Queens /\ static_latest.id \in Nat
  BY TextIs DEF TextsInvariant, DanmakuInvariant, StaticOK
<1>2. /\ Numbered(Waiting(static_queen), static_latest.id, read)
      /\ StaticNumbered(static_layers, static_latest.id)
  BY DEF TextsInvariant, StaticTexts
<1>3. CASE StaticLine /\ PushFits(static_queen)
  <2>1. PICK text \in NewTexts : Frame(sliding_queen, Push(static_queen, text))
    BY <1>3 DEF StaticLine
  <2>2. /\ Push(static_queen, text) \in Queens
        /\ Numbered(Waiting(Push(static_queen, text)), static_latest.id, read + 1)
    BY <1>1, <1>2, <1>3, PushNumbered DEF StaticLine
  <2>3. RenderStatic(Push(static_queen, text)) /\ read + 1 \in Nat
    BY <1>1, <2>1 DEF Frame
  <2> QED
    BY <1>1, <1>2, <2>2, <2>3, RenderStaticStays
<1>4. CASE (SlidingLine /\ PushFits(sliding_queen)) \/ UnknownLine \/ NoLine \/ ButtonDone
  <2>1. RenderStatic(static_queen)
    BY <1>4 DEF SlidingLine, UnknownLine, NoLine, ButtonDone, Frame
  <2> QED
    BY <1>1, <1>2, <2>1, RenderStaticStays
<1>5. CASE \/ SlidingLine /\ ~PushFits(sliding_queen)
           \/ StaticLine /\ ~PushFits(static_queen)
           \/ ButtonLine \/ ButtonClick \/ ResolutionChanges \/ ButtonEvent \/ UNCHANGED vars
  <2>1. UNCHANGED layerVars
    BY <1>5 DEF SlidingLine, StaticLine, ButtonLine, Overruns, ButtonClick,
         ResolutionChanges, ButtonEvent, vars
  <2> QED
    BY <1>1, <2>1, SameStays
<1> QED
  BY <1>3, <1>4, <1>5 DEF Next, RenderOnce

\* A static text keeps its layer for DURATION frames, unless all layers are in use when a
\* later one enters: for any number of layers and any texts.
THEOREM StaticsStay == Spec => StaticStays
<1>1. TextsInvariant /\ [Next]_vars
        => [\A i \in Statics : StaysOrYields(static_layers[i], static_layers'[i])]_vars
  BY NextStays
<1> QED
  BY <1>1, TextsInvariantHolds, PTL DEF Spec, StaticStays
=============================================================================
