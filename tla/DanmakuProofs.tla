---------------------------- MODULE DanmakuProofs ----------------------------
(***************************************************************************)
(* The flat array of queen_t as a FIFO of texts, types, the time a sliding *)
(* text stays, the limit of the queues and their order, for every size of  *)
(* the queues and of the screen.                                           *)
(***************************************************************************)
EXTENDS DanmakuProperties, SequencesExt, TLAPS

-----------------------------------------------------------------------------
(* The array of a queue: what each operation does to the waiting texts.     *)

\* The parts of a queue, and the texts it stands for, are well typed.
LEMMA QueenTyped ==
  ASSUME NEW q \in Queens
  PROVE  /\ q.str \in [Cells -> Texts] /\ q.head \in Nat /\ q.tail \in Nat
         /\ q.head <= q.tail /\ q.tail <= QUEEN_SIZE
         /\ Backlog(q) \in 0 .. QUEEN_SIZE
         /\ \A i \in 1 .. Backlog(q) : q.head + i - 1 \in Cells
         /\ Waiting(q) \in Seq(Texts) /\ Len(Waiting(q)) = Backlog(q)
<1>1. /\ q.str \in [Cells -> Texts] /\ q.head \in 0 .. QUEEN_SIZE
      /\ q.tail \in 0 .. QUEEN_SIZE /\ q.head <= q.tail
  BY DEF Queens
<1>2. Backlog(q) \in 0 .. QUEEN_SIZE /\ \A i \in 1 .. Backlog(q) : q.head + i - 1 \in Cells
  BY <1>1, QueenAssumption DEF Backlog, Cells
<1>3. Waiting(q) \in [1 .. Backlog(q) -> Texts]
  BY <1>1, <1>2 DEF Waiting
<1>4. Waiting(q) \in Seq(Texts) /\ Len(Waiting(q)) = Backlog(q)
  BY <1>2, <1>3
<1> QED
  BY <1>1, <1>2, <1>4, QueenAssumption

\* Two sequences with the same length and elements are the same.
LEMMA SameSeq ==
  ASSUME NEW s \in Seq(Texts), NEW t \in Seq(Texts), Len(s) = Len(t),
         \A i \in 1 .. Len(s) : s[i] = t[i]
  PROVE  s = t
  OBVIOUS

\* The upward copy of ClearQueen keeps the waiting texts and their order.
THEOREM ClearKeepsTexts ==
  ASSUME NEW q \in Queens
  PROVE  ClearQueen(q) \in Queens /\ Waiting(ClearQueen(q)) = Waiting(q)
<1> DEFINE c == ClearQueen(q)
<1>1. /\ q.str \in [Cells -> Texts] /\ q.head \in Nat /\ q.tail \in Nat
      /\ q.head <= q.tail /\ q.tail <= QUEEN_SIZE
      /\ Backlog(q) \in 0 .. QUEEN_SIZE
      /\ \A i \in 1 .. Backlog(q) : q.head + i - 1 \in Cells
      /\ Waiting(q) \in Seq(Texts) /\ Len(Waiting(q)) = Backlog(q)
  BY QueenTyped
<1>2. \A i \in Cells : i < Backlog(q) => q.head + i \in Cells
  BY <1>1, QueenAssumption DEF Backlog, Cells
<1>3. c.str \in [Cells -> Texts]
  BY <1>1, <1>2 DEF ClearQueen
<1>4. c.head = 0 /\ c.tail = Backlog(q) /\ Backlog(c) = Backlog(q)
  BY <1>1 DEF ClearQueen, Backlog
<1>5. c \in Queens
  BY <1>1, <1>3, <1>4, QueenAssumption DEF Queens, ClearQueen
<1>6. \A i \in 1 .. Backlog(q) : Waiting(c)[i] = Waiting(q)[i]
  <2> SUFFICES ASSUME NEW i \in 1 .. Backlog(q) PROVE Waiting(c)[i] = Waiting(q)[i]
    OBVIOUS
  <2>1. i-1 \in Cells /\ i-1 < Backlog(q)
    BY <1>1, QueenAssumption DEF Cells
  <2>2. c.str[i-1] = q.str[q.head + (i-1)]
    BY <2>1 DEF ClearQueen
  <2>3. Waiting(c)[i] = c.str[0 + i - 1] /\ Waiting(q)[i] = q.str[q.head + i - 1]
    BY <1>4 DEF Waiting
  <2> QED
    BY <1>1, <2>2, <2>3
<1>7. Waiting(c) \in Seq(Texts) /\ Len(Waiting(c)) = Backlog(q)
  BY <1>4, <1>5, QueenTyped
<1>8. Waiting(c) = Waiting(q)
  BY <1>1, <1>6, <1>7, SameSeq
<1> QED
  BY <1>5, <1>8

LEMMA SettledKeepsTexts ==
  ASSUME NEW q \in Queens
  PROVE  /\ Settled(q) \in Queens /\ Waiting(Settled(q)) = Waiting(q)
         /\ Backlog(Settled(q)) = Backlog(q)
         /\ Settled(q).tail < QUEEN_SIZE <=> Backlog(q) < QUEEN_SIZE
<1>1. CASE q.tail >= QUEEN_SIZE
  <2>1. Settled(q) = ClearQueen(q)
    BY <1>1 DEF Settled
  <2>2. ClearQueen(q).head = 0 /\ ClearQueen(q).tail = Backlog(q)
    BY DEF ClearQueen
  <2>3. Backlog(q) \in Nat
    BY QueenTyped, QueenAssumption
  <2> QED
    BY <2>1, <2>2, <2>3, ClearKeepsTexts DEF Backlog
<1>2. CASE ~(q.tail >= QUEEN_SIZE)
  <2>1. Settled(q) = q
    BY <1>2 DEF Settled
  <2>2. q.tail < QUEEN_SIZE /\ Backlog(q) < QUEEN_SIZE
    BY <1>2, QueenTyped, QueenAssumption DEF Backlog
  <2> QED
    BY <2>1, <2>2
<1> QED
  BY <1>1, <1>2

\* Push stays in its array exactly when fewer than QUEEN_SIZE texts are waiting: the
\* cells in front of head are never lost.
THEOREM PushFitsUnlessFull ==
  ASSUME NEW q \in Queens
  PROVE  PushFits(q) <=> Len(Waiting(q)) < QUEEN_SIZE
  BY SettledKeepsTexts, QueenTyped DEF PushFits

\* A text that Push can store joins the end, and no other text moves in the order.
THEOREM PushAppends ==
  ASSUME NEW q \in Queens, NEW text \in Texts, PushFits(q)
  PROVE  Push(q, text) \in Queens /\ Waiting(Push(q, text)) = Append(Waiting(q), text)
<1> DEFINE s == Settled(q)
           p == Push(q, text)
<1>1. s \in Queens /\ Waiting(s) = Waiting(q) /\ s.tail < QUEEN_SIZE
  BY SettledKeepsTexts DEF PushFits
<1> HIDE DEF s
<1>2. /\ s.str \in [Cells -> Texts] /\ s.head \in Nat /\ s.tail \in Nat
      /\ s.head <= s.tail /\ Backlog(s) \in 0 .. QUEEN_SIZE
      /\ \A i \in 1 .. Backlog(s) : s.head + i - 1 \in Cells
      /\ Waiting(s) \in Seq(Texts) /\ Len(Waiting(s)) = Backlog(s)
  BY <1>1, QueenTyped
<1>3. p = [s EXCEPT !.str[s.tail] = text, !.tail = s.tail + 1]
  BY DEF Push, s
<1>4. s.tail \in Cells
  BY <1>1, <1>2, QueenAssumption DEF Cells
<1>5. s = [str |-> s.str, head |-> s.head, tail |-> s.tail]
  BY <1>1 DEF Queens
<1>6. p = [str |-> [s.str EXCEPT ![s.tail] = text], head |-> s.head, tail |-> s.tail + 1]
  BY <1>3, <1>5
<1> HIDE DEF p
<1>7. /\ p.str = [s.str EXCEPT ![s.tail] = text] /\ p.head = s.head /\ p.tail = s.tail + 1
  BY <1>6
<1>8. p.str \in [Cells -> Texts]
  BY <1>2, <1>7
<1>9. p \in Queens
  BY <1>1, <1>2, <1>6, <1>7, <1>8, QueenAssumption DEF Queens
<1>10. Backlog(p) = Backlog(s) + 1 /\ Backlog(s) = s.tail - s.head
  BY <1>2, <1>7 DEF Backlog
<1>11. \A i \in 1 .. Backlog(s) : Waiting(p)[i] = Waiting(s)[i]
  <2> SUFFICES ASSUME NEW i \in 1 .. Backlog(s) PROVE Waiting(p)[i] = Waiting(s)[i]
    OBVIOUS
  <2>1. s.head + i - 1 \in Cells /\ s.head + i - 1 # s.tail
    BY <1>2, <1>10
  <2>2. p.str[s.head + i - 1] = s.str[s.head + i - 1]
    BY <1>2, <1>7, <2>1
  <2>3. i \in 1 .. Backlog(p)
    BY <1>2, <1>10
  <2> QED
    BY <1>7, <2>2, <2>3 DEF Waiting
<1>12. Waiting(p)[Backlog(s) + 1] = text
  <2>1. Backlog(s) + 1 \in 1 .. Backlog(p) /\ s.head + (Backlog(s) + 1) - 1 = s.tail
    BY <1>2, <1>10
  <2>2. Waiting(p)[Backlog(s) + 1] = p.str[p.head + (Backlog(s) + 1) - 1]
    BY <2>1 DEF Waiting
  <2> QED
    BY <1>2, <1>4, <1>7, <2>1, <2>2
<1>13. Waiting(p) \in Seq(Texts) /\ Len(Waiting(p)) = Backlog(s) + 1
  BY <1>9, <1>10, QueenTyped
<1>14. Waiting(p) = Append(Waiting(s), text)
  <2> DEFINE t == Append(Waiting(s), text)
  <2>1. t \in Seq(Texts) /\ Len(t) = Backlog(s) + 1
    BY <1>2
  <2>2. \A i \in 1 .. Backlog(s) : t[i] = Waiting(s)[i]
    BY <1>2
  <2>3. t[Backlog(s) + 1] = text
    BY <1>2
  <2> HIDE DEF t
  <2>4. \A i \in 1 .. Len(t) : Waiting(p)[i] = t[i]
    BY <1>2, <1>11, <1>12, <2>1, <2>2, <2>3
  <2>5. Waiting(p) = t
    BY <1>13, <2>1, <2>4, SameSeq
  <2> QED
    BY <2>5 DEF t
<1> QED
  BY <1>1, <1>9, <1>14 DEF p

\* Fetch returns the text that has waited longest, and Pop takes only that one.
THEOREM PopTakesOldest ==
  ASSUME NEW q \in Queens, CanFetch(q)
  PROVE  /\ Waiting(q) # <<>> /\ Fetch(q) = Head(Waiting(q))
         /\ Pop(q) \in Queens /\ Waiting(Pop(q)) = Tail(Waiting(q))
<1> DEFINE p == Pop(q)
<1>1. /\ q.str \in [Cells -> Texts] /\ q.head \in Nat /\ q.tail \in Nat
      /\ q.head <= q.tail /\ q.tail <= QUEEN_SIZE
      /\ Backlog(q) \in 0 .. QUEEN_SIZE
      /\ Waiting(q) \in Seq(Texts) /\ Len(Waiting(q)) = Backlog(q)
  BY QueenTyped
<1>2. Backlog(q) = q.tail - q.head /\ Backlog(q) >= 1
  BY <1>1 DEF Backlog, CanFetch
<1>3. Waiting(q) # <<>> /\ Waiting(q)[1] = q.str[q.head + 1 - 1]
  BY <1>1, <1>2 DEF Waiting
<1>4. Fetch(q) = Head(Waiting(q))
  BY <1>1, <1>3 DEF Fetch
<1>5. q = [str |-> q.str, head |-> q.head, tail |-> q.tail]
  BY DEF Queens
<1>6. p = [str |-> q.str, head |-> q.head + 1, tail |-> q.tail]
  BY <1>1, <1>2, <1>5 DEF Pop
<1> HIDE DEF p
<1>7. p.str = q.str /\ p.head = q.head + 1 /\ p.tail = q.tail
  BY <1>6
<1>8. p \in Queens
  BY <1>1, <1>2, <1>6, QueenAssumption DEF Queens
<1>9. Backlog(p) = Backlog(q) - 1
  BY <1>1, <1>2, <1>7 DEF Backlog
<1>10. Waiting(p) \in Seq(Texts) /\ Len(Waiting(p)) = Backlog(q) - 1
  BY <1>8, <1>9, QueenTyped
<1>11. /\ Tail(Waiting(q)) \in Seq(Texts) /\ Len(Tail(Waiting(q))) = Backlog(q) - 1
       /\ \A i \in 1 .. Backlog(q) - 1 : Tail(Waiting(q))[i] = Waiting(q)[i+1]
  BY <1>1, <1>2, <1>3
<1>12. \A i \in 1 .. Backlog(q) - 1 : Waiting(p)[i] = Waiting(q)[i+1]
  <2> SUFFICES ASSUME NEW i \in 1 .. Backlog(q) - 1 PROVE Waiting(p)[i] = Waiting(q)[i+1]
    OBVIOUS
  <2>1. i \in 1 .. Backlog(p) /\ i+1 \in 1 .. Backlog(q)
    BY <1>1, <1>9
  <2>2. (q.head + 1) + i - 1 = q.head + (i+1) - 1
    BY <1>1
  <2> QED
    BY <1>7, <2>1, <2>2 DEF Waiting
<1>13. Waiting(p) = Tail(Waiting(q))
  BY <1>10, <1>11, <1>12, SameSeq
<1> QED
  BY <1>3, <1>4, <1>8, <1>13 DEF p

-----------------------------------------------------------------------------
(* The invariant of RenderOnce. *)

\* Where a sliding text is after age frames: it started at screen_width, and its
\* speed would take it through the screen and its own width in CYCLE_PER_DANMU frames.
OnPace(s) ==
  s.enable => /\ s.x + s.width >= 0
              /\ s.x + s.width + s.age * s.ppc < CYCLE_PER_DANMU * s.ppc
Pace == \A p \in Places : OnPace(sliding_layers[p])

SlidingLayers ==
  [enable : BOOLEAN, id : 0 .. MaxTexts, x : Int, width : 0 .. MAX_WIDTH, ppc : Nat, age : Nat]
StaticLayers ==
  [enable : BOOLEAN, id : 0 .. MaxTexts, counter : 0 .. DURATION-1, valid_len : 0 .. MAX_WIDTH]

-----------------------------------------------------------------------------
(* The operators on texts and layers. *)

LEMMA ConstantsAre ==
  /\ CYCLE_PER_DANMU \in Nat /\ DURATION \in Nat /\ DURATION >= 1 /\ MAX_WIDTH \in Nat
  /\ MaxTexts \in Nat /\ ClickLines \in Nat /\ 0 \in 0 .. MaxTexts
  BY DanmakuAssumption

LEMMA TextIs ==
  ASSUME NEW t \in Texts
  PROVE  t.id \in 0 .. MaxTexts /\ t.width \in Nat /\ OutWidth(t) \in 0 .. MAX_WIDTH
<1>1. TextWidths \cup {0} \subseteq Nat
  BY DanmakuAssumption
<1>2. Texts = [id : 0 .. MaxTexts, width : TextWidths \cup {0}]
  BY TextsAssumption
<1>3. t.id \in 0 .. MaxTexts /\ t.width \in TextWidths \cup {0}
  BY <1>2
<1>4. t.width \in Nat
  BY <1>1, <1>3
<1> QED
  BY <1>3, <1>4, ConstantsAre DEF OutWidth

LEMMA NoTextIs == NoText \in Texts
<1>1. Texts = [id : 0 .. MaxTexts, width : TextWidths \cup {0}]
  BY TextsAssumption
<1> QED
  BY <1>1, ConstantsAre DEF NoText

\* 1 + n/C pixels a frame make more than n pixels in C frames.
LEMMA RoundsUp ==
  ASSUME NEW C \in Nat \ {0}, NEW n \in Nat
  PROVE  n \div C \in Nat /\ C * (1 + (n \div C)) > n
<1>1. n = C * (n \div C) + (n % C) /\ (n % C) \in 0 .. C-1
  OBVIOUS
<1>2. n \div C \in Nat
  OBVIOUS
<1>3. C * (1 + (n \div C)) = C + C * (n \div C)
  BY <1>2
<1> QED
  BY <1>1, <1>2, <1>3

LEMMA SetIsTyped ==
  ASSUME NEW t \in Texts, screen_width \in ScreenWidths
  PROVE  /\ SlidingSetDanmu(t) \in SlidingLayers /\ OnPace(SlidingSetDanmu(t))
         /\ ForceStaticSetDanmu(t) \in StaticLayers
<1>1. t.id \in 0 .. MaxTexts /\ OutWidth(t) \in 0 .. MAX_WIDTH
  BY TextIs
<1>2. screen_width \in Nat /\ CYCLE_PER_DANMU \in Nat \ {0} /\ DURATION \in Nat \ {0}
      /\ MAX_WIDTH \in Nat
  BY DanmakuAssumption
<1> DEFINE n == OutWidth(t) + screen_width
<1>3. n \in Nat /\ PixelsPerCycle(OutWidth(t)) = 1 + (n \div CYCLE_PER_DANMU)
  BY <1>1, <1>2 DEF PixelsPerCycle
<1> HIDE DEF n
<1>4. /\ PixelsPerCycle(OutWidth(t)) \in Nat
      /\ CYCLE_PER_DANMU * PixelsPerCycle(OutWidth(t)) > n
  BY <1>2, <1>3, RoundsUp
<1>5. SlidingSetDanmu(t) \in SlidingLayers
  BY <1>1, <1>2, <1>4 DEF SlidingSetDanmu, SlidingLayers
<1>6. OnPace(SlidingSetDanmu(t))
  <2>1. 0 * PixelsPerCycle(OutWidth(t)) = 0
    BY <1>4
  <2>2. screen_width + OutWidth(t) = n
    BY <1>1, <1>2 DEF n
  <2> HIDE DEF PixelsPerCycle
  <2>3. screen_width + OutWidth(t) + 0 * PixelsPerCycle(OutWidth(t))
          < CYCLE_PER_DANMU * PixelsPerCycle(OutWidth(t))
    BY <1>3, <1>4, <2>1, <2>2
  <2> QED
    BY <1>1, <1>2, <2>3 DEF OnPace, SlidingSetDanmu
<1>7. ForceStaticSetDanmu(t) \in StaticLayers
  BY <1>1, <1>2 DEF ForceStaticSetDanmu, StaticLayers
<1> QED
  BY <1>5, <1>6, <1>7

LEMMA NextCycleIsTyped ==
  ASSUME NEW s \in SlidingLayers, OnPace(s)
  PROVE  SlidingNextCycle(s) \in SlidingLayers /\ OnPace(SlidingNextCycle(s))
<1> DEFINE m == [s EXCEPT !.x = s.x - s.ppc, !.age = s.age + 1]
<1>1. SlidingOff \in SlidingLayers /\ OnPace(SlidingOff)
  BY ConstantsAre DEF SlidingOff, SlidingLayers, OnPace
<1>2. /\ s.enable \in BOOLEAN /\ s.id \in 0 .. MaxTexts /\ s.x \in Int
      /\ s.width \in 0 .. MAX_WIDTH /\ s.width \in Nat /\ s.ppc \in Nat /\ s.age \in Nat
  BY ConstantsAre DEF SlidingLayers
<1>3. /\ m.enable = s.enable /\ m.x = s.x - s.ppc /\ m.age = s.age + 1
      /\ m.ppc = s.ppc /\ m.width = s.width
  BY DEF SlidingLayers
<1>4. m \in SlidingLayers
  <2>1. s.x - s.ppc \in Int /\ s.age + 1 \in Nat
    BY <1>2
  <2> QED
    BY <2>1 DEF SlidingLayers
<1> HIDE DEF m
<1>5. CASE s.enable /\ ~(m.x < -s.width)
  <2>1. SlidingNextCycle(s) = m
    BY <1>5 DEF SlidingNextCycle, m
  <2>2. (s.age + 1) * s.ppc = s.age * s.ppc + s.ppc
    BY <1>2
  <2>3. /\ s.age * s.ppc \in Nat /\ CYCLE_PER_DANMU * s.ppc \in Nat
    BY <1>2, ConstantsAre
  <2>4. s.x + s.width + s.age * s.ppc < CYCLE_PER_DANMU * s.ppc
    BY <1>5 DEF OnPace
  <2>5. (s.x - s.ppc) + s.width + (s.age + 1) * s.ppc < CYCLE_PER_DANMU * s.ppc
    BY <1>2, <2>2, <2>3, <2>4
  <2>6. OnPace(m)
    BY <1>2, <1>5, <1>3, <2>5 DEF OnPace
  <2> QED
    BY <1>4, <2>1, <2>6
<1>6. CASE ~s.enable \/ m.x < -s.width
  <2>1. SlidingNextCycle(s) = SlidingOff
    BY <1>6 DEF SlidingNextCycle, m
  <2> QED
    BY <1>1, <2>1
<1> QED
  BY <1>5, <1>6

LEMMA StaticNextIsTyped ==
  ASSUME NEW s \in StaticLayers
  PROVE  StaticNextCycle(s) \in StaticLayers
<1>1. StaticOff \in StaticLayers
  BY ConstantsAre DEF StaticOff, StaticLayers
<1>2. CASE ~s.enable \/ s.counter + 1 >= DURATION
  BY <1>1, <1>2 DEF StaticNextCycle
<1>3. CASE ~(~s.enable \/ s.counter + 1 >= DURATION)
  <2>1. StaticNextCycle(s) = [s EXCEPT !.counter = s.counter + 1]
    BY <1>3 DEF StaticNextCycle
  <2>2. s.counter + 1 \in 0 .. DURATION-1
    BY <1>3, ConstantsAre DEF StaticLayers
  <2> QED
    BY <2>1, <2>2 DEF StaticLayers
<1> QED
  BY <1>2, <1>3

-----------------------------------------------------------------------------
(* The two halves of a frame, for a well-typed queue. *)

SlidingOK ==
  /\ sliding_queen \in Queens /\ sliding_latest \in Texts
  /\ sliding_layers \in [Places -> SlidingLayers] /\ Pace
StaticOK ==
  /\ static_queen \in Queens /\ static_latest \in Texts
  /\ static_layers \in [Statics -> StaticLayers]

LEMMA FetchIsText ==
  ASSUME NEW q \in Queens, CanFetch(q)
  PROVE  Fetch(q) \in Texts /\ Pop(q) \in Queens
<1>1. Waiting(q) \in Seq(Texts) /\ Waiting(q) # <<>> /\ Fetch(q) = Head(Waiting(q))
      /\ Pop(q) \in Queens
  BY QueenTyped, PopTakesOldest
<1> QED
  BY <1>1

LEMMA RenderSlidingTyped ==
  ASSUME SlidingOK, screen_width \in ScreenWidths, NEW q \in Queens, RenderSliding(q)
  PROVE  SlidingOK'
<1>1. CASE CanFetch(q) /\ FreePlaces # {}
  <2> DEFINE L(p) == IF p = FirstFree THEN SlidingSetDanmu(Fetch(q)) ELSE sliding_layers[p]
  <2>1. Fetch(q) \in Texts /\ Pop(q) \in Queens
    BY <1>1, FetchIsText
  <2>2. \A p \in Places : L(p) \in SlidingLayers /\ OnPace(L(p))
    BY <2>1, SetIsTyped DEF SlidingOK, Pace
  <2>3. /\ sliding_layers' = [p \in Places |-> SlidingNextCycle(L(p))]
        /\ sliding_queen' = Pop(q) /\ sliding_latest' = Fetch(q)
    BY <1>1 DEF RenderSliding
  <2> HIDE DEF L
  <2>4. \A p \in Places : /\ SlidingNextCycle(L(p)) \in SlidingLayers
                          /\ OnPace(SlidingNextCycle(L(p)))
    BY <2>2, NextCycleIsTyped
  <2>5. sliding_layers' \in [Places -> SlidingLayers]
    BY <2>3, <2>4
  <2>6. \A p \in Places : OnPace(sliding_layers'[p])
    BY <2>3, <2>4
  <2>7. Pace'
    BY <2>6 DEF Pace, OnPace
  <2> QED
    BY <2>1, <2>3, <2>5, <2>7 DEF SlidingOK
<1>2. CASE ~(CanFetch(q) /\ FreePlaces # {})
  <2>1. /\ sliding_layers' = [p \in Places |-> SlidingNextCycle(sliding_layers[p])]
        /\ sliding_queen' = q /\ sliding_latest' = sliding_latest
    BY <1>2 DEF RenderSliding
  <2>2. \A p \in Places : /\ SlidingNextCycle(sliding_layers[p]) \in SlidingLayers
                          /\ OnPace(SlidingNextCycle(sliding_layers[p]))
    BY NextCycleIsTyped DEF SlidingOK, Pace
  <2>3. sliding_layers' \in [Places -> SlidingLayers]
    BY <2>1, <2>2
  <2>4. \A p \in Places : OnPace(sliding_layers'[p])
    BY <2>1, <2>2
  <2>5. Pace'
    BY <2>4 DEF Pace, OnPace
  <2> QED
    BY <2>1, <2>3, <2>5 DEF SlidingOK
<1> QED
  BY <1>1, <1>2

LEMMA RenderStaticTyped ==
  ASSUME StaticOK, screen_width \in ScreenWidths, NEW q \in Queens, RenderStatic(q)
  PROVE  StaticOK'
<1>1. CASE CanFetch(q)
  <2>1. Fetch(q) \in Texts /\ Pop(q) \in Queens
    BY <1>1, FetchIsText
  <2>2. PICK c \in StaticChoices :
          static_layers' =
            [i \in Statics |-> StaticNextCycle(IF i = c THEN ForceStaticSetDanmu(Fetch(q))
                                               ELSE static_layers[i])]
    BY <1>1 DEF RenderStatic
  <2> DEFINE L(i) == IF i = c THEN ForceStaticSetDanmu(Fetch(q)) ELSE static_layers[i]
  <2>3. \A i \in Statics : L(i) \in StaticLayers
    BY <2>1, SetIsTyped DEF StaticOK
  <2>4. static_layers' = [i \in Statics |-> StaticNextCycle(L(i))]
    BY <2>2
  <2> HIDE DEF L
  <2>5. static_layers' \in [Statics -> StaticLayers]
    BY <2>3, <2>4, StaticNextIsTyped
  <2>6. static_queen' = Pop(q) /\ static_latest' = Fetch(q)
    BY <1>1 DEF RenderStatic
  <2> QED
    BY <2>1, <2>5, <2>6 DEF StaticOK
<1>2. CASE ~CanFetch(q)
  <2>1. /\ static_layers' = [i \in Statics |-> StaticNextCycle(static_layers[i])]
        /\ static_queen' = q /\ static_latest' = static_latest
    BY <1>2 DEF RenderStatic
  <2>2. static_layers' \in [Statics -> StaticLayers]
    BY <2>1, StaticNextIsTyped DEF StaticOK
  <2> QED
    BY <2>1, <2>2 DEF StaticOK
<1> QED
  BY <1>1, <1>2

-----------------------------------------------------------------------------
(* The inductive invariant. *)

DanmakuInvariant ==
  /\ SlidingOK /\ StaticOK
  /\ screen_width \in ScreenWidths
  /\ button_ip_click \in BOOLEAN /\ firsttime \in BOOLEAN /\ overrun \in BOOLEAN
  /\ phase \in {"fgets", "button"} /\ lines \in 0 .. ClickLines
  /\ read \in 0 .. MaxTexts

LEMMA InitInvariant == Init => DanmakuInvariant
<1> SUFFICES ASSUME Init PROVE DanmakuInvariant
  OBVIOUS
<1>1. InitQueen([i \in Cells |-> NoText]) \in Queens
  BY NoTextIs, QueenAssumption DEF InitQueen, Queens
<1>2. SlidingOff \in SlidingLayers /\ OnPace(SlidingOff) /\ StaticOff \in StaticLayers
  BY ConstantsAre DEF SlidingOff, SlidingLayers, OnPace, StaticOff, StaticLayers
<1>3. SlidingOK
  BY <1>1, <1>2, NoTextIs DEF Init, SlidingOK, Pace
<1>4. StaticOK
  BY <1>1, <1>2, NoTextIs DEF Init, StaticOK
<1>5. lines \in 0 .. ClickLines /\ read \in 0 .. MaxTexts
  BY ConstantsAre DEF Init
<1>6. /\ screen_width \in ScreenWidths
      /\ button_ip_click \in BOOLEAN /\ firsttime \in BOOLEAN /\ overrun \in BOOLEAN
      /\ phase \in {"fgets", "button"}
  BY DEF Init
<1> QED
  BY <1>3, <1>4, <1>5, <1>6 DEF DanmakuInvariant

LEMMA FrameTyped ==
  ASSUME DanmakuInvariant, NEW q \in Queens, NEW t \in Queens, Frame(q, t)
  PROVE  /\ SlidingOK' /\ StaticOK' /\ screen_width' \in ScreenWidths
         /\ firsttime' \in BOOLEAN /\ overrun' \in BOOLEAN
         /\ phase' \in {"fgets", "button"} /\ lines' \in 0 .. ClickLines
<1>1. /\ SlidingOK /\ StaticOK /\ screen_width \in ScreenWidths
      /\ firsttime \in BOOLEAN /\ overrun \in BOOLEAN
  BY DEF DanmakuInvariant
<1>2. SlidingOK' /\ StaticOK'
  BY <1>1, RenderSlidingTyped, RenderStaticTyped DEF Frame
<1> QED
  BY <1>1, <1>2, ConstantsAre DEF Frame

LEMMA NewTextIs ==
  ASSUME read \in 0 .. MaxTexts, read < MaxTexts
  PROVE  NewTexts \subseteq Texts /\ read + 1 \in 0 .. MaxTexts
<1>1. read + 1 \in 0 .. MaxTexts
  BY ConstantsAre
<1> QED
  BY <1>1, TextsAssumption DEF NewTexts

\* An overrun changes nothing else.
LEMMA OverrunsTyped ==
  ASSUME DanmakuInvariant, Overruns, button_ip_click' \in BOOLEAN
  PROVE  DanmakuInvariant'
<1>1. /\ SlidingOK' /\ StaticOK' /\ screen_width' \in ScreenWidths
      /\ firsttime' \in BOOLEAN /\ overrun' \in BOOLEAN
      /\ phase' \in {"fgets", "button"} /\ lines' \in 0 .. ClickLines /\ read' \in 0 .. MaxTexts
  BY DEF DanmakuInvariant, Overruns, layerVars, SlidingOK, StaticOK, Pace, OnPace
<1> QED
  BY <1>1 DEF DanmakuInvariant

LEMMA NextInvariant == DanmakuInvariant /\ [Next]_vars => DanmakuInvariant'
<1> SUFFICES ASSUME DanmakuInvariant, [Next]_vars PROVE DanmakuInvariant'
  OBVIOUS
<1>1. /\ SlidingOK /\ StaticOK /\ sliding_queen \in Queens /\ static_queen \in Queens
      /\ screen_width \in ScreenWidths
      /\ button_ip_click \in BOOLEAN /\ firsttime \in BOOLEAN /\ overrun \in BOOLEAN
      /\ phase \in {"fgets", "button"} /\ lines \in 0 .. ClickLines
      /\ read \in 0 .. MaxTexts
  BY DEF DanmakuInvariant, SlidingOK, StaticOK
<1>2. CASE SlidingLine
  <2>1. CASE PushFits(sliding_queen)
    <3>1. PICK text \in NewTexts : Frame(Push(sliding_queen, text), static_queen)
      BY <1>2, <2>1 DEF SlidingLine
    <3>2. Push(sliding_queen, text) \in Queens
      BY <1>1, <1>2, <2>1, <3>1, NewTextIs, PushAppends DEF SlidingLine
    <3>3. read' \in 0 .. MaxTexts /\ button_ip_click' \in BOOLEAN
      BY <1>1, <1>2, <2>1, NewTextIs DEF SlidingLine
    <3> QED
      BY <1>1, <3>1, <3>2, <3>3, FrameTyped DEF DanmakuInvariant
  <2>2. CASE ~PushFits(sliding_queen)
    BY <1>1, <1>2, <2>2, OverrunsTyped DEF SlidingLine
  <2> QED
    BY <2>1, <2>2
<1>3. CASE StaticLine
  <2>1. CASE PushFits(static_queen)
    <3>1. PICK text \in NewTexts : Frame(sliding_queen, Push(static_queen, text))
      BY <1>3, <2>1 DEF StaticLine
    <3>2. Push(static_queen, text) \in Queens
      BY <1>1, <1>3, <2>1, <3>1, NewTextIs, PushAppends DEF StaticLine
    <3>3. read' \in 0 .. MaxTexts /\ button_ip_click' \in BOOLEAN
      BY <1>1, <1>3, <2>1, NewTextIs DEF StaticLine
    <3> QED
      BY <1>1, <3>1, <3>2, <3>3, FrameTyped DEF DanmakuInvariant
  <2>2. CASE ~PushFits(static_queen)
    BY <1>1, <1>3, <2>2, OverrunsTyped DEF StaticLine
  <2> QED
    BY <2>1, <2>2
<1>4. CASE UnknownLine
  BY <1>1, <1>4, FrameTyped DEF DanmakuInvariant, UnknownLine
<1>5. CASE NoLine
  BY <1>1, <1>5, FrameTyped DEF DanmakuInvariant, NoLine
<1>6. CASE ButtonClick
  <2>1. SlidingOK' /\ StaticOK'
    BY <1>1, <1>6 DEF ButtonClick, layerVars, SlidingOK, StaticOK, Pace, OnPace
  <2> QED
    BY <1>1, <1>6, <2>1 DEF DanmakuInvariant, ButtonClick
<1>7. CASE ButtonLine
  <2>1. CASE PushFits(static_queen)
    <3>1. PICK text \in NewTexts : static_queen' = Push(static_queen, text)
      BY <1>7, <2>1 DEF ButtonLine
    <3>2. static_queen' \in Queens
      BY <1>1, <1>7, <2>1, <3>1, NewTextIs, PushAppends DEF ButtonLine
    <3>3. read' \in 0 .. MaxTexts /\ lines' \in 0 .. ClickLines
      BY <1>1, <1>7, <2>1, NewTextIs, ConstantsAre DEF ButtonLine
    <3>4. SlidingOK' /\ StaticOK'
      BY <1>1, <1>7, <2>1, <3>2 DEF ButtonLine, layerVars, SlidingOK, StaticOK, Pace, OnPace
    <3> QED
      BY <1>1, <1>7, <2>1, <3>3, <3>4 DEF DanmakuInvariant, ButtonLine
  <2>2. CASE ~PushFits(static_queen)
    BY <1>1, <1>7, <2>2, OverrunsTyped DEF ButtonLine
  <2> QED
    BY <2>1, <2>2
<1>8. CASE ButtonDone
  BY <1>1, <1>8, FrameTyped DEF DanmakuInvariant, ButtonDone
<1>9. CASE ResolutionChanges
  <2>1. SlidingOK' /\ StaticOK'
    BY <1>1, <1>9 DEF ResolutionChanges, layerVars, SlidingOK, StaticOK, Pace, OnPace
  <2> QED
    BY <1>1, <1>9, <2>1 DEF DanmakuInvariant, ResolutionChanges
<1>10. CASE ButtonEvent
  <2>1. SlidingOK' /\ StaticOK'
    BY <1>1, <1>10 DEF ButtonEvent, layerVars, SlidingOK, StaticOK, Pace, OnPace
  <2>2. button_ip_click' \in BOOLEAN /\ firsttime' \in BOOLEAN
    BY <1>10 DEF ButtonEvent
  <2> QED
    BY <1>1, <1>10, <2>1, <2>2 DEF DanmakuInvariant, ButtonEvent
<1>11. CASE UNCHANGED vars
  <2>1. SlidingOK' /\ StaticOK'
    BY <1>1, <1>11 DEF vars, layerVars, SlidingOK, StaticOK, Pace, OnPace
  <2> QED
    BY <1>1, <1>11, <2>1 DEF DanmakuInvariant, vars
<1> QED
  BY <1>2, <1>3, <1>4, <1>5, <1>6, <1>7, <1>8, <1>9, <1>10, <1>11 DEF Next, RenderOnce

-----------------------------------------------------------------------------
(* The theorems. *)

\* The types and the pace of the sliding texts hold in every reachable state.
THEOREM InvariantHolds == Spec => []DanmakuInvariant
  BY InitInvariant, NextInvariant, PTL DEF Spec

\* Queues, layers and counters keep their types; in particular a queue that has not
\* overrun keeps 0 <= head <= tail <= QUEEN_SIZE.
THEOREM TypeCorrect == Spec => []TypeOK
<1>1. DanmakuInvariant => TypeOK
  BY DEF DanmakuInvariant, SlidingOK, StaticOK, SlidingLayers, StaticLayers, TypeOK
<1> QED
  BY <1>1, InvariantHolds, PTL

\* The speed SlidingSetDanmu computes takes a text off any screen within
\* CYCLE_PER_DANMU frames, for every width of text and screen.
THEOREM SlidingGone == Spec => []GoneInTime
<1>1. DanmakuInvariant => GoneInTime
  <2> SUFFICES ASSUME DanmakuInvariant, NEW p \in Sliding
               PROVE  sliding_layers[p].age < CYCLE_PER_DANMU
    BY DEF GoneInTime
  <2> DEFINE s == sliding_layers[p]
  <2>1. s \in SlidingLayers /\ s.enable /\ OnPace(s)
    BY DEF DanmakuInvariant, SlidingOK, Pace, Sliding
  <2> HIDE DEF s
  <2>2. s.x \in Int /\ s.width \in Nat /\ s.ppc \in Nat /\ s.age \in Nat
    BY <2>1, ConstantsAre DEF SlidingLayers
  <2>3. s.x + s.width >= 0 /\ s.x + s.width + s.age * s.ppc < CYCLE_PER_DANMU * s.ppc
    BY <2>1 DEF OnPace
  <2>4. s.age * s.ppc \in Nat /\ CYCLE_PER_DANMU * s.ppc \in Nat
    BY <2>2, ConstantsAre
  <2>5. s.age * s.ppc < CYCLE_PER_DANMU * s.ppc
    BY <2>2, <2>3, <2>4
  <2>6. s.age < CYCLE_PER_DANMU
    BY <2>2, <2>5, ConstantsAre
  <2> QED
    BY <2>6 DEF s
<1> QED
  BY <1>1, InvariantHolds, PTL

\* A Push leaves its array only when QUEEN_SIZE texts are waiting.
THEOREM OverrunsWhenFull == Spec => OverrunOnlyFull
<1> DEFINE Full == Backlog(sliding_queen) = QUEEN_SIZE \/ Backlog(static_queen) = QUEEN_SIZE
<1>1. ASSUME NEW q \in Queens, ~PushFits(q)
      PROVE  Backlog(q) = QUEEN_SIZE
  BY <1>1, PushFitsUnlessFull, QueenTyped, QueenAssumption
<1>2. DanmakuInvariant /\ [Next]_vars => [overrun' => Full]_vars
  <2> SUFFICES ASSUME DanmakuInvariant, Next, overrun' PROVE Full
    OBVIOUS
  <2>1. sliding_queen \in Queens /\ static_queen \in Queens
    BY DEF DanmakuInvariant, SlidingOK, StaticOK
  <2>2. CASE SlidingLine
    BY <1>1, <2>1, <2>2 DEF SlidingLine, Fgets, Frame
  <2>3. CASE StaticLine
    BY <1>1, <2>1, <2>3 DEF StaticLine, Fgets, Frame
  <2>4. CASE ButtonLine
    BY <1>1, <2>1, <2>4 DEF ButtonLine
  <2>5. CASE UnknownLine \/ NoLine \/ ButtonClick \/ ButtonDone
    BY <2>5 DEF UnknownLine, NoLine, ButtonClick, ButtonDone, Fgets, Frame
  <2>6. CASE ResolutionChanges \/ ButtonEvent
    BY <2>6 DEF ResolutionChanges, ButtonEvent, Fgets
  <2> QED
    BY <2>2, <2>3, <2>4, <2>5, <2>6 DEF Next, RenderOnce
<1> QED
  BY <1>2, InvariantHolds, PTL DEF Spec, OverrunOnlyFull

-----------------------------------------------------------------------------
(* The sliding queue and its layers implement a FIFO of texts. *)

LEMMA PrefixOfItself ==
  ASSUME NEW w \in Seq(Texts)
  PROVE  IsPrefix(w, w)
  BY DEF IsPrefix

LEMMA PrefixOfAppend ==
  ASSUME NEW w \in Seq(Texts), NEW t \in Texts
  PROVE  IsPrefix(w, Append(w, t))
<1>1. Append(w, t) \in Seq(Texts) /\ Len(Append(w, t)) = Len(w) + 1
  OBVIOUS
<1>2. SubSeq(w, 1, Len(w)) = SubSeq(Append(w, t), 1, Len(w))
  OBVIOUS
<1> QED
  BY <1>1, <1>2 DEF IsPrefix

LEMMA HeadAndTail ==
  ASSUME NEW w \in Seq(Texts), w # <<>>
  PROVE  <<Head(w)>> \o Tail(w) = w
  OBVIOUS

\* Whatever joined the queue before the layers are filled, the frame shows the oldest.
LEMMA RenderSlidingShows ==
  ASSUME NEW q \in Queens, IsPrefix(Waiting(sliding_queen), Waiting(q)), RenderSliding(q)
  PROVE  SlidingQueue!FifoNext
<1>1. Waiting(q) \in Seq(Texts)
  BY QueenTyped
<1>2. CASE CanFetch(q) /\ FreePlaces # {}
  <2>1. sliding_queen' = Pop(q) /\ sliding_latest' = Fetch(q)
    BY <1>2 DEF RenderSliding
  <2>2. /\ Waiting(q) # <<>> /\ Fetch(q) = Head(Waiting(q))
        /\ Waiting(Pop(q)) = Tail(Waiting(q))
    BY <1>2, PopTakesOldest
  <2>3. <<Fetch(q)>> \o Waiting(Pop(q)) = Waiting(q)
    BY <1>1, <2>2, HeadAndTail
  <2>4. Waiting(sliding_queen)' = Waiting(Pop(q))
    BY <2>1 DEF Waiting, Backlog
  <2> QED
    BY <2>1, <2>3, <2>4 DEF SlidingQueue!FifoNext, SlidingQueue!Show, IsPrefix, SlidingQueue!IsPrefix
<1>3. CASE ~(CanFetch(q) /\ FreePlaces # {})
  <2>1. sliding_queen' = q /\ sliding_latest' = sliding_latest
    BY <1>3 DEF RenderSliding
  <2>2. Waiting(sliding_queen)' = Waiting(q)
    BY <2>1 DEF Waiting, Backlog
  <2> QED
    BY <2>1, <2>2 DEF SlidingQueue!FifoNext, SlidingQueue!Join, IsPrefix, SlidingQueue!IsPrefix
<1> QED
  BY <1>2, <1>3

\* Sliding texts enter the screen in the order they were sent, none lost or doubled.
THEOREM SlidingInOrder == Spec => SlidingIsFifo
<1>1. Init => SlidingQueue!FifoInit
  <2> SUFFICES ASSUME Init PROVE Waiting(sliding_queen) = <<>> /\ sliding_latest = NoText
    BY DEF SlidingQueue!FifoInit
  <2>1. Backlog(sliding_queen) = 0
    BY DEF Init, InitQueen, Backlog
  <2> QED
    BY <2>1 DEF Init, Waiting
<1>2. DanmakuInvariant /\ [Next]_vars =>
        [SlidingQueue!FifoNext]_<<Waiting(sliding_queen), sliding_latest>>
  <2> SUFFICES ASSUME DanmakuInvariant, [Next]_vars
               PROVE  \/ SlidingQueue!FifoNext
                      \/ /\ Waiting(sliding_queen)' = Waiting(sliding_queen)
                         /\ sliding_latest' = sliding_latest
    OBVIOUS
  <2>1. sliding_queen \in Queens /\ Waiting(sliding_queen) \in Seq(Texts)
        /\ read \in 0 .. MaxTexts
    BY QueenTyped DEF DanmakuInvariant, SlidingOK
  <2>2. CASE SlidingLine /\ PushFits(sliding_queen)
    <3>1. PICK text \in NewTexts : Frame(Push(sliding_queen, text), static_queen)
      BY <2>2 DEF SlidingLine
    <3>2. text \in Texts
      BY <2>1, <2>2, NewTextIs DEF SlidingLine
    <3>3. /\ Push(sliding_queen, text) \in Queens
          /\ Waiting(Push(sliding_queen, text)) = Append(Waiting(sliding_queen), text)
      BY <2>1, <2>2, <3>2, PushAppends
    <3>4. IsPrefix(Waiting(sliding_queen), Waiting(Push(sliding_queen, text)))
      BY <2>1, <3>2, <3>3, PrefixOfAppend
    <3> QED
      BY <3>1, <3>3, <3>4, RenderSlidingShows DEF Frame
  <2>3. CASE StaticLine /\ PushFits(static_queen)
    <3>1. PICK text \in NewTexts : Frame(sliding_queen, Push(static_queen, text))
      BY <2>3 DEF StaticLine
    <3>2. RenderSliding(sliding_queen)
      BY <3>1 DEF Frame
    <3> QED
      BY <2>1, <3>2, PrefixOfItself, RenderSlidingShows
  <2>4. CASE UnknownLine \/ NoLine \/ ButtonDone
    <3>1. RenderSliding(sliding_queen)
      BY <2>4 DEF UnknownLine, NoLine, ButtonDone, Frame
    <3> QED
      BY <2>1, <3>1, PrefixOfItself, RenderSlidingShows
  <2>5. ASSUME sliding_queen' = sliding_queen, sliding_latest' = sliding_latest
        PROVE  /\ Waiting(sliding_queen)' = Waiting(sliding_queen)
               /\ sliding_latest' = sliding_latest
    BY <2>5 DEF Waiting, Backlog
  <2>6. CASE \/ SlidingLine /\ ~PushFits(sliding_queen)
             \/ StaticLine /\ ~PushFits(static_queen)
    BY <2>5, <2>6 DEF SlidingLine, StaticLine, Overruns, layerVars
  <2>7. CASE ButtonClick \/ ButtonLine
    BY <2>5, <2>7 DEF ButtonClick, ButtonLine, Overruns, layerVars
  <2>8. CASE ResolutionChanges \/ ButtonEvent \/ UNCHANGED vars
    BY <2>5, <2>8 DEF ResolutionChanges, ButtonEvent, vars, layerVars
  <2> QED
    BY <2>2, <2>3, <2>4, <2>6, <2>7, <2>8 DEF Next, RenderOnce
<1> QED
  BY <1>1, <1>2, InvariantHolds, PTL DEF Spec, SlidingIsFifo, SlidingQueue!FifoSpec

-----------------------------------------------------------------------------
(* So do the static queue and its layers. *)

LEMMA RenderStaticShows ==
  ASSUME NEW q \in Queens, IsPrefix(Waiting(static_queen), Waiting(q)), RenderStatic(q)
  PROVE  StaticQueue!FifoNext
<1>1. Waiting(q) \in Seq(Texts)
  BY QueenTyped
<1>2. CASE CanFetch(q)
  <2>1. static_queen' = Pop(q) /\ static_latest' = Fetch(q)
    BY <1>2 DEF RenderStatic
  <2>2. /\ Waiting(q) # <<>> /\ Fetch(q) = Head(Waiting(q))
        /\ Waiting(Pop(q)) = Tail(Waiting(q))
    BY <1>2, PopTakesOldest
  <2>3. <<Fetch(q)>> \o Waiting(Pop(q)) = Waiting(q)
    BY <1>1, <2>2, HeadAndTail
  <2>4. Waiting(static_queen)' = Waiting(Pop(q))
    BY <2>1 DEF Waiting, Backlog
  <2> QED
    BY <2>1, <2>3, <2>4 DEF StaticQueue!FifoNext, StaticQueue!Show, IsPrefix, StaticQueue!IsPrefix
<1>3. CASE ~CanFetch(q)
  <2>1. static_queen' = q /\ static_latest' = static_latest
    BY <1>3 DEF RenderStatic
  <2>2. Waiting(static_queen)' = Waiting(q)
    BY <2>1 DEF Waiting, Backlog
  <2> QED
    BY <2>1, <2>2 DEF StaticQueue!FifoNext, StaticQueue!Join, IsPrefix, StaticQueue!IsPrefix
<1> QED
  BY <1>2, <1>3

\* Static texts, those of the network's lines included, are shown in the order they
\* joined the queue, none lost or doubled before it is shown.
THEOREM StaticInOrder == Spec => StaticIsFifo
<1>1. Init => StaticQueue!FifoInit
  <2> SUFFICES ASSUME Init PROVE Waiting(static_queen) = <<>> /\ static_latest = NoText
    BY DEF StaticQueue!FifoInit
  <2>1. Backlog(static_queen) = 0
    BY DEF Init, InitQueen, Backlog
  <2> QED
    BY <2>1 DEF Init, Waiting
<1>2. DanmakuInvariant /\ [Next]_vars =>
        [StaticQueue!FifoNext]_<<Waiting(static_queen), static_latest>>
  <2> SUFFICES ASSUME DanmakuInvariant, [Next]_vars
               PROVE  \/ StaticQueue!FifoNext
                      \/ /\ Waiting(static_queen)' = Waiting(static_queen)
                         /\ static_latest' = static_latest
    OBVIOUS
  <2>1. static_queen \in Queens /\ Waiting(static_queen) \in Seq(Texts)
        /\ read \in 0 .. MaxTexts
    BY QueenTyped DEF DanmakuInvariant, StaticOK
  <2>2. ASSUME PushFits(static_queen), read < MaxTexts, NEW text \in NewTexts
        PROVE  /\ Push(static_queen, text) \in Queens
               /\ IsPrefix(Waiting(static_queen), Waiting(Push(static_queen, text)))
    <3>1. text \in Texts
      BY <2>1, <2>2, NewTextIs
    <3>2. /\ Push(static_queen, text) \in Queens
          /\ Waiting(Push(static_queen, text)) = Append(Waiting(static_queen), text)
      BY <2>1, <2>2, <3>1, PushAppends
    <3> QED
      BY <2>1, <3>1, <3>2, PrefixOfAppend
  <2>3. CASE StaticLine /\ PushFits(static_queen)
    <3>1. PICK text \in NewTexts : Frame(sliding_queen, Push(static_queen, text))
      BY <2>3 DEF StaticLine
    <3>2. RenderStatic(Push(static_queen, text))
      BY <3>1 DEF Frame
    <3> QED
      BY <2>2, <2>3, <3>2, RenderStaticShows DEF StaticLine
  <2>4. CASE SlidingLine /\ PushFits(sliding_queen)
    <3>1. PICK text \in NewTexts : Frame(Push(sliding_queen, text), static_queen)
      BY <2>4 DEF SlidingLine
    <3>2. RenderStatic(static_queen)
      BY <3>1 DEF Frame
    <3> QED
      BY <2>1, <3>2, PrefixOfItself, RenderStaticShows
  <2>5. CASE UnknownLine \/ NoLine \/ ButtonDone
    <3>1. RenderStatic(static_queen)
      BY <2>5 DEF UnknownLine, NoLine, ButtonDone, Frame
    <3> QED
      BY <2>1, <3>1, PrefixOfItself, RenderStaticShows
  <2>6. CASE ButtonLine /\ PushFits(static_queen)
    <3>1. PICK text \in NewTexts : static_queen' = Push(static_queen, text)
      BY <2>6 DEF ButtonLine
    <3>2. Waiting(static_queen)' = Waiting(Push(static_queen, text))
      BY <3>1 DEF Waiting, Backlog
    <3>3. IsPrefix(Waiting(static_queen), Waiting(static_queen)')
      BY <2>2, <2>6, <3>2 DEF ButtonLine
    <3>4. static_latest' = static_latest
      BY <2>6 DEF ButtonLine, layerVars
    <3> QED
      BY <3>3, <3>4 DEF StaticQueue!FifoNext, StaticQueue!Join, IsPrefix, StaticQueue!IsPrefix
  <2>7. ASSUME static_queen' = static_queen, static_latest' = static_latest
        PROVE  /\ Waiting(static_queen)' = Waiting(static_queen)
               /\ static_latest' = static_latest
    BY <2>7 DEF Waiting, Backlog
  <2>8. CASE \/ SlidingLine /\ ~PushFits(sliding_queen)
             \/ StaticLine /\ ~PushFits(static_queen)
             \/ ButtonLine /\ ~PushFits(static_queen)
    BY <2>7, <2>8 DEF SlidingLine, StaticLine, ButtonLine, Overruns, layerVars
  <2>9. CASE ButtonClick \/ ResolutionChanges \/ ButtonEvent \/ UNCHANGED vars
    BY <2>7, <2>9 DEF ButtonClick, ResolutionChanges, ButtonEvent, vars, layerVars
  <2> QED
    BY <2>3, <2>4, <2>5, <2>6, <2>8, <2>9 DEF Next, RenderOnce
<1> QED
  BY <1>1, <1>2, InvariantHolds, PTL DEF Spec, StaticIsFifo, StaticQueue!FifoSpec
=============================================================================
