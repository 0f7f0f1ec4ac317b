--------------------------- MODULE PipelineProofs ---------------------------
(***************************************************************************)
(* The safety of the frame pipeline, for every number of buffers, DMA      *)
(* depth, mode set and number of sessions.                                 *)
(***************************************************************************)
EXTENDS PipelineInv, TLAPS

-----------------------------------------------------------------------------
(* The slots of the ring. *)

\* Where the pointer arithmetic of ring.c wraps.
LEMMA AfterIs ==
  ASSUME NEW i \in Slots
  PROVE  After(i) \in Slots /\ After(i) = IF i = N-1 THEN 0 ELSE i+1
  BY NAssumption DEF After, Slots

LEMMA SizeIs ==
  ASSUME NEW r \in Slots, NEW w \in Slots
  PROVE  /\ Size(r, w) \in 0 .. N-1
         /\ Size(r, w) = IF w >= r THEN w - r ELSE w - r + N
         /\ Size(r, w) = 0 <=> r = w
<1>1. Size(r, w) = IF w >= r THEN w - r ELSE w - r + N
  BY NAssumption DEF Size, Slots
<1> QED
  BY <1>1, NAssumption DEF Slots

LEMMA SlotAtIs ==
  ASSUME NEW r \in Slots, NEW i \in 1 .. N
  PROVE  /\ SlotAt(r, i) \in Slots
         /\ SlotAt(r, i) = IF r + i - 1 < N THEN r + i - 1 ELSE r + i - 1 - N
  BY NAssumption DEF SlotAt, Slots

\* CommitBuffer adds one to RingSize, and its assert holds, when the ring has room.
LEMMA SizeAfterCommit ==
  ASSUME NEW r \in Slots, NEW w \in Slots, Size(r, w) <= N-2
  PROVE  Size(r, After(w)) = Size(r, w) + 1 /\ After(w) # r
<1>1. After(w) \in Slots /\ After(w) = IF w = N-1 THEN 0 ELSE w+1
  BY AfterIs
<1>2. Size(r, w) = IF w >= r THEN w - r ELSE w - r + N
  BY SizeIs
<1>3. Size(r, After(w)) = IF After(w) >= r THEN After(w) - r ELSE After(w) - r + N
  BY <1>1, SizeIs
<1> QED
  BY <1>1, <1>2, <1>3, NAssumption DEF Slots

\* ReleaseBuffer takes one from RingSize.
LEMMA SizeAfterRelease ==
  ASSUME NEW r \in Slots, NEW w \in Slots, r # w
  PROVE  Size(After(r), w) = Size(r, w) - 1
<1>1. After(r) \in Slots /\ After(r) = IF r = N-1 THEN 0 ELSE r+1
  BY AfterIs
<1>2. Size(r, w) = IF w >= r THEN w - r ELSE w - r + N
  BY SizeIs
<1>3. Size(After(r), w) = IF w >= After(r) THEN w - After(r) ELSE w - After(r) + N
  BY <1>1, SizeIs
<1> QED
  BY <1>1, <1>2, <1>3, NAssumption DEF Slots

\* The filled slots are slots; the one to fill next is not one of them.
LEMMA FilledAre ==
  ASSUME NEW r \in Slots, NEW w \in Slots
  PROVE  /\ Filled(r, w) \subseteq Slots
         /\ w \notin Filled(r, w)
         /\ r # w => r \in Filled(r, w)
<1>1. Size(r, w) \in 0 .. N-1 /\ Size(r, w) = IF w >= r THEN w - r ELSE w - r + N
  BY SizeIs
<1>2. ASSUME NEW i \in 1 .. Size(r, w)
      PROVE  SlotAt(r, i) \in Slots /\ SlotAt(r, i) # w
  <2>1. i \in 1 .. N
    BY <1>1, NAssumption
  <2>2. /\ SlotAt(r, i) \in Slots
        /\ SlotAt(r, i) = IF r + i - 1 < N THEN r + i - 1 ELSE r + i - 1 - N
    BY <2>1, SlotAtIs
  <2> QED
    BY <1>1, <2>1, <2>2, NAssumption DEF Slots
<1>3. r # w => 1 \in 1 .. Size(r, w) /\ SlotAt(r, 1) = r
  BY <1>1, SlotAtIs, NAssumption DEF Slots
<1> QED
  BY <1>2, <1>3 DEF Filled

\* CommitBuffer adds the slot that was to be filled next, and no other.
LEMMA FilledAfterCommit ==
  ASSUME NEW r \in Slots, NEW w \in Slots, Size(r, w) <= N-2
  PROVE  Filled(r, After(w)) = Filled(r, w) \cup {w}
<1>1. Size(r, w) \in 0 .. N-1 /\ Size(r, w) = IF w >= r THEN w - r ELSE w - r + N
  BY SizeIs
<1>2. Size(r, After(w)) = Size(r, w) + 1
  BY SizeAfterCommit
<1>3. SlotAt(r, Size(r, w) + 1) = w
  BY <1>1, SlotAtIs, NAssumption DEF Slots
<1>4. 1 .. Size(r, After(w)) = 1 .. Size(r, w) \cup {Size(r, w) + 1}
  BY <1>1, <1>2
<1> QED
  BY <1>3, <1>4 DEF Filled

\* ReleaseBuffer makes no slot filled.
LEMMA FilledAfterRelease ==
  ASSUME NEW r \in Slots, NEW w \in Slots, r # w
  PROVE  Filled(After(r), w) \subseteq Filled(r, w)
<1>1. /\ Size(r, w) \in 1 .. N-1
      /\ Size(After(r), w) = Size(r, w) - 1
  BY SizeIs, SizeAfterRelease, NAssumption
<1>2. ASSUME NEW i \in 1 .. Size(After(r), w)
      PROVE  i+1 \in 1 .. Size(r, w) /\ SlotAt(After(r), i) = SlotAt(r, i+1)
  <2>1. i \in 1 .. N /\ i+1 \in 1 .. N /\ i+1 \in 1 .. Size(r, w)
    BY <1>1, NAssumption
  <2>2. After(r) \in Slots /\ After(r) = IF r = N-1 THEN 0 ELSE r+1
    BY AfterIs
  <2>3. SlotAt(r, i+1) = IF r + (i+1) - 1 < N THEN r + (i+1) - 1 ELSE r + (i+1) - 1 - N
    BY <2>1, SlotAtIs
  <2>4. SlotAt(After(r), i) =
          IF After(r) + i - 1 < N THEN After(r) + i - 1 ELSE After(r) + i - 1 - N
    BY <2>1, <2>2, SlotAtIs
  <2> QED
    BY <2>1, <2>2, <2>3, <2>4, NAssumption DEF Slots
<1> QED
  BY <1>2 DEF Filled

-----------------------------------------------------------------------------
(* The slot before rdptr, and this session's descriptors in a FIFO. *)

LEMMA BeforeIs ==
  ASSUME NEW i \in Slots
  PROVE  Before(i) \in Slots /\ Before(i) = IF i = 0 THEN N-1 ELSE i-1
  BY NAssumption DEF Before, Slots

LEMMA BeforeAfter ==
  ASSUME NEW i \in Slots
  PROVE  Before(After(i)) = i
<1>1. After(i) \in Slots /\ After(i) = IF i = N-1 THEN 0 ELSE i+1
  BY AfterIs
<1>2. Before(After(i)) = IF After(i) = 0 THEN N-1 ELSE After(i)-1
  BY <1>1, BeforeIs
<1> QED
  BY <1>1, <1>2, NAssumption DEF Slots

\* The slot to fill next is not the one released last while the ring has room.
LEMMA BeforeIsNotNext ==
  ASSUME NEW r \in Slots, NEW w \in Slots, Size(r, w) <= N-2
  PROVE  w # Before(r)
<1>1. Before(r) = IF r = 0 THEN N-1 ELSE r-1
  BY BeforeIs
<1>2. Size(r, w) = IF w >= r THEN w - r ELSE w - r + N
  BY SizeIs
<1> QED
  BY <1>1, <1>2, NAssumption DEF Slots

LEMMA OwnInSlots ==
  ASSUME NEW s \in Seq(Descriptors)
  PROVE  OwnIn(s) \subseteq Slots
<1>1. \A i \in DOMAIN s : s[i] \in Descriptors
  OBVIOUS
<1>2. \A i \in DOMAIN s : s[i].slot \in Slots
  BY <1>1 DEF Descriptors
<1> QED
  BY <1>2 DEF OwnIn

LEMMA OwnInEmpty == OwnIn(<<>>) = {}
  BY DEF OwnIn

LEMMA OwnInAppend ==
  ASSUME NEW s \in Seq(Descriptors), NEW f \in Slots
  PROVE  OwnIn(Append(s, [slot |-> f, own |-> TRUE])) = OwnIn(s) \cup {f}
<1> DEFINE t == Append(s, [slot |-> f, own |-> TRUE])
<1>1. /\ DOMAIN t = DOMAIN s \cup {Len(s)+1}
      /\ \A i \in DOMAIN s : t[i] = s[i]
      /\ t[Len(s)+1] = [slot |-> f, own |-> TRUE]
  OBVIOUS
<1> HIDE DEF t
<1>2. OwnIn(t) = OwnIn(s) \cup {f}
  BY <1>1 DEF OwnIn
<1> QED
  BY <1>2 DEF t

LEMMA OwnInTail ==
  ASSUME NEW s \in Seq(Descriptors), s # <<>>
  PROVE  OwnIn(Tail(s)) \subseteq OwnIn(s) /\ OwnIn(<<Head(s)>>) \subseteq OwnIn(s)
<1>1. \A i \in DOMAIN Tail(s) : i+1 \in DOMAIN s /\ Tail(s)[i] = s[i+1]
  OBVIOUS
<1>2. 1 \in DOMAIN s /\ DOMAIN <<Head(s)>> = {1} /\ <<Head(s)>>[1] = s[1]
  OBVIOUS
<1> QED
  BY <1>1, <1>2 DEF OwnIn

LEMMA DisownIs ==
  ASSUME NEW s \in Seq(Descriptors)
  PROVE  /\ Disown(s) \in Seq(Descriptors)
         /\ Len(Disown(s)) = Len(s)
         /\ OwnIn(Disown(s)) = {}
<1>1. s \in [1 .. Len(s) -> Descriptors] /\ Len(s) \in Nat
  OBVIOUS
<1>2. \A i \in 1 .. Len(s) : /\ [s[i] EXCEPT !.own = FALSE] \in Descriptors
                             /\ [s[i] EXCEPT !.own = FALSE].own = FALSE
  BY <1>1 DEF Descriptors
<1>3. /\ Disown(s) \in [1 .. Len(s) -> Descriptors]
      /\ \A i \in DOMAIN Disown(s) : Disown(s)[i].own = FALSE
  BY <1>1, <1>2 DEF Disown
<1>4. Disown(s) \in Seq(Descriptors) /\ Len(Disown(s)) = Len(s)
  BY <1>1, <1>3
<1> QED
  BY <1>3, <1>4 DEF OwnIn
-----------------------------------------------------------------------------
(* Type correctness. *)

LEMMA InitTyped == Init => TypeOK
<1> SUFFICES ASSUME Init PROVE TypeOK
  OBVIOUS
<1> USE DEF Init
<1>1. RingTypeOK /\ midx \in Slots
  BY NAssumption DEF RingInit, RingTypeOK, Slots
<1>2. left \in [Slots -> Nat]
  OBVIOUS
<1>3. 0 \in Serials
  BY PipelineAssumption DEF Serials
<1>4. pic \in [Slots -> Pictures]
  BY <1>3 DEF NeverDrawn, Pictures
<1>5. txq \in Seq(Descriptors) /\ Len(txq) = 0 /\ txcur \in Seq(Descriptors) /\ Len(txcur) = 0
  OBVIOUS
<1> QED
  BY <1>1, <1>2, <1>3, <1>4, <1>5, PipelineAssumption DEF TypeOK, MainPCs, OverlayPCs

\* ProcessEnds leaves every variable well typed.
LEMMA EndTyped ==
  ASSUME TypeOK, NEW how \in MainPCs, ProcessEnds(how)
  PROVE  TypeOK'
<1>1. /\ Disown(txq) \in Seq(Descriptors) /\ Len(Disown(txq)) = Len(txq)
      /\ Disown(txcur) \in Seq(Descriptors) /\ Len(Disown(txcur)) = Len(txcur)
  BY DisownIs DEF TypeOK
<1>2. pic' \in [Slots -> Pictures]
  BY DEF ProcessEnds, NewSession, TypeOK, Pictures
<1>3. rdptr' \in Slots /\ wrptr' \in Slots /\ midx' \in Slots
  BY NAssumption DEF ProcessEnds, RingReset, Slots
<1>4. made' \in Serials
  BY PipelineAssumption DEF ProcessEnds, Serials
<1>5. /\ txq' = Disown(txq) /\ txcur' = Disown(txcur) /\ handed' = "none"
      /\ UNCHANGED <<res, left, restarts>>
  BY DEF ProcessEnds, NewSession
<1>6. opc' = "none" /\ opc' \in OverlayPCs /\ oidx' = -1 /\ shown' = -1
  BY DEF ProcessEnds, OverlayPCs
<1>7. /\ running' \in BOOLEAN /\ sigint' \in BOOLEAN
      /\ hpc' \in {"off", "idle", "half"} /\ mpc' \in MainPCs
  BY DEF ProcessEnds
<1>8. mtodo' \in 0 .. MaxDma /\ screens' \in 0 .. PoolScreens
  BY PipelineAssumption DEF ProcessEnds
<1>9. geom' \in Modes \cup {NoVideo}
  BY DEF ProcessEnds
<1> QED
  BY <1>1, <1>2, <1>3, <1>4, <1>5, <1>6, <1>7, <1>8, <1>9 DEF TypeOK, RingTypeOK

LEMMA NextTyped ==
  ASSUME TypeOK, Phases, Room, Hold, [Next]_vars
  PROVE  TypeOK'
<1> USE DEF TypeOK, RingTypeOK, MainPCs, OverlayPCs, mainVars, overlayVars, txVars, ringVars,
            MainAt
<1>1. CASE MainLoop
  BY <1>1, PipelineAssumption DEF MainLoop, MainGoes
<1>2. CASE Exit
  BY <1>2, EndTyped DEF Exit
<1>3. CASE UnsupportedSize
  BY <1>3, PipelineAssumption DEF UnsupportedSize
<1>4. CASE InitBlankScreen
  <2>1. /\ Disown(txq) \in Seq(Descriptors) /\ Len(Disown(txq)) = Len(txq)
        /\ Disown(txcur) \in Seq(Descriptors) /\ Len(Disown(txcur)) = Len(txcur)
    BY DisownIs
  <2>2. pic' \in [Slots -> Pictures]
    BY <1>4 DEF InitBlankScreen, NewSession, Pictures
  <2>3. screens' \in 0 .. PoolScreens
    BY <1>4, PipelineAssumption DEF InitBlankScreen
  <2> QED
    BY <1>4, <2>1, <2>2, <2>3 DEF InitBlankScreen, NewSession
<1>5. CASE OutOfScreens
  BY <1>5, EndTyped DEF OutOfScreens
<1>6. CASE CreateOverlay
  BY <1>6, PipelineAssumption DEF CreateOverlay
<1>7. CASE InstallHandler
  BY <1>7, PipelineAssumption DEF InstallHandler
<1>8. CASE ClearScreens
  <2>1. ~running
    BY <1>8 DEF ClearScreens, Phases, Rendering
  <2>2. /\ UNCHANGED <<rdptr, wrptr, running, sigint, hpc, res, midx, mtodo, geom, screens>>
        /\ UNCHANGED <<opc, oidx, left, txq, txcur, handed, restarts, pic, made, shown>>
        /\ mpc' \in MainPCs
    BY <1>8, <2>1 DEF ClearScreens
  <2> QED
    BY <2>2
<1>9. CASE WaitIdle
  BY <1>9, PipelineAssumption DEF WaitIdle, MainGoes
<1>10. CASE StartRendering
  BY <1>10, PipelineAssumption DEF StartRendering
<1>11. CASE RingWait
  BY <1>11, PipelineAssumption DEF RingWait, MainGoes
<1>12. CASE LeaveLoop
  BY <1>12, PipelineAssumption DEF LeaveLoop, MainGoes
<1>13. CASE GetEmpty
  <2>1. NextSerial(made) \in Serials
    BY PipelineAssumption DEF NextSerial, Serials
  <2>2. pic' \in [Slots -> Pictures]
    BY <1>13, <2>1 DEF GetEmpty, GetEmptyBuffer, Pictures
  <2>3. midx' \in Slots /\ mtodo' \in 0 .. MaxDma
    BY <1>13, PipelineAssumption DEF GetEmpty, GetEmptyBuffer
  <2> QED
    BY <1>13, <2>2, <2>3 DEF GetEmpty
<1>14. CASE Submit
  <2>1. left' \in [Slots -> Nat]
    BY <1>14 DEF Submit, RenderStartDMA
  <2>2. pic' \in [Slots -> Pictures]
    <3>1. pic' = [pic EXCEPT ![midx] = [pic[midx] EXCEPT !.whole = (mtodo = 1)]]
      BY <1>14 DEF Submit
    <3>2. [pic[midx] EXCEPT !.whole = (mtodo = 1)] \in Pictures
      BY DEF Pictures
    <3> QED
      BY <3>1, <3>2
  <2>3. mtodo' \in 0 .. MaxDma
    <3>1. mtodo \in 1 .. MaxDma /\ mtodo' = mtodo - 1
      BY <1>14 DEF Submit, Room
    <3> QED
      BY <3>1, PipelineAssumption
  <2> QED
    BY <1>14, <2>1, <2>2, <2>3 DEF Submit
<1>15. CASE SkipRest
  BY <1>15, PipelineAssumption DEF SkipRest
<1>16. CASE Drain
  BY <1>16, PipelineAssumption DEF Drain, MainGoes
<1>17. CASE Commit
  <2>1. made' \in Serials
    BY <1>17, PipelineAssumption DEF Commit, NextSerial, Serials
  <2>2. rdptr' \in Slots /\ wrptr' \in Slots
    BY <1>17, AfterIs DEF Commit, CommitBuffer
  <2> QED
    BY <1>17, <2>1, <2>2 DEF Commit
<1>18. CASE CheckResolution
  BY <1>18, PipelineAssumption DEF CheckResolution
<1>19. CASE StopRendering
  <2>1. /\ UNCHANGED <<rdptr, wrptr, sigint, hpc, res, midx, mtodo, geom, screens>>
        /\ UNCHANGED <<opc, oidx, left, txq, txcur, handed, restarts, pic, made, shown>>
        /\ running' \in BOOLEAN /\ mpc' \in MainPCs
    BY <1>19 DEF StopRendering
  <2> QED
    BY <2>1
<1>20. CASE Join
  BY <1>20, PipelineAssumption DEF Join
<1>21. CASE AwaitRunning
  BY <1>21, PipelineAssumption DEF AwaitRunning, OverlayGoes
<1>22. CASE AwaitSigint
  BY <1>22, PipelineAssumption DEF AwaitSigint, OverlayGoes
<1>23. CASE FirstFilled
  BY <1>23 DEF FirstFilled, GetFilledBuffer
<1>24. CASE OverlayLoop
  BY <1>24, PipelineAssumption DEF OverlayLoop, OverlayGoes
<1>25. CASE Txmit
  <2>1. [slot |-> oidx, own |-> TRUE] \in Descriptors
    BY <1>25 DEF Txmit, Hold, Descriptors
  <2>2. txq' \in Seq(Descriptors) /\ Len(txq') <= TxDepth
    BY <1>25, <2>1, PipelineAssumption DEF Txmit
  <2>3. shown' \in Serials
    BY <1>25 DEF Txmit, Hold, Pictures
  <2> QED
    BY <1>25, <2>2, <2>3 DEF Txmit
<1>26. CASE TxmitFull
  BY <1>26, PipelineAssumption DEF TxmitFull, OverlayGoes
<1>27. CASE WaitPending
  BY <1>27, PipelineAssumption DEF WaitPending, OverlayGoes
<1>28. CASE KeepFilled
  BY <1>28, PipelineAssumption DEF KeepFilled, OverlayGoes
<1>29. CASE Release
  <2>1. rdptr' \in Slots /\ wrptr' \in Slots
    BY <1>29, AfterIs DEF Release, ReleaseBuffer
  <2> QED
    BY <1>29, <2>1 DEF Release
<1>30. CASE NextFilled
  BY <1>30 DEF NextFilled, GetFilledBuffer
<1>31. CASE SigStop
  <2>1. running' \in BOOLEAN /\ hpc' \in {"off", "idle", "half"} /\ sigint' = sigint
    BY <1>31 DEF SigStop
  <2>2. UNCHANGED <<ringVars, res, mainVars, overlayVars, left, txVars, restarts, pic, made,
                    shown>>
    BY <1>31 DEF SigStop
  <2> QED
    BY <2>1, <2>2
<1>32. CASE SigFlag
  BY <1>32, PipelineAssumption DEF SigFlag
<1>33. CASE RenderDone
  BY <1>33, PipelineAssumption DEF RenderDone
<1>34. CASE TxStart
  <2>1. Head(txq) \in Descriptors /\ Tail(txq) \in Seq(Descriptors) /\ Len(Tail(txq)) <= TxDepth
    BY <1>34, PipelineAssumption DEF TxStart
  <2>2. <<Head(txq)>> \in Seq(Descriptors) /\ Len(<<Head(txq)>>) = 1
    BY <2>1
  <2> QED
    BY <1>34, <2>1, <2>2 DEF TxStart
<1>35. CASE TxDone
  BY <1>35, PipelineAssumption DEF TxDone
<1>36. CASE VideoChange
  BY <1>36, PipelineAssumption DEF VideoChange
<1>37. CASE Crash
  BY <1>37, EndTyped DEF Crash
<1>38. CASE Restart
  BY <1>38, PipelineAssumption DEF Restart
<1>39. CASE UNCHANGED vars
  BY <1>39 DEF vars
<1> QED
  BY <1>1, <1>2, <1>3, <1>4, <1>5, <1>6, <1>7, <1>8, <1>9, <1>10, <1>11, <1>12, <1>13, <1>14, <1>15, <1>16, <1>17, <1>18, <1>19, <1>20, <1>21, <1>22, <1>23, <1>24, <1>25, <1>26, <1>27, <1>28, <1>29, <1>30, <1>31, <1>32, <1>33, <1>34, <1>35, <1>36, <1>37, <1>38, <1>39
  DEF Next, Main, Overlay, Signal

-----------------------------------------------------------------------------
(* The inductive invariant. *)

LEMMA InitInvariant == Init => PipelineInvariant
<1> SUFFICES ASSUME Init PROVE PipelineInvariant
  OBVIOUS
<1>1. Size(rdptr, wrptr) = 0 /\ Filled(rdptr, wrptr) = {}
  BY SizeIs, NAssumption DEF Init, RingInit, Slots, Filled
<1>2. OwnIn(txq) = {} /\ OwnIn(txcur) = {}
  BY OwnInEmpty DEF Init
<1> QED
  BY <1>1, <1>2, InitTyped, NAssumption
  DEF Init, PipelineInvariant, Phases, Room, Hold, Complete, Window, NoTear, ShownWhole,
      OwnSlots, NothingOwn, RingSize, FilledSlots, Drawing, BetweenSessions, SettingUp,
      Rendering, NotStarted, Working

\* When the process ends nothing of the session is left.
LEMMA EndInvariant ==
  ASSUME PipelineInvariant, NEW how \in {"exited", "dead"}, ProcessEnds(how)
  PROVE  Phases' /\ Room' /\ Hold' /\ Complete' /\ Window' /\ NoTear' /\ ShownWhole'
<1>1. OwnIn(txq') = {} /\ OwnIn(txcur') = {}
  BY DisownIs DEF ProcessEnds, NewSession, PipelineInvariant, TypeOK
<1>2. Size(rdptr', wrptr') = 0 /\ Filled(rdptr', wrptr') = {}
  BY SizeIs, NAssumption DEF ProcessEnds, RingReset, Slots, Filled
<1>3. running' = FALSE /\ mpc' \in {"exited", "dead"} /\ opc' = "none" /\ oidx' = -1
  BY DEF ProcessEnds
<1> QED
  BY <1>1, <1>2, <1>3, NAssumption
  DEF Phases, Room, Hold, Complete, Window, NoTear, ShownWhole, OwnSlots, NothingOwn,
      RingSize, FilledSlots, Drawing, BetweenSessions, SettingUp, Rendering, NotStarted,
      Working

LEMMA NextInvariant ==
  ASSUME PipelineInvariant, [Next]_vars
  PROVE  Phases' /\ Room' /\ Hold' /\ Complete' /\ Window' /\ NoTear' /\ ShownWhole'
<1> USE DEF PipelineInvariant, Phases, Room, Hold, Complete, Window, NoTear, ShownWhole,
      OwnSlots, NothingOwn, RingSize, FilledSlots, Drawing, BetweenSessions, SettingUp,
      Rendering, NotStarted, Working, RenderDMAIdle,
      mainVars, overlayVars, txVars, ringVars, MainAt
<1>1. CASE MainLoop
  BY <1>1 DEF MainLoop, MainGoes
<1>2. CASE Exit
  BY <1>2, EndInvariant DEF Exit
<1>3. CASE UnsupportedSize
  BY <1>3 DEF UnsupportedSize
<1>4. CASE InitBlankScreen
  <2>1. OwnIn(txq') = {} /\ OwnIn(txcur') = {}
    BY <1>4, DisownIs DEF InitBlankScreen, NewSession, TypeOK
  <2>2. \A f \in Slots : ~pic'[f].own
    BY <1>4 DEF InitBlankScreen, NewSession, TypeOK, Pictures
  <2>3. /\ opc = "none" /\ opc' = "none" /\ ~running /\ ~running' /\ mpc' = "create"
        /\ UNCHANGED <<rdptr, wrptr, oidx, midx, mtodo, left>>
    BY <1>4 DEF InitBlankScreen
  <2>4. Phases' /\ Room' /\ Hold'
    BY <2>3
  <2>5. Complete'
    BY <2>2, <2>3
  <2>6. Window' /\ NoTear' /\ ShownWhole'
    BY <2>1, <2>3
  <2> QED
    BY <2>4, <2>5, <2>6
<1>5. CASE OutOfScreens
  BY <1>5, EndInvariant DEF OutOfScreens
<1>6. CASE CreateOverlay
  BY <1>6 DEF CreateOverlay
<1>7. CASE InstallHandler
  BY <1>7 DEF InstallHandler
<1>8. CASE ClearScreens
  BY <1>8 DEF ClearScreens
<1>9. CASE WaitIdle
  BY <1>9 DEF WaitIdle, MainGoes
<1>10. CASE StartRendering
  <2>1. \A f \in Slots : left[f] = 0 /\ ~pic[f].own
    BY <1>10 DEF StartRendering
  <2>2. Filled(rdptr, wrptr) \subseteq Slots
    BY FilledAre DEF TypeOK, RingTypeOK
  <2>3. /\ mpc = "start" /\ mpc' = "ringwait" /\ opc' = opc
        /\ UNCHANGED <<rdptr, wrptr, oidx, midx, mtodo, left, pic, txq, txcur>>
    BY <1>10 DEF StartRendering
  <2>4. opc \in {"none", "await", "awaitsig", "done"}
    BY <2>3 DEF TypeOK, OverlayPCs
  <2>5. OwnIn(txq) = {} /\ OwnIn(txcur) = {}
    BY <2>3
  <2>6. Phases' /\ Room' /\ Hold' /\ NoTear' /\ ShownWhole'
    BY <2>3, <2>4, <2>5
  <2>7. Complete'
    BY <2>1, <2>2, <2>3, <2>4
  <2>8. Window'
    BY <2>3, <2>4, <2>5
  <2> QED
    BY <2>6, <2>7, <2>8
<1>11. CASE RingWait
  <2>1. Size(rdptr, wrptr) <= N-2
    <3>1. Size(rdptr, wrptr) < N-1
      BY <1>11 DEF RingWait, MainGoes
    <3>2. Size(rdptr, wrptr) \in 0 .. N-1
      BY SizeIs DEF TypeOK, RingTypeOK
    <3> QED
      BY <3>1, <3>2, NAssumption
  <2> QED
    BY <1>11, <2>1 DEF RingWait, MainGoes
<1>12. CASE LeaveLoop
  BY <1>12 DEF LeaveLoop, MainGoes
<1>13. CASE GetEmpty
  <2>1. wrptr \in Slots /\ rdptr \in Slots /\ Size(rdptr, wrptr) <= N-2
    BY <1>13 DEF GetEmpty, TypeOK, RingTypeOK
  <2>2. wrptr \notin Filled(rdptr, wrptr) /\ wrptr # Before(rdptr)
    BY <2>1, FilledAre, BeforeIsNotNext
  <2>3. wrptr \notin OwnIn(txq) /\ wrptr \notin OwnIn(txcur)
    BY <1>13, <2>2 DEF GetEmpty, TypeOK, OverlayPCs
  <2>4. /\ mpc = "getempty" /\ mpc' = "render" /\ running /\ midx' = wrptr
        /\ mtodo' \in 1 .. MaxDma
        /\ UNCHANGED <<rdptr, wrptr, running, opc, oidx, left, txq, txcur>>
    BY <1>13 DEF GetEmpty, GetEmptyBuffer
  <2>5. \A f \in Slots : f # wrptr => pic'[f] = pic[f]
    BY <1>13 DEF GetEmpty, GetEmptyBuffer, TypeOK
  <2>6. OwnIn(txq) \cup OwnIn(txcur) \cup Filled(rdptr, wrptr) \subseteq Slots
    BY <2>1, FilledAre, OwnInSlots DEF TypeOK
  <2>7. Phases' /\ Room' /\ Hold' /\ Window'
    BY <2>1, <2>4
  <2>8. Complete'
    BY <2>1, <2>2, <2>4, <2>5, <2>6
  <2>9. NoTear' /\ ShownWhole'
    BY <2>3, <2>4, <2>5, <2>6
  <2> QED
    BY <2>7, <2>8, <2>9
<1>14. CASE Submit
  <2>1. wrptr \in Slots /\ rdptr \in Slots /\ midx = wrptr /\ midx \in Slots
    BY <1>14 DEF Submit, TypeOK, RingTypeOK
  <2>2. wrptr \notin Filled(rdptr, wrptr) /\ wrptr \notin OwnIn(txq) /\ wrptr \notin OwnIn(txcur)
    BY <1>14, <2>1, FilledAre DEF Submit
  <2>3. \A f \in Slots : f # wrptr => pic'[f] = pic[f] /\ left'[f] = left[f]
    BY <1>14, <2>1 DEF Submit, RenderStartDMA, TypeOK
  <2>4. pic'[wrptr].own = pic[wrptr].own /\ pic'[wrptr].whole = (mtodo = 1)
    BY <1>14, <2>1 DEF Submit, TypeOK, Pictures
  <2>5. OwnIn(txq) \cup OwnIn(txcur) \cup Filled(rdptr, wrptr) \subseteq Slots
    BY <2>1, FilledAre, OwnInSlots DEF TypeOK
  <2>6. /\ mpc = "render" /\ mpc' = IF mtodo = 1 THEN "drain" ELSE "render"
        /\ mtodo' = mtodo - 1 /\ mtodo \in 1 .. MaxDma
        /\ UNCHANGED <<rdptr, wrptr, midx, running, opc, oidx, txq, txcur>>
    BY <1>14 DEF Submit
  <2>7. Phases' /\ Hold' /\ Window'
    BY <2>6
  <2>8. Room'
    BY <2>6, PipelineAssumption
  <2>9. Complete'
    <3>1. mpc' \in {"render", "drain"} /\ (mpc' = "drain" => mtodo = 1)
      BY <2>6
    <3>2. mpc' = "drain" => pic'[midx'].whole
      BY <2>1, <2>4, <2>6, <3>1
    <3>3. running' => \A f \in Filled(rdptr, wrptr)' :
                        left'[f] = 0 /\ (pic'[f].own => pic'[f].whole)
      BY <2>2, <2>3, <2>5, <2>6
    <3>4. opc' = "txmit" => left'[rdptr'] = 0 /\ (pic'[rdptr'].own => pic'[rdptr'].whole)
      BY <2>1, <2>3, <2>6
    <3> QED
      BY <3>1, <3>2, <3>3, <3>4
  <2>10. NoTear' /\ ShownWhole'
    BY <2>1, <2>2, <2>3, <2>5, <2>6
  <2> QED
    BY <2>7, <2>8, <2>9, <2>10
<1>15. CASE SkipRest
  BY <1>15 DEF SkipRest
<1>16. CASE Drain
  BY <1>16 DEF Drain, MainGoes
<1>17. CASE Commit
  <2>1. /\ mpc = "commit" /\ mpc' = "check" /\ wrptr' = After(wrptr)
        /\ UNCHANGED <<rdptr, running, midx, opc, oidx, left, txq, txcur, pic>>
    BY <1>17 DEF Commit, CommitBuffer
  <2>2. /\ wrptr \in Slots /\ rdptr \in Slots /\ Size(rdptr, wrptr) <= N-2
        /\ Size(rdptr, wrptr) \in Nat
    BY <2>1, SizeIs DEF TypeOK, RingTypeOK
  <2>3. Size(rdptr, After(wrptr)) = Size(rdptr, wrptr) + 1 /\ After(wrptr) # rdptr
    BY <2>2, SizeAfterCommit
  <2>4. Filled(rdptr, After(wrptr)) = Filled(rdptr, wrptr) \cup {wrptr}
    BY <2>2, FilledAfterCommit
  <2>5. Phases' /\ Room' /\ Window' /\ NoTear' /\ ShownWhole'
    BY <2>1
  <2>6. Hold'
    BY <2>1, <2>2, <2>3
  <2>7. Complete'
    BY <2>1, <2>2, <2>4
  <2> QED
    BY <2>5, <2>6, <2>7
<1>18. CASE CheckResolution
  <2>1. /\ mpc = "check" /\ mpc' = "ringwait" /\ (running' => running)
        /\ UNCHANGED <<rdptr, wrptr, midx, mtodo, opc, oidx, left, pic, txq, txcur>>
    BY <1>18 DEF CheckResolution
  <2> QED
    BY <2>1
<1>19. CASE StopRendering
  BY <1>19 DEF StopRendering
<1>20. CASE Join
  BY <1>20 DEF Join
<1>21. CASE AwaitRunning
  BY <1>21 DEF AwaitRunning, OverlayGoes
<1>22. CASE AwaitSigint
  BY <1>22 DEF AwaitSigint, OverlayGoes
<1>23. CASE FirstFilled
  <2>1. /\ opc = "first" /\ opc' = "loop" /\ oidx = -1
        /\ OwnIn(txq) = {} /\ OwnIn(txcur) = {} /\ mpc \in Rendering \cup {"join"}
        /\ UNCHANGED <<rdptr, wrptr, running, mpc, midx, mtodo, left, txq, txcur, pic>>
    BY <1>23 DEF FirstFilled
  <2>2. CASE running
    <3>1. oidx' = rdptr /\ rdptr # wrptr /\ rdptr # -1
      BY <1>23, <2>2, NAssumption DEF FirstFilled, GetFilledBuffer, TypeOK, RingTypeOK, Slots
    <3> QED
      BY <2>1, <3>1
  <2>3. CASE ~running
    <3>1. oidx' = -1
      BY <1>23, <2>1, <2>3 DEF FirstFilled
    <3> QED
      BY <2>1, <2>3, <3>1
  <2> QED
    BY <2>2, <2>3
<1>24. CASE OverlayLoop
  <2>1. /\ opc = "loop"
        /\ UNCHANGED <<rdptr, wrptr, running, oidx, mpc, midx, mtodo, left, txq, txcur, pic>>
    BY <1>24 DEF OverlayLoop, OverlayGoes
  <2>2. CASE running
    <3>1. opc' = "txmit"
      BY <1>24, <2>2 DEF OverlayLoop, OverlayGoes
    <3>2. oidx = rdptr /\ rdptr # wrptr
      BY <2>1, <2>2
    <3>3. left[rdptr] = 0 /\ (pic[rdptr].own => pic[rdptr].whole)
      BY <2>2, <3>2, FilledAre DEF TypeOK, RingTypeOK
    <3>4. mpc \in Rendering
      BY <2>2
    <3>5. OwnIn(txq) = {} /\ OwnIn(txcur) \subseteq {rdptr, Before(rdptr)}
      BY <2>1, <2>2
    <3> QED
      BY <2>1, <3>1, <3>2, <3>3, <3>4, <3>5
  <2>3. CASE ~running
    <3>1. opc' = "done"
      BY <1>24, <2>3 DEF OverlayLoop, OverlayGoes
    <3> QED
      BY <2>1, <2>3, <3>1
  <2> QED
    BY <2>2, <2>3
<1>25. CASE Txmit
  <2>1. /\ opc = "txmit" /\ opc' = "pending" /\ oidx = rdptr /\ rdptr # wrptr
        /\ txq' = Append(txq, [slot |-> rdptr, own |-> TRUE])
        /\ UNCHANGED <<rdptr, wrptr, running, oidx, mpc, midx, mtodo, left, txcur, pic>>
    BY <1>25 DEF Txmit
  <2>2. OwnIn(txq') = {rdptr} /\ txq' # <<>>
    <3>1. txq \in Seq(Descriptors) /\ rdptr \in Slots /\ OwnIn(txq) = {}
      BY <2>1 DEF TypeOK, RingTypeOK
    <3>2. OwnIn(txq') = {rdptr}
      BY <2>1, <3>1, OwnInAppend
    <3>3. txq' # <<>>
      BY <2>1, <3>1
    <3> QED
      BY <3>2, <3>3
  <2>3. left[rdptr] = 0 /\ (pic[rdptr].own => pic[rdptr].whole) /\ ~(Drawing /\ rdptr = midx)
    BY <2>1
  <2>4. /\ mpc \in Rendering \cup {"join"}
        /\ OwnIn(txcur) \subseteq {rdptr, Before(rdptr)}
    BY <2>1
  <2>5. Phases' /\ Room' /\ Hold' /\ Complete'
    BY <2>1
  <2>6. Window'
    BY <2>1, <2>2, <2>4
  <2>7. NoTear' /\ ShownWhole'
    BY <2>1, <2>2, <2>3
  <2> QED
    BY <2>5, <2>6, <2>7
<1>26. CASE TxmitFull
  <2>1. /\ opc = "txmit" /\ opc' = "pending" /\ oidx = rdptr /\ rdptr # wrptr
        /\ UNCHANGED <<rdptr, wrptr, running, oidx, mpc, midx, mtodo, left, txq, txcur, pic>>
    BY <1>26 DEF TxmitFull, OverlayGoes
  <2>2. txq # <<>>
    BY <1>26, PipelineAssumption DEF TxmitFull, OverlayGoes
  <2> QED
    BY <2>1, <2>2
<1>27. CASE WaitPending
  <2>1. /\ opc = "pending" /\ opc' = "size" /\ oidx = rdptr /\ rdptr # wrptr
        /\ mpc \in Rendering \cup {"join"}
        /\ UNCHANGED <<rdptr, wrptr, running, oidx, mpc, midx, mtodo, left, txq, txcur, pic>>
    BY <1>27 DEF WaitPending, OverlayGoes
  <2>2. ASSUME running PROVE OwnIn(txq) = {} /\ OwnIn(txcur) \subseteq {rdptr}
    <3>1. txq = <<>>
      BY <1>27, <2>2 DEF WaitPending, OverlayGoes, PendingTxmit
    <3> QED
      BY <2>1, <3>1, OwnInEmpty
  <2>3. Phases' /\ Room' /\ Hold' /\ Complete' /\ NoTear' /\ ShownWhole'
    BY <2>1
  <2>4. Window'
    BY <2>1, <2>2
  <2> QED
    BY <2>3, <2>4
<1>28. CASE KeepFilled
  <2>1. /\ opc = "size" /\ opc' \in {"release", "loop"} /\ oidx = rdptr /\ rdptr # wrptr
        /\ mpc \in Rendering \cup {"join"}
        /\ UNCHANGED <<rdptr, wrptr, running, oidx, mpc, midx, mtodo, left, txq, txcur, pic>>
    BY <1>28 DEF KeepFilled, OverlayGoes
  <2>2. opc' = "release" => Size(rdptr, wrptr) >= 3
    <3>1. opc' = "release" => Size(rdptr, wrptr) > 2
      BY <1>28 DEF KeepFilled, OverlayGoes
    <3>2. Size(rdptr, wrptr) \in 0 .. N-1
      BY SizeIs DEF TypeOK, RingTypeOK
    <3> QED
      BY <3>1, <3>2, NAssumption
  <2>3. oidx # -1
    BY <2>1, NAssumption DEF TypeOK, RingTypeOK, Slots
  <2> QED
    BY <2>1, <2>2, <2>3
<1>29. CASE Release
  <2>1. /\ opc = "release" /\ opc' = "next" /\ rdptr' = After(rdptr) /\ rdptr # wrptr
        /\ mpc \in Rendering \cup {"join"}
        /\ UNCHANGED <<wrptr, running, oidx, mpc, midx, mtodo, left, txq, txcur, pic>>
    BY <1>29 DEF Release, ReleaseBuffer
  <2>2. rdptr \in Slots /\ wrptr \in Slots /\ Size(rdptr, wrptr) >= 3
    BY <2>1 DEF TypeOK, RingTypeOK
  <2>3. /\ After(rdptr) \in Slots
        /\ Before(After(rdptr)) = rdptr
        /\ Size(After(rdptr), wrptr) = Size(rdptr, wrptr) - 1
        /\ Filled(After(rdptr), wrptr) \subseteq Filled(rdptr, wrptr)
    BY <2>1, <2>2, AfterIs, BeforeAfter, SizeAfterRelease, FilledAfterRelease
  <2>4. Size(rdptr, wrptr) \in 0 .. N-1
    BY <2>2, SizeIs
  <2>5. After(rdptr) # wrptr
    BY <2>2, <2>3, <2>4, SizeIs, NAssumption
  <2>6. Room'
    BY <2>1, <2>3, <2>4, NAssumption
  <2>7. Phases' /\ Hold' /\ Complete' /\ NoTear' /\ ShownWhole'
    BY <2>1, <2>3, <2>5
  <2>8. Window'
    BY <2>1, <2>3
  <2> QED
    BY <2>6, <2>7, <2>8
<1>30. CASE NextFilled
  <2>1. /\ opc = "next" /\ opc' = "loop" /\ oidx' = rdptr /\ rdptr # wrptr /\ rdptr # -1
        /\ mpc \in Rendering \cup {"join"}
        /\ UNCHANGED <<rdptr, wrptr, running, mpc, midx, mtodo, left, txq, txcur, pic>>
    BY <1>30, NAssumption DEF NextFilled, GetFilledBuffer, TypeOK, RingTypeOK, Slots
  <2> QED
    BY <2>1
<1>31. CASE SigStop
  BY <1>31 DEF SigStop
<1>32. CASE SigFlag
  BY <1>32 DEF SigFlag
<1>33. CASE RenderDone
  BY <1>33 DEF RenderDone
<1>34. CASE TxStart
  <2>1. /\ txcur = <<>> /\ txq # <<>> /\ txcur' = <<Head(txq)>> /\ txq' = Tail(txq)
        /\ UNCHANGED <<rdptr, wrptr, running, oidx, opc, mpc, midx, mtodo, left, pic>>
    BY <1>34 DEF TxStart
  <2>2. OwnIn(txq') \subseteq OwnIn(txq) /\ OwnIn(txcur') \subseteq OwnIn(txq)
    BY <2>1, OwnInTail DEF TypeOK
  <2>3. Phases' /\ Room' /\ Hold' /\ Complete'
    BY <2>1
  <2>4. NoTear' /\ ShownWhole'
    BY <2>1, <2>2
  <2>5. Window'
    BY <2>1, <2>2
  <2> QED
    BY <2>3, <2>4, <2>5
<1>35. CASE TxDone
  <2>1. /\ txcur' = <<>>
        /\ UNCHANGED <<rdptr, wrptr, running, oidx, opc, mpc, midx, mtodo, left, txq, pic>>
    BY <1>35 DEF TxDone
  <2>2. OwnIn(txcur') = {}
    BY <2>1, OwnInEmpty
  <2>3. Phases' /\ Room' /\ Hold' /\ Complete'
    BY <2>1
  <2>4. NoTear' /\ ShownWhole' /\ Window'
    BY <2>1, <2>2
  <2> QED
    BY <2>3, <2>4
<1>36. CASE VideoChange
  BY <1>36 DEF VideoChange
<1>37. CASE Crash
  BY <1>37, EndInvariant DEF Crash
<1>38. CASE Restart
  BY <1>38 DEF Restart
<1>39. CASE UNCHANGED vars
  BY <1>39 DEF vars
<1> QED
  BY <1>1, <1>2, <1>3, <1>4, <1>5, <1>6, <1>7, <1>8, <1>9, <1>10, <1>11, <1>12, <1>13, <1>14, <1>15, <1>16, <1>17, <1>18, <1>19, <1>20, <1>21, <1>22, <1>23, <1>24, <1>25, <1>26, <1>27, <1>28, <1>29, <1>30, <1>31, <1>32, <1>33, <1>34, <1>35, <1>36, <1>37, <1>38, <1>39
  DEF Next, Main, Overlay, Signal

-----------------------------------------------------------------------------
(* The theorems. *)

\* The invariant holds in every reachable state.
THEOREM InvariantHolds == Spec => []PipelineInvariant
<1>1. Init => PipelineInvariant
  BY InitInvariant
<1>2. PipelineInvariant /\ [Next]_vars => PipelineInvariant'
  <2> SUFFICES ASSUME PipelineInvariant, [Next]_vars PROVE PipelineInvariant'
    OBVIOUS
  <2>1. TypeOK'
    BY NextTyped DEF PipelineInvariant
  <2>2. Phases' /\ Room' /\ Hold' /\ Complete' /\ Window' /\ NoTear' /\ ShownWhole'
    BY NextInvariant
  <2> QED
    BY <2>1, <2>2 DEF PipelineInvariant
<1> QED
  BY <1>1, <1>2, PTL DEF Spec

\* Every variable keeps its type.
THEOREM TypeCorrect == Spec => []TypeOK
<1>1. PipelineInvariant => TypeOK
  BY DEF PipelineInvariant
<1> QED
  BY <1>1, InvariantHolds, PTL

\* The overlay DMA never reads a buffer that is being drawn: danmaku.c releases a
\* buffer while it is being read, and the ring is one slot long enough for that.
THEOREM NeverTorn == Spec => []NoTear
<1>1. PipelineInvariant => NoTear
  BY DEF PipelineInvariant
<1> QED
  BY <1>1, InvariantHolds, PTL

\* The picture a SIGINT cuts short never reaches the overlay DMA in its session.
THEOREM NeverPartial == Spec => []ShownWhole
<1>1. PipelineInvariant => ShownWhole
  BY DEF PipelineInvariant
<1> QED
  BY <1>1, InvariantHolds, PTL

\* A filled buffer is never still being written while rendering runs.
THEOREM FilledNotWritten == Spec => []FilledStable
<1>1. PipelineInvariant => FilledStable
  BY DEF PipelineInvariant, Complete, FilledStable
<1> QED
  BY <1>1, InvariantHolds, PTL

\* The asserts of CommitBuffer, ReleaseBuffer and FrameBufferTxmit hold.
THEOREM NoAssertFails == Spec => []AssertsHold
<1>1. PipelineInvariant => AssertsHold
  <2> SUFFICES ASSUME PipelineInvariant PROVE AssertsHold
    OBVIOUS
  <2> USE DEF PipelineInvariant, TypeOK, RingTypeOK
  <2>1. mpc = "commit" => CommitAllowed /\ midx = wrptr
    BY SizeAfterCommit DEF Room, Drawing, RingSize, CommitAllowed
  <2>2. opc = "release" => ReleaseAllowed
    BY DEF Hold, ReleaseAllowed
  <2>3. Holding => oidx = GetFilledBuffer
    BY DEF Hold, Holding, GetFilledBuffer
  <2>4. opc = "txmit" => oidx \in Slots
    BY DEF Hold
  <2> QED
    BY <2>1, <2>2, <2>3, <2>4 DEF AssertsHold
<1> QED
  BY <1>1, InvariantHolds, PTL

-----------------------------------------------------------------------------
(* What an earlier session left in the ring comes out first. *)

\* The buffer that is being drawn belongs to the current session.
OwnDrawn == Drawing => pic[midx].own

LEMMA SlotsOfRing ==
  ASSUME NEW r \in Slots, NEW w \in Slots, NEW i \in 1 .. Size(r, w)
  PROVE  SlotAt(r, i) \in Slots /\ SlotAt(r, i) # w
<1>1. SlotAt(r, i) \in Filled(r, w)
  BY DEF Filled
<1> QED
  BY <1>1, FilledAre

\* A step that moves no pointer and changes the ownership of no filled slot.
LEMMA SameStale ==
  ASSUME StaleFirst, RingTypeOK, UNCHANGED ringVars,
         \A f \in Slots \ {wrptr} : pic'[f].own = pic[f].own
  PROVE  StaleFirst'
<1>1. rdptr' = rdptr /\ wrptr' = wrptr
  BY DEF ringVars
<1>2. \A i \in 1 .. Size(rdptr, wrptr) : SlotAt(rdptr, i) \in Slots \ {wrptr}
  BY SlotsOfRing DEF RingTypeOK
<1>3. \A i, j \in 1 .. Size(rdptr', wrptr') :
        i < j /\ pic'[SlotAt(rdptr', i)].own => pic'[SlotAt(rdptr', j)].own
  BY <1>1, <1>2 DEF StaleFirst, RingSize, FilledSlot
<1> QED
  BY <1>3 DEF StaleFirst, RingSize, FilledSlot

LEMMA NothingStale ==
  ASSUME \/ Size(rdptr', wrptr') = 0
         \/ rdptr' \in Slots /\ wrptr' \in Slots /\ \A f \in Slots : ~pic'[f].own
  PROVE  StaleFirst'
<1>1. \A i, j \in 1 .. Size(rdptr', wrptr') :
        i < j /\ pic'[SlotAt(rdptr', i)].own => pic'[SlotAt(rdptr', j)].own
  BY SlotsOfRing
<1> QED
  BY <1>1 DEF StaleFirst, RingSize, FilledSlot

LEMMA CommitStale ==
  ASSUME StaleFirst, RingTypeOK, RingSize <= N-2, pic[wrptr].own,
         CommitBuffer, pic' = pic
  PROVE  StaleFirst'
<1>1. rdptr \in Slots /\ wrptr \in Slots /\ rdptr' = rdptr /\ wrptr' = After(wrptr)
  BY DEF RingTypeOK, CommitBuffer
<1>2. /\ Size(rdptr, After(wrptr)) = Size(rdptr, wrptr) + 1
      /\ Size(rdptr, wrptr) \in 0 .. N-1
      /\ Size(rdptr, wrptr) = IF wrptr >= rdptr THEN wrptr - rdptr ELSE wrptr - rdptr + N
  BY <1>1, SizeIs, SizeAfterCommit DEF RingSize
<1>3. SlotAt(rdptr, Size(rdptr, wrptr) + 1) = wrptr
  BY <1>1, <1>2, SlotAtIs, NAssumption DEF Slots
<1>4. \A i, j \in 1 .. Size(rdptr, wrptr) :
        i < j /\ pic[SlotAt(rdptr, i)].own => pic[SlotAt(rdptr, j)].own
  BY DEF StaleFirst, RingSize, FilledSlot
<1>5. \A i, j \in 1 .. Size(rdptr, wrptr) + 1 :
        i < j /\ pic[SlotAt(rdptr, i)].own => pic[SlotAt(rdptr, j)].own
  <2> SUFFICES ASSUME NEW i \in 1 .. Size(rdptr, wrptr) + 1,
                      NEW j \in 1 .. Size(rdptr, wrptr) + 1,
                      i < j, pic[SlotAt(rdptr, i)].own
               PROVE  pic[SlotAt(rdptr, j)].own
    OBVIOUS
  <2>1. i \in 1 .. Size(rdptr, wrptr) /\ (j \in 1 .. Size(rdptr, wrptr)
                                         \/ j = Size(rdptr, wrptr) + 1)
    BY <1>2
  <2> QED
    BY <1>3, <1>4, <2>1
<1>6. \A i, j \in 1 .. Size(rdptr', wrptr') :
        i < j /\ pic'[SlotAt(rdptr', i)].own => pic'[SlotAt(rdptr', j)].own
  BY <1>1, <1>2, <1>5
<1> QED
  BY <1>6 DEF StaleFirst, RingSize, FilledSlot

LEMMA ReleaseStale ==
  ASSUME StaleFirst, RingTypeOK, rdptr # wrptr, ReleaseBuffer, pic' = pic
  PROVE  StaleFirst'
<1>1. rdptr \in Slots /\ wrptr \in Slots /\ rdptr' = After(rdptr) /\ wrptr' = wrptr
  BY DEF RingTypeOK, ReleaseBuffer
<1>2. /\ Size(After(rdptr), wrptr) = Size(rdptr, wrptr) - 1
      /\ Size(rdptr, wrptr) \in 0 .. N-1
      /\ After(rdptr) \in Slots /\ After(rdptr) = IF rdptr = N-1 THEN 0 ELSE rdptr+1
  BY <1>1, SizeIs, SizeAfterRelease, AfterIs
<1>3. \A i \in 1 .. Size(rdptr, wrptr) - 1 :
        i+1 \in 1 .. Size(rdptr, wrptr) /\ SlotAt(After(rdptr), i) = SlotAt(rdptr, i+1)
  <2> SUFFICES ASSUME NEW i \in 1 .. Size(rdptr, wrptr) - 1
               PROVE  /\ i+1 \in 1 .. Size(rdptr, wrptr)
                      /\ SlotAt(After(rdptr), i) = SlotAt(rdptr, i+1)
    OBVIOUS
  <2>1. i \in 1 .. N /\ i+1 \in 1 .. N /\ i+1 \in 1 .. Size(rdptr, wrptr)
    BY <1>2, NAssumption
  <2>2. SlotAt(rdptr, i+1) =
          IF rdptr + (i+1) - 1 < N THEN rdptr + (i+1) - 1 ELSE rdptr + (i+1) - 1 - N
    BY <1>1, <2>1, SlotAtIs
  <2>3. SlotAt(After(rdptr), i) =
          IF After(rdptr) + i - 1 < N THEN After(rdptr) + i - 1 ELSE After(rdptr) + i - 1 - N
    BY <1>2, <2>1, SlotAtIs
  <2> QED
    BY <1>1, <1>2, <2>1, <2>2, <2>3, NAssumption DEF Slots
<1>4. \A i, j \in 1 .. Size(rdptr, wrptr) :
        i < j /\ pic[SlotAt(rdptr, i)].own => pic[SlotAt(rdptr, j)].own
  BY DEF StaleFirst, RingSize, FilledSlot
<1>5. \A i, j \in 1 .. Size(rdptr, wrptr) - 1 : i < j => i+1 < j+1
  OBVIOUS
<1>6. \A i, j \in 1 .. Size(rdptr', wrptr') :
        i < j /\ pic'[SlotAt(rdptr', i)].own => pic'[SlotAt(rdptr', j)].own
  BY <1>1, <1>2, <1>3, <1>4, <1>5
<1> QED
  BY <1>6 DEF StaleFirst, RingSize, FilledSlot

LEMMA NextStale ==
  ASSUME PipelineInvariant, OwnDrawn, StaleFirst, [Next]_vars
  PROVE  OwnDrawn' /\ StaleFirst'
<1> USE DEF OwnDrawn, Drawing, MainAt
<1>1. RingTypeOK /\ pic \in [Slots -> Pictures] /\ midx \in Slots
  BY DEF PipelineInvariant, TypeOK
<1>2. CASE Exit \/ OutOfScreens \/ Crash
  <2>1. /\ rdptr' = 0 /\ wrptr' = 0 /\ mpc' \in {"exited", "dead"}
    BY <1>2 DEF Exit, OutOfScreens, Crash, ProcessEnds, RingReset
  <2>2. Size(rdptr', wrptr') = 0
    BY <2>1, SizeIs, NAssumption DEF Slots
  <2> QED
    BY <2>1, <2>2, NothingStale
<1>3. CASE InitBlankScreen
  <2>1. \A f \in Slots : ~pic'[f].own
    BY <1>1, <1>3 DEF InitBlankScreen, NewSession, Pictures
  <2>2. UNCHANGED ringVars /\ mpc' = "create"
    BY <1>3 DEF InitBlankScreen
  <2> QED
    BY <1>1, <2>1, <2>2, NothingStale DEF ringVars, RingTypeOK
<1>4. CASE ClearScreens
  <2>1. ~running
    BY <1>4 DEF ClearScreens, PipelineInvariant, Phases, Rendering
  <2>2. pic' = pic /\ UNCHANGED ringVars /\ mpc' = "waitidle"
    BY <1>4, <2>1 DEF ClearScreens
  <2> QED
    BY <1>1, <2>2, SameStale
<1>5. CASE GetEmpty
  <2>1. /\ pic' = [pic EXCEPT ![wrptr] =
                     [serial |-> NextSerial(made), own |-> TRUE, whole |-> FALSE]]
        /\ midx' = wrptr /\ UNCHANGED ringVars
    BY <1>5 DEF GetEmpty, GetEmptyBuffer
  <2>2. pic'[wrptr].own /\ \A f \in Slots \ {wrptr} : pic'[f] = pic[f]
    BY <1>1, <2>1 DEF RingTypeOK
  <2> QED
    BY <1>1, <2>1, <2>2, SameStale
<1>6. CASE Submit
  <2>1. /\ pic' = [pic EXCEPT ![midx] = [pic[midx] EXCEPT !.whole = (mtodo = 1)]]
        /\ UNCHANGED ringVars /\ midx' = midx /\ mpc = "render"
    BY <1>6 DEF Submit
  <2>2. [pic[midx] EXCEPT !.whole = (mtodo = 1)].own = pic[midx].own
    BY <1>1 DEF Pictures
  <2>3. \A f \in Slots : pic'[f].own = pic[f].own
    BY <1>1, <2>1, <2>2
  <2> QED
    BY <1>1, <2>1, <2>3, SameStale
<1>7. CASE Commit
  <2>1. mpc = "commit" /\ mpc' = "check" /\ CommitBuffer /\ pic' = pic
    BY <1>7 DEF Commit
  <2>2. RingSize <= N-2 /\ pic[wrptr].own
    BY <2>1 DEF PipelineInvariant, Room
  <2> QED
    BY <1>1, <2>1, <2>2, CommitStale
<1>8. CASE Release
  <2>1. opc = "release" /\ ReleaseBuffer /\ pic' = pic /\ midx' = midx /\ mpc' = mpc
    BY <1>8 DEF Release, mainVars
  <2>2. rdptr # wrptr
    BY <2>1 DEF PipelineInvariant, Hold
  <2> QED
    BY <1>1, <2>1, <2>2, ReleaseStale
<1>9. CASE \/ MainLoop \/ UnsupportedSize \/ CreateOverlay \/ InstallHandler \/ WaitIdle
           \/ StartRendering \/ RingWait \/ LeaveLoop \/ SkipRest \/ Drain
           \/ CheckResolution \/ StopRendering \/ Join
  <2>1. /\ UNCHANGED ringVars /\ pic' = pic /\ midx' = midx
        /\ mpc' \in {"render", "drain", "commit"} => mpc \in {"render", "drain", "commit"}
    BY <1>9 DEF MainLoop, MainGoes, UnsupportedSize, CreateOverlay, InstallHandler, WaitIdle,
         StartRendering, RingWait, LeaveLoop, SkipRest, Drain, CheckResolution,
         StopRendering, Join
  <2> QED
    BY <1>1, <2>1, SameStale
<1>10. CASE \/ AwaitRunning \/ AwaitSigint \/ FirstFilled \/ OverlayLoop \/ Txmit
            \/ TxmitFull \/ WaitPending \/ KeepFilled \/ NextFilled
  <2>1. UNCHANGED <<ringVars, pic, midx, mpc>>
    BY <1>10 DEF AwaitRunning, AwaitSigint, FirstFilled, OverlayLoop, Txmit, TxmitFull,
         WaitPending, KeepFilled, NextFilled, OverlayGoes, mainVars
  <2> QED
    BY <1>1, <2>1, SameStale
<1>11. CASE \/ Signal \/ RenderDone \/ TxStart \/ TxDone \/ VideoChange \/ UNCHANGED vars
  <2>1. UNCHANGED <<ringVars, pic, midx, mpc>>
    BY <1>11 DEF Signal, SigStop, SigFlag, RenderDone, TxStart, TxDone, VideoChange, vars,
         mainVars, ringVars
  <2> QED
    BY <1>1, <2>1, SameStale
<1>12. CASE Restart
  <2>1. UNCHANGED <<ringVars, pic, midx>> /\ mpc' = "loop"
    BY <1>12 DEF Restart
  <2> QED
    BY <1>1, <2>1, SameStale
<1> QED
  BY <1>2, <1>3, <1>4, <1>5, <1>6, <1>7, <1>8, <1>9, <1>10, <1>11, <1>12
  DEF Next, Main, Overlay

\* Pictures an earlier session left in the ring are shown before any picture of this
\* one, never among them, although the ring is not emptied when the resolution changes.
THEOREM StaleComesFirst == Spec => []StaleFirst
<1>1. Init => OwnDrawn /\ StaleFirst
  <2> SUFFICES ASSUME Init PROVE OwnDrawn /\ StaleFirst
    OBVIOUS
  <2>1. Size(rdptr, wrptr) = 0
    BY SizeIs, NAssumption DEF Init, RingInit, Slots
  <2> QED
    BY <2>1 DEF Init, OwnDrawn, Drawing, StaleFirst, RingSize
<1>2. PipelineInvariant /\ OwnDrawn /\ StaleFirst /\ [Next]_vars => OwnDrawn' /\ StaleFirst'
  BY NextStale
<1> QED
  BY <1>1, <1>2, InvariantHolds, PTL DEF Spec

-----------------------------------------------------------------------------
(* The pipeline implements the bounded FIFO of pictures. *)

QueueOf(r, w, p) == [i \in 1 .. Size(r, w) |-> p[SlotAt(r, i)].serial]

LEMMA QueueIs == Queue = QueueOf(rdptr, wrptr, pic)
  BY DEF Queue, QueueOf, RingSize, FilledSlot

LEMMA QueueNextIs == Queue' = QueueOf(rdptr', wrptr', pic')
  BY DEF Queue, QueueOf, RingSize, FilledSlot

LEMMA QueueTyped ==
  ASSUME NEW r \in Slots, NEW w \in Slots, NEW p \in [Slots -> Pictures]
  PROVE  QueueOf(r, w, p) \in Seq(Serials) /\ Len(QueueOf(r, w, p)) = Size(r, w)
<1>1. Size(r, w) \in Nat
  BY SizeIs, NAssumption
<1>2. \A i \in 1 .. Size(r, w) : p[SlotAt(r, i)].serial \in Serials
  BY SlotsOfRing DEF Pictures
<1> QED
  BY <1>1, <1>2 DEF QueueOf

LEMMA SameQueue ==
  ASSUME NEW r \in Slots, NEW w \in Slots, NEW p, NEW q,
         \A f \in Slots \ {w} : q[f].serial = p[f].serial
  PROVE  QueueOf(r, w, q) = QueueOf(r, w, p)
  BY SlotsOfRing DEF QueueOf

LEMMA SameNumbers ==
  ASSUME NEW s \in Seq(Serials), NEW t \in Seq(Serials), Len(s) = Len(t),
         \A i \in 1 .. Len(s) : s[i] = t[i]
  PROVE  s = t
  OBVIOUS

LEMMA QueueCommit ==
  ASSUME NEW r \in Slots, NEW w \in Slots, Size(r, w) <= N-2,
         NEW p \in [Slots -> Pictures]
  PROVE  QueueOf(r, After(w), p) = Append(QueueOf(r, w, p), p[w].serial)
<1>1. /\ Size(r, After(w)) = Size(r, w) + 1
      /\ Size(r, w) \in 0 .. N-1
      /\ Size(r, w) = IF w >= r THEN w - r ELSE w - r + N
  BY SizeIs, SizeAfterCommit
<1>2. SlotAt(r, Size(r, w) + 1) = w
  <2>1. Size(r, w) + 1 \in 1 .. N
    BY <1>1, NAssumption
  <2>2. SlotAt(r, Size(r, w) + 1) =
          IF r + (Size(r, w) + 1) - 1 < N THEN r + (Size(r, w) + 1) - 1
          ELSE r + (Size(r, w) + 1) - 1 - N
    BY <2>1, SlotAtIs
  <2> QED
    BY <1>1, <2>2, NAssumption DEF Slots
<1> DEFINE old == QueueOf(r, w, p)  new == QueueOf(r, After(w), p)
<1>3. old \in Seq(Serials) /\ Len(old) = Size(r, w)
  BY QueueTyped
<1>4. new \in Seq(Serials) /\ Len(new) = Size(r, w) + 1
  BY <1>1, AfterIs, QueueTyped
<1>5. p[w].serial \in Serials
  BY DEF Pictures
<1>6. /\ \A i \in 1 .. Size(r, w) : new[i] = old[i]
      /\ new[Size(r, w) + 1] = p[w].serial
  <2>1. new = [i \in 1 .. Size(r, w) + 1 |-> p[SlotAt(r, i)].serial]
    BY <1>1 DEF QueueOf
  <2>2. 1 .. Size(r, w) \subseteq 1 .. Size(r, w) + 1 /\ Size(r, w) + 1 \in 1 .. Size(r, w) + 1
    BY <1>1
  <2> QED
    BY <1>2, <2>1, <2>2 DEF QueueOf
<1> HIDE DEF old, new
<1>7. Append(old, p[w].serial) \in Seq(Serials)
      /\ Len(Append(old, p[w].serial)) = Size(r, w) + 1
      /\ \A i \in 1 .. Size(r, w) : Append(old, p[w].serial)[i] = old[i]
      /\ Append(old, p[w].serial)[Size(r, w) + 1] = p[w].serial
  BY <1>3, <1>5
<1>8. \A i \in 1 .. Size(r, w) + 1 : new[i] = Append(old, p[w].serial)[i]
  <2>1. \A i \in 1 .. Size(r, w) + 1 : i \in 1 .. Size(r, w) \/ i = Size(r, w) + 1
    BY <1>1
  <2> QED
    BY <2>1, <1>6, <1>7
<1>9. new = Append(old, p[w].serial)
  BY <1>4, <1>7, <1>8, SameNumbers
<1> QED
  BY <1>9 DEF old, new

LEMMA QueueRelease ==
  ASSUME NEW r \in Slots, NEW w \in Slots, r # w, NEW p \in [Slots -> Pictures]
  PROVE  /\ QueueOf(r, w, p) # <<>> /\ Head(QueueOf(r, w, p)) = p[r].serial
         /\ QueueOf(After(r), w, p) = Tail(QueueOf(r, w, p))
<1>1. /\ Size(After(r), w) = Size(r, w) - 1
      /\ Size(r, w) \in 1 .. N-1
      /\ After(r) \in Slots /\ After(r) = IF r = N-1 THEN 0 ELSE r+1
  BY SizeIs, SizeAfterRelease, AfterIs, NAssumption
<1> DEFINE old == QueueOf(r, w, p)  new == QueueOf(After(r), w, p)
<1>2. old \in Seq(Serials) /\ Len(old) = Size(r, w)
  BY QueueTyped
<1>3. new \in Seq(Serials) /\ Len(new) = Size(r, w) - 1
  BY <1>1, QueueTyped
<1>4. \A i \in 1 .. Size(r, w) - 1 :
        i+1 \in 1 .. Size(r, w) /\ SlotAt(After(r), i) = SlotAt(r, i+1)
  <2> SUFFICES ASSUME NEW i \in 1 .. Size(r, w) - 1
               PROVE  i+1 \in 1 .. Size(r, w) /\ SlotAt(After(r), i) = SlotAt(r, i+1)
    OBVIOUS
  <2>1. i \in 1 .. N /\ i+1 \in 1 .. N /\ i+1 \in 1 .. Size(r, w)
    BY <1>1, NAssumption
  <2>2. SlotAt(r, i+1) = IF r + (i+1) - 1 < N THEN r + (i+1) - 1 ELSE r + (i+1) - 1 - N
    BY <2>1, SlotAtIs
  <2>3. SlotAt(After(r), i) =
          IF After(r) + i - 1 < N THEN After(r) + i - 1 ELSE After(r) + i - 1 - N
    BY <1>1, <2>1, SlotAtIs
  <2> QED
    BY <1>1, <2>1, <2>2, <2>3, NAssumption DEF Slots
<1>5. \A i \in 1 .. Size(r, w) - 1 : new[i] = old[i+1]
  BY <1>1, <1>4 DEF QueueOf
<1>6. old[1] = p[r].serial
  <2>1. 1 \in 1 .. Size(r, w) /\ SlotAt(r, 1) = r
    BY <1>1, SlotAtIs, NAssumption DEF Slots
  <2> QED
    BY <2>1 DEF QueueOf
<1> HIDE DEF old, new
<1>7. old # <<>> /\ Head(old) = p[r].serial
  BY <1>1, <1>2, <1>6
<1>8. /\ Tail(old) \in Seq(Serials) /\ Len(Tail(old)) = Size(r, w) - 1
      /\ \A i \in 1 .. Size(r, w) - 1 : Tail(old)[i] = old[i+1]
  BY <1>2, <1>7
<1>9. new = Tail(old)
  BY <1>1, <1>3, <1>5, <1>8
<1> QED
  BY <1>7, <1>9 DEF old, new

\* The buffer that is being drawn has the number the next Commit gives.
NumberDrawn == Drawing => pic[midx].serial = NextSerial(made)

\* A step that moves no pointer and renumbers no filled slot.
LEMMA QueueStays ==
  ASSUME RingTypeOK, UNCHANGED ringVars,
         \A f \in Slots \ {wrptr} : pic'[f].serial = pic[f].serial
  PROVE  Queue' = Queue
<1>1. PICK q : q = pic'
  OBVIOUS
<1>2. QueueOf(rdptr, wrptr, q) = QueueOf(rdptr, wrptr, pic)
  BY <1>1, SameQueue DEF RingTypeOK
<1> QED
  BY <1>1, <1>2, QueueIs, QueueNextIs DEF ringVars

LEMMA EndResets ==
  ASSUME NEW how, ProcessEnds(how)
  PROVE  Fifo!Reset
<1>1. rdptr' = 0 /\ wrptr' = 0 /\ made' = 0 /\ shown' = -1
  BY DEF ProcessEnds, RingReset
<1>2. Size(0, 0) = 0
  BY SizeIs, NAssumption DEF Slots
<1>3. Queue' = <<>>
  BY <1>1, <1>2, QueueNextIs DEF QueueOf
<1> QED
  BY <1>1, <1>3 DEF Fifo!Reset

LEMMA NextImplementsFifo ==
  ASSUME PipelineInvariant, NumberDrawn, [Next]_vars
  PROVE  /\ NumberDrawn'
         /\ Fifo!FifoNext \/ UNCHANGED <<Queue, made, shown>>
<1> USE DEF NumberDrawn, Drawing, MainAt
<1>1. RingTypeOK /\ pic \in [Slots -> Pictures] /\ midx \in Slots
      /\ rdptr \in Slots /\ wrptr \in Slots
  BY DEF PipelineInvariant, TypeOK, RingTypeOK
<1>2. CASE Exit \/ OutOfScreens \/ Crash
  <2>1. PICK how \in {"exited", "dead"} : ProcessEnds(how)
    BY <1>2 DEF Exit, OutOfScreens, Crash
  <2>2. mpc' \in {"exited", "dead"}
    BY <2>1 DEF ProcessEnds
  <2> QED
    BY <2>1, <2>2, EndResets DEF Fifo!FifoNext
<1>3. CASE InitBlankScreen
  <2>1. \A f \in Slots : pic'[f].serial = pic[f].serial
    BY <1>1, <1>3 DEF InitBlankScreen, NewSession, Pictures
  <2>2. UNCHANGED <<ringVars, made, shown>> /\ mpc' = "create"
    BY <1>3 DEF InitBlankScreen
  <2> QED
    BY <1>1, <2>1, <2>2, QueueStays
<1>4. CASE ClearScreens
  <2>1. ~running
    BY <1>4 DEF ClearScreens, PipelineInvariant, Phases, Rendering
  <2>2. pic' = pic /\ UNCHANGED <<ringVars, made, shown>> /\ mpc' = "waitidle"
    BY <1>4, <2>1 DEF ClearScreens
  <2> QED
    BY <1>1, <2>2, QueueStays
<1>5. CASE GetEmpty
  <2>1. /\ pic' = [pic EXCEPT ![wrptr] =
                     [serial |-> NextSerial(made), own |-> TRUE, whole |-> FALSE]]
        /\ midx' = wrptr /\ UNCHANGED <<ringVars, made, shown>>
    BY <1>5 DEF GetEmpty, GetEmptyBuffer
  <2>2. /\ pic'[wrptr].serial = NextSerial(made)
        /\ \A f \in Slots \ {wrptr} : pic'[f] = pic[f]
    BY <1>1, <2>1
  <2>3. Queue' = Queue
    BY <1>1, <2>1, <2>2, QueueStays
  <2>4. NumberDrawn'
    BY <2>1, <2>2 DEF NextSerial
  <2> QED
    BY <2>1, <2>3, <2>4
<1>6. CASE Submit
  <2>1. /\ pic' = [pic EXCEPT ![midx] = [pic[midx] EXCEPT !.whole = (mtodo = 1)]]
        /\ UNCHANGED <<ringVars, made, shown>> /\ midx' = midx /\ mpc = "render"
    BY <1>6 DEF Submit
  <2>2. [pic[midx] EXCEPT !.whole = (mtodo = 1)].serial = pic[midx].serial
    BY <1>1 DEF Pictures
  <2>3. \A f \in Slots : pic'[f].serial = pic[f].serial
    BY <1>1, <2>1, <2>2
  <2>4. Queue' = Queue
    BY <1>1, <2>1, <2>3, QueueStays
  <2>5. NumberDrawn'
    BY <1>1, <2>1, <2>3 DEF NextSerial
  <2> QED
    BY <2>1, <2>4, <2>5
<1>7. CASE Commit
  <2>1. /\ mpc = "commit" /\ mpc' = "check" /\ pic' = pic /\ shown' = shown
        /\ rdptr' = rdptr /\ wrptr' = After(wrptr) /\ made' = NextSerial(made)
    BY <1>7 DEF Commit, CommitBuffer
  <2>2. Size(rdptr, wrptr) <= N-2 /\ pic[wrptr].serial = NextSerial(made)
    BY <2>1 DEF PipelineInvariant, Room, RingSize
  <2>3. Queue' = Append(Queue, made')
    BY <1>1, <2>1, <2>2, QueueCommit, QueueIs, QueueNextIs
  <2>4. Len(Queue) < N-1
    <3>1. Len(Queue) = Size(rdptr, wrptr) /\ Size(rdptr, wrptr) \in 0 .. N-1
      BY <1>1, QueueTyped, QueueIs, SizeIs
    <3> QED
      BY <2>2, <3>1, NAssumption
  <2>5. Fifo!Put
    BY <2>1, <2>3, <2>4 DEF Fifo!Put, NextSerial
  <2> QED
    BY <2>1, <2>5 DEF Fifo!FifoNext
<1>8. CASE Release
  <2>1. /\ opc = "release" /\ pic' = pic /\ midx' = midx /\ mpc' = mpc
        /\ rdptr' = After(rdptr) /\ wrptr' = wrptr /\ made' = made /\ shown' = shown
    BY <1>8 DEF Release, ReleaseBuffer, mainVars
  <2>2. rdptr # wrptr /\ Size(rdptr, wrptr) >= 3
    BY <2>1 DEF PipelineInvariant, Hold, RingSize
  <2>3. Queue' = Tail(Queue)
    BY <1>1, <2>1, <2>2, QueueRelease, QueueIs, QueueNextIs
  <2>4. Len(Queue) > 2
    <3>1. Len(Queue) = Size(rdptr, wrptr) /\ Size(rdptr, wrptr) \in 0 .. N-1
      BY <1>1, QueueTyped, QueueIs, SizeIs
    <3> QED
      BY <2>2, <3>1, NAssumption
  <2>5. Fifo!Drop
    BY <2>1, <2>3, <2>4 DEF Fifo!Drop
  <2>6. NumberDrawn'
    BY <2>1 DEF NextSerial
  <2> QED
    BY <2>5, <2>6 DEF Fifo!FifoNext
<1>9. CASE Txmit
  <2>1. /\ opc = "txmit" /\ shown' = pic[oidx].serial
        /\ UNCHANGED <<ringVars, pic, midx, mpc, made>>
    BY <1>9 DEF Txmit, mainVars
  <2>2. oidx = rdptr /\ rdptr # wrptr
    BY <2>1 DEF PipelineInvariant, Hold
  <2>3. Queue # <<>> /\ Head(Queue) = pic[rdptr].serial
    BY <1>1, <2>2, QueueRelease, QueueIs
  <2>4. Queue' = Queue
    BY <1>1, <2>1, QueueStays
  <2>5. Fifo!Show
    BY <2>1, <2>2, <2>3, <2>4 DEF Fifo!Show
  <2>6. NumberDrawn'
    BY <2>1 DEF NextSerial
  <2> QED
    BY <2>5, <2>6 DEF Fifo!FifoNext
<1>10. CASE \/ MainLoop \/ UnsupportedSize \/ CreateOverlay \/ InstallHandler \/ WaitIdle
            \/ StartRendering \/ RingWait \/ LeaveLoop \/ SkipRest \/ Drain
            \/ CheckResolution \/ StopRendering \/ Join
  <2>1. /\ UNCHANGED ringVars /\ pic' = pic /\ midx' = midx
        /\ made' = made /\ shown' = shown
        /\ mpc' \in {"render", "drain", "commit"} => mpc \in {"render", "drain", "commit"}
    BY <1>10 DEF MainLoop, MainGoes, UnsupportedSize, CreateOverlay, InstallHandler, WaitIdle,
         StartRendering, RingWait, LeaveLoop, SkipRest, Drain, CheckResolution,
         StopRendering, Join
  <2>2. NumberDrawn'
    BY <2>1 DEF NextSerial
  <2> QED
    BY <1>1, <2>1, <2>2, QueueStays
<1>11. CASE \/ AwaitRunning \/ AwaitSigint \/ FirstFilled \/ OverlayLoop
            \/ TxmitFull \/ WaitPending \/ KeepFilled \/ NextFilled
  <2>1. UNCHANGED <<ringVars, pic, midx, mpc, made, shown>>
    BY <1>11 DEF AwaitRunning, AwaitSigint, FirstFilled, OverlayLoop, TxmitFull,
         WaitPending, KeepFilled, NextFilled, OverlayGoes, mainVars
  <2>2. NumberDrawn'
    BY <2>1 DEF NextSerial
  <2> QED
    BY <1>1, <2>1, <2>2, QueueStays
<1>12. CASE \/ Signal \/ RenderDone \/ TxStart \/ TxDone \/ VideoChange \/ UNCHANGED vars
  <2>1. UNCHANGED <<ringVars, pic, midx, mpc, made, shown>>
    BY <1>12 DEF Signal, SigStop, SigFlag, RenderDone, TxStart, TxDone, VideoChange, vars,
         mainVars, ringVars
  <2>2. NumberDrawn'
    BY <2>1 DEF NextSerial
  <2> QED
    BY <1>1, <2>1, <2>2, QueueStays
<1>13. CASE Restart
  <2>1. UNCHANGED <<ringVars, pic, midx, made, shown>> /\ mpc' = "loop"
    BY <1>13 DEF Restart
  <2> QED
    BY <1>1, <2>1, QueueStays
<1> QED
  BY <1>2, <1>3, <1>4, <1>5, <1>6, <1>7, <1>8, <1>9, <1>10, <1>11, <1>12, <1>13
  DEF Next, Main, Overlay

\* Render, the ring and Thread4Overlay together are a bounded FIFO of pictures: they
\* are handed to the display in the order they were drawn, only the oldest one is,
\* and it is dropped only while more than two are filled, whatever the signal
\* handler and a restart do in between.
THEOREM PicturesAreFifo == Spec => IsFifo
<1>1. Init => NumberDrawn /\ Fifo!FifoInit
  <2> SUFFICES ASSUME Init PROVE NumberDrawn /\ Fifo!FifoInit
    OBVIOUS
  <2>1. Size(rdptr, wrptr) = 0
    BY SizeIs, NAssumption DEF Init, RingInit, Slots
  <2>2. Queue = <<>>
    BY <2>1, QueueIs DEF QueueOf
  <2> QED
    BY <2>2 DEF Init, NumberDrawn, Drawing, Fifo!FifoInit
<1>2. PipelineInvariant /\ NumberDrawn /\ [Next]_vars
        => NumberDrawn' /\ [Fifo!FifoNext]_<<Queue, made, shown>>
  BY NextImplementsFifo
<1> QED
  BY <1>1, <1>2, InvariantHolds, PTL DEF Spec, IsFifo, Fifo!FifoSpec, Fifo!fifoVars

-----------------------------------------------------------------------------
(* What a session knows of the FIFO of the overlay DMA. *)

LEMMA NextFlushed ==
  ASSUME PipelineInvariant, Flushed, [Next]_vars
  PROVE  Flushed'
<1>1. TypeOK /\ Phases
  BY DEF PipelineInvariant
<1>2. CASE Exit \/ OutOfScreens \/ Crash
  <2>1. opc' = "none" /\ mpc' # "create"
    BY <1>2 DEF Exit, OutOfScreens, Crash, ProcessEnds
  <2> QED
    BY <2>1 DEF Flushed
<1>3. CASE InitBlankScreen
  <2>1. handed' = "none" /\ ~running' /\ opc' = "none"
    BY <1>1, <1>3 DEF InitBlankScreen, NewSession, MainAt, Phases, SettingUp, Rendering,
         overlayVars
  <2> QED
    BY <2>1 DEF Flushed
<1>4. CASE CreateOverlay \/ StartRendering \/ Join
  <2>1. CASE CreateOverlay
    BY <2>1 DEF CreateOverlay, MainAt, Flushed, txVars
  <2>2. CASE StartRendering
    <3>1. mpc = "start" /\ mpc' = "ringwait" /\ UNCHANGED <<opc, handed>>
      BY <2>2 DEF StartRendering, MainAt, overlayVars, txVars
    <3>2. opc \in {"none", "await", "awaitsig", "done"}
      BY <1>1, <3>1 DEF Phases, Working, Rendering, TypeOK, OverlayPCs
    <3> QED
      BY <3>1, <3>2 DEF Flushed
  <2>3. CASE Join
    BY <2>3 DEF Join, Flushed
  <2> QED
    BY <1>4, <2>1, <2>2, <2>3
<1>5. CASE \/ MainLoop \/ UnsupportedSize \/ InstallHandler \/ ClearScreens
           \/ WaitIdle \/ RingWait \/ LeaveLoop \/ GetEmpty \/ Submit
           \/ SkipRest \/ Drain \/ Commit \/ CheckResolution \/ StopRendering \/ Restart
  <2>1. UNCHANGED <<opc, txq, handed>> /\ mpc' # "create"
    BY <1>5 DEF MainLoop, MainGoes, UnsupportedSize, InstallHandler,
         ClearScreens, WaitIdle, RingWait, LeaveLoop, GetEmpty, Submit,
         SkipRest, Drain, Commit, CheckResolution, StopRendering, Restart, overlayVars, txVars
  <2>2. running' => running
    <3>1. CASE CheckResolution \/ StopRendering
      BY <3>1 DEF CheckResolution, StopRendering
    <3>2. CASE ~(CheckResolution \/ StopRendering)
      <4>1. running' = running
        BY <1>5, <3>2 DEF MainLoop, MainGoes, UnsupportedSize, InstallHandler, ClearScreens,
             WaitIdle, RingWait, LeaveLoop, GetEmpty, Submit, SkipRest, Drain, Commit, Restart
      <4> QED
        BY <4>1
    <3> QED
      BY <3>1, <3>2
  <2> QED
    BY <2>1, <2>2 DEF Flushed
<1>6. CASE Txmit \/ TxmitFull
  <2>1. opc = "txmit" /\ opc' = "pending" /\ mpc' = mpc
    BY <1>6 DEF Txmit, TxmitFull, mainVars
  <2>2. mpc # "create"
    BY <1>1, <2>1 DEF Phases
  <2> QED
    BY <2>1, <2>2 DEF Flushed
<1>7. CASE AwaitRunning \/ AwaitSigint \/ FirstFilled \/ OverlayLoop \/ WaitPending
           \/ KeepFilled \/ Release \/ NextFilled
  <2>1. UNCHANGED <<mpc, running, txq, handed>>
    BY <1>7 DEF AwaitRunning, AwaitSigint, FirstFilled, OverlayLoop, WaitPending, KeepFilled,
         Release, NextFilled, OverlayGoes, mainVars, txVars
  <2>2. \/ opc = "await" /\ opc' \in {"first", "awaitsig"}
        \/ opc = "awaitsig" /\ opc' \in {"done", "await"}
        \/ opc = "first" /\ opc' = "loop"
        \/ opc = "loop" /\ opc' = IF running THEN "txmit" ELSE "done"
        \/ opc = "pending" /\ opc' = "size" /\ (~running \/ txq = <<>>)
        \/ opc = "size" /\ opc' \in {"release", "loop"}
        \/ opc = "release" /\ opc' = "next"
        \/ opc = "next" /\ opc' = "loop"
    BY <1>7 DEF AwaitRunning, AwaitSigint, FirstFilled, OverlayLoop, WaitPending, KeepFilled,
         Release, NextFilled, OverlayGoes, PendingTxmit
  <2> QED
    BY <2>1, <2>2 DEF Flushed
<1>8. CASE Signal \/ RenderDone \/ TxStart \/ TxDone \/ VideoChange \/ UNCHANGED vars
  <2>1. /\ UNCHANGED <<mpc, opc, handed>> /\ (running' => running)
        /\ (txq' = txq \/ txq # <<>>)
    BY <1>8 DEF Signal, SigStop, SigFlag, RenderDone, TxStart, TxDone, VideoChange, vars,
         mainVars, overlayVars, txVars
  <2> QED
    BY <2>1 DEF Flushed
<1> QED
  BY <1>2, <1>3, <1>4, <1>5, <1>6, <1>7, <1>8 DEF Next, Main, Overlay

LEMMA NextAccepted ==
  ASSUME PipelineInvariant, Flushed, Accepted, [Next]_vars
  PROVE  Accepted'
<1>1. /\ TypeOK /\ Phases /\ Room /\ Hold /\ rdptr \in Slots
      /\ txq \in Seq(Descriptors) /\ pic \in [Slots -> Pictures]
  BY DEF PipelineInvariant, TypeOK, RingTypeOK
<1>2. CASE Exit \/ OutOfScreens \/ Crash \/ InitBlankScreen \/ StartRendering \/ Join
           \/ CreateOverlay
  <2>1. opc' \in {"none", "await", "awaitsig", "done"}
    <3>1. CASE Exit \/ OutOfScreens \/ Crash
      BY <3>1 DEF Exit, OutOfScreens, Crash, ProcessEnds
    <3>2. CASE Join \/ CreateOverlay
      BY <3>2 DEF Join, CreateOverlay
    <3>3. CASE InitBlankScreen \/ StartRendering
      <4>1. mpc \in {"submain", "start"} /\ opc' = opc
        BY <3>3 DEF InitBlankScreen, StartRendering, MainAt, overlayVars
      <4> QED
        BY <1>1, <4>1 DEF Phases, Working, Rendering, TypeOK, OverlayPCs
    <3> QED
      BY <1>2, <3>1, <3>2, <3>3
  <2> QED
    BY <2>1 DEF Accepted
<1>3. CASE \/ MainLoop \/ UnsupportedSize \/ InstallHandler \/ ClearScreens
           \/ WaitIdle \/ RingWait \/ LeaveLoop \/ GetEmpty \/ Submit
           \/ SkipRest \/ Drain \/ Commit \/ CheckResolution \/ StopRendering \/ Restart
  <2>1. UNCHANGED <<opc, txq, txcur, handed, shown, rdptr>>
    BY <1>3 DEF MainLoop, MainGoes, UnsupportedSize, InstallHandler,
         ClearScreens, WaitIdle, RingWait, LeaveLoop, GetEmpty, Submit,
         SkipRest, Drain, Commit, CommitBuffer, CheckResolution, StopRendering, Restart,
         overlayVars, txVars, ringVars
  <2>2. running' => running
    <3>1. CASE CheckResolution \/ StopRendering
      BY <3>1 DEF CheckResolution, StopRendering
    <3>2. CASE ~(CheckResolution \/ StopRendering)
      <4>1. running' = running
        BY <1>3, <3>2 DEF MainLoop, MainGoes, UnsupportedSize, InstallHandler, ClearScreens,
             WaitIdle, RingWait, LeaveLoop, GetEmpty, Submit, SkipRest, Drain, Commit, Restart
      <4> QED
        BY <4>1
    <3> QED
      BY <3>1, <3>2
  <2>3. opc \in {"pending", "size", "release"} => pic'[rdptr].serial = pic[rdptr].serial
    <3>1. CASE GetEmpty
      <4>1. pic' = [pic EXCEPT ![wrptr] =
                      [serial |-> NextSerial(made), own |-> TRUE, whole |-> FALSE]]
        BY <3>1 DEF GetEmpty, GetEmptyBuffer
      <4>2. opc \in {"pending", "size", "release"} => rdptr # wrptr
        BY <1>1 DEF Hold
      <4> QED
        BY <1>1, <4>1, <4>2
    <3>2. CASE Submit
      <4>1. pic' = [pic EXCEPT ![midx] = [pic[midx] EXCEPT !.whole = (mtodo = 1)]]
            /\ midx \in Slots
        BY <1>1, <3>2 DEF Submit, TypeOK
      <4>2. [pic[midx] EXCEPT !.whole = (mtodo = 1)].serial = pic[midx].serial
        BY <1>1, <4>1 DEF Pictures
      <4> QED
        BY <1>1, <4>1, <4>2
    <3>3. CASE ClearScreens
      <4>1. ~running
        BY <1>1, <3>3 DEF ClearScreens, MainAt, Phases, Rendering
      <4> QED
        BY <3>3, <4>1 DEF ClearScreens
    <3>4. CASE ~(GetEmpty \/ Submit \/ ClearScreens)
      <4>1. pic' = pic
        BY <1>3, <3>4 DEF MainLoop, MainGoes, UnsupportedSize, InstallHandler,
             WaitIdle, RingWait, LeaveLoop, SkipRest, Drain, Commit, CheckResolution,
             StopRendering, Restart
      <4> QED
        BY <4>1
    <3> QED
      BY <3>1, <3>2, <3>3, <3>4
  <2> QED
    BY <2>1, <2>2, <2>3 DEF Accepted, AllOwn
<1>4. CASE Txmit
  <2>1. /\ txq' = Append(txq, [slot |-> oidx, own |-> TRUE]) /\ opc' = "pending"
        /\ shown' = pic[rdptr].serial /\ pic' = pic /\ rdptr' = rdptr /\ handed' = "queued"
    BY <1>1, <1>4 DEF Txmit, Hold, ringVars
  <2>2. [slot |-> oidx, own |-> TRUE] \in Descriptors
    BY <1>1, <1>4 DEF Txmit, Hold, Descriptors
  <2>3. txq' # <<>> /\ txq'[Len(txq')].own
    BY <1>1, <2>1, <2>2
  <2> QED
    BY <2>1, <2>3 DEF Accepted
<1>5. CASE TxmitFull
  <2>1. opc' = "pending" /\ handed' = "dropped"
    BY <1>5 DEF TxmitFull
  <2> QED
    BY <2>1 DEF Accepted
<1>6. CASE WaitPending
  <2>1. /\ opc = "pending" /\ opc' = "size" /\ (~running \/ txq = <<>>)
        /\ UNCHANGED <<txcur, handed, running, shown, pic, rdptr>>
    BY <1>6 DEF WaitPending, OverlayGoes, PendingTxmit, txVars, ringVars
  <2> QED
    BY <2>1 DEF Accepted, AllOwn
<1>7. CASE KeepFilled \/ Release
  <2>1. /\ \/ opc = "size" /\ opc' \in {"release", "loop"} /\ UNCHANGED rdptr
           \/ opc = "release" /\ opc' = "next"
        /\ UNCHANGED <<txcur, handed, running, shown, pic>>
    BY <1>7 DEF KeepFilled, Release, OverlayGoes, txVars, ringVars
  <2> QED
    BY <2>1 DEF Accepted, AllOwn
<1>8. CASE AwaitRunning \/ AwaitSigint \/ FirstFilled \/ OverlayLoop \/ NextFilled
  <2>1. opc' \in {"first", "awaitsig", "done", "await", "loop", "txmit"}
    BY <1>8 DEF AwaitRunning, AwaitSigint, FirstFilled, OverlayLoop, NextFilled, OverlayGoes
  <2> QED
    BY <2>1 DEF Accepted
<1>9. CASE TxStart
  <2>1. /\ txq # <<>> /\ txq' = Tail(txq) /\ txcur' = <<Head(txq)>>
        /\ UNCHANGED <<opc, handed, running, shown, pic, rdptr>>
    BY <1>9 DEF TxStart, overlayVars, ringVars
  <2>2. opc = "pending" /\ handed = "queued" =>
          IF txq' # <<>> THEN txq'[Len(txq')].own ELSE AllOwn(txcur')
    <3>1. SUFFICES ASSUME opc = "pending", handed = "queued"
                   PROVE  IF txq' # <<>> THEN txq'[Len(txq')].own ELSE AllOwn(txcur')
      OBVIOUS
    <3>2. txq[Len(txq)].own
      BY <2>1, <3>1 DEF Accepted
    <3>3. Len(txq) >= 1 /\ Len(Tail(txq)) = Len(txq) - 1
      BY <1>1, <2>1
    <3>4. CASE txq' # <<>>
      <4>1. txq'[Len(txq')] = txq[Len(txq)]
        BY <1>1, <2>1, <3>3, <3>4
      <4> QED
        BY <3>2, <3>4, <4>1
    <3>5. CASE txq' = <<>>
      <4>1. Len(txq) = 1
        <5>1. Tail(txq) = <<>>
          BY <2>1, <3>5
        <5>2. \A s : s = <<>> => Len(s) = 0
          OBVIOUS
        <5>3. Len(Tail(txq)) = 0
          BY <5>1, <5>2, Zenon
        <5>4. Len(txq) \in Nat
          BY <1>1
        <5> QED
          BY <3>3, <5>3, <5>4
      <4>2. Head(txq) = txq[Len(txq)]
        BY <1>1, <2>1, <4>1
      <4>3. DOMAIN <<Head(txq)>> = {1} /\ <<Head(txq)>>[1] = Head(txq)
        OBVIOUS
      <4> QED
        BY <2>1, <3>2, <3>5, <4>2, <4>3 DEF AllOwn
    <3> QED
      BY <3>4, <3>5
  <2> QED
    BY <2>1, <2>2 DEF Accepted, Flushed
<1>10. CASE TxDone
  <2>1. txcur' = <<>> /\ UNCHANGED <<opc, handed, running, shown, pic, rdptr, txq>>
    BY <1>10 DEF TxDone, overlayVars, ringVars
  <2>2. AllOwn(txcur')
    BY <2>1 DEF AllOwn
  <2> QED
    BY <2>1, <2>2 DEF Accepted
<1>11. CASE Signal \/ RenderDone \/ VideoChange \/ UNCHANGED vars
  <2>1. UNCHANGED <<opc, handed, shown, pic, rdptr, txq, txcur>> /\ (running' => running)
    BY <1>11 DEF Signal, SigStop, SigFlag, RenderDone, VideoChange, vars,
         mainVars, overlayVars, txVars, ringVars
  <2> QED
    BY <2>1 DEF Accepted, AllOwn
<1> QED
  BY <1>2, <1>3, <1>4, <1>5, <1>6, <1>7, <1>8, <1>9, <1>10, <1>11
  DEF Next, Main, Overlay

LEMMA InitFlushed == Init => Flushed /\ Accepted
BY DEF Init, Flushed, Accepted

LEMMA NextKnown ==
  PipelineInvariant /\ Flushed /\ Accepted /\ [Next]_vars => Flushed' /\ Accepted'
BY NextFlushed, NextAccepted

\* When the wait of a running session has ended, nothing of an earlier one is left in the
\* overlay DMA, but what it still reads when its FIFO was full of it.
THEOREM FirstFlushes == Spec => []FirstWaitFlushes
<1>1. PipelineInvariant /\ Flushed /\ Accepted => FirstWaitFlushes
  <2> SUFFICES ASSUME PipelineInvariant, Flushed, Accepted, running,
                      opc \in {"size", "release", "next"}, NEW d \in Pending
               PROVE  d.own \/ (handed = "dropped" /\ ~PendingTxmit)
    BY DEF FirstWaitFlushes
  <2>1. txq = <<>> /\ handed # "none" /\ (handed = "queued" => AllOwn(txcur))
    BY DEF Flushed, Accepted
  <2>2. handed \in {"queued", "dropped"}
    BY <2>1 DEF PipelineInvariant, TypeOK
  <2>3. \E i \in DOMAIN txcur : d = txcur[i]
    BY <2>1 DEF Pending
  <2> QED
    BY <2>1, <2>2, <2>3 DEF AllOwn, PendingTxmit
<1> QED
  BY <1>1, InitFlushed, NextKnown, InvariantHolds, PTL DEF Spec

\* No picture leaves the ring without having been accepted by the overlay DMA, but perhaps
\* the first one that a session hands over: for an overlay DMA of any depth.
THEOREM NonePassedOver == Spec => NoPictureSkipped
<1>1. PipelineInvariant /\ Flushed /\ Accepted /\ [Next]_vars =>
        [/\ rdptr' # rdptr /\ opc' # "none" => shown = pic[rdptr].serial \/ handed = "dropped"
         /\ opc = "txmit" /\ opc' = "pending" /\ handed' = "dropped" => handed = "none"]_vars
  <2> SUFFICES ASSUME PipelineInvariant, Flushed, Accepted, Next
               PROVE  /\ rdptr' # rdptr /\ opc' # "none"
                           => shown = pic[rdptr].serial \/ handed = "dropped"
                      /\ opc = "txmit" /\ opc' = "pending" /\ handed' = "dropped"
                           => handed = "none"
    OBVIOUS
  <2>1. CASE Exit \/ OutOfScreens \/ Crash
    BY <2>1 DEF Exit, OutOfScreens, Crash, ProcessEnds
  <2>2. CASE Release
    <3>1. handed \in {"queued", "dropped"}
      BY <2>2 DEF Release, Accepted, PipelineInvariant, TypeOK
    <3> QED
      BY <2>2, <3>1 DEF Release, Accepted
  <2>3. CASE Txmit
    BY <2>3 DEF Txmit, ringVars
  <2>4. CASE TxmitFull
    <3>1. rdptr' = rdptr /\ opc = "txmit" /\ Len(txq) >= TxDepth
      BY <2>4 DEF TxmitFull, ringVars
    <3>2. txq # <<>>
      <4>1. \A q : q = <<>> => Len(q) = 0
        OBVIOUS
      <4>2. txq = <<>> => Len(txq) = 0
        BY <4>1, Zenon
      <4> QED
        BY <3>1, <4>2, PipelineAssumption
    <3> QED
      BY <3>1, <3>2 DEF Flushed
  <2>5. CASE ~(Exit \/ OutOfScreens \/ Crash \/ Release \/ Txmit \/ TxmitFull)
    <3>1. rdptr' = rdptr /\ ~(opc = "txmit" /\ opc' = "pending")
      <4>1. CASE Main
        BY <2>5, <4>1 DEF Main, MainLoop, MainGoes, UnsupportedSize, InitBlankScreen,
             CreateOverlay, InstallHandler, ClearScreens, WaitIdle, StartRendering, RingWait,
             LeaveLoop, GetEmpty, Submit, SkipRest, Drain, Commit, CommitBuffer,
             CheckResolution, StopRendering, Join, ringVars, overlayVars
      <4>2. CASE ~Main
        BY <2>5, <4>2 DEF Next, Overlay, AwaitRunning, AwaitSigint, FirstFilled, OverlayLoop,
             WaitPending, KeepFilled, NextFilled, OverlayGoes, Signal,
             SigStop, SigFlag, RenderDone, TxStart, TxDone, VideoChange, Restart, ringVars,
             overlayVars
      <4> QED
        BY <4>1, <4>2
    <3> QED
      BY <3>1
  <2> QED
    BY <2>1, <2>2, <2>3, <2>4, <2>5
<1> QED
  BY <1>1, InitFlushed, NextKnown, InvariantHolds, PTL DEF Spec, NoPictureSkipped

-----------------------------------------------------------------------------
(* What the sessions leave in the FIFO of the overlay DMA. *)

LEMMA SessionsAre ==
  ASSUME TypeOK
  PROVE  Sessions \in Nat /\ PoolScreens * restarts \in Nat
<1>1. PoolScreens \in Nat /\ restarts \in Nat /\ screens \in Nat
  BY PipelineAssumption DEF TypeOK
<1>2. PoolScreens * restarts \in Nat
  BY <1>1
<1> QED
  BY <1>1, <1>2 DEF Sessions

\* A session is begun with a blank screen and never forgotten.
LEMMA SessionsStay ==
  ASSUME UNCHANGED <<screens, restarts>>,
         mpc' \in {"exited", "dead"} <=> mpc \in {"exited", "dead"}
  PROVE  Sessions' = Sessions
  BY DEF Sessions

LEMMA SessionsGrow ==
  ASSUME TypeOK, [Next]_vars
  PROVE  /\ Sessions' >= Sessions
         /\ InitBlankScreen => Sessions' = Sessions + 1 /\ screens' >= 1
         /\ ~(InitBlankScreen \/ Exit \/ OutOfScreens \/ Crash \/ Restart) => Sessions' = Sessions
<1>1. /\ PoolScreens \in Nat /\ restarts \in Nat /\ screens \in 0 .. PoolScreens
      /\ PoolScreens * restarts \in Nat /\ Sessions \in Nat
  BY SessionsAre, PipelineAssumption DEF TypeOK
<1>2. CASE Exit \/ OutOfScreens \/ Crash
  <2>1. PICK how \in {"exited", "dead"} : ProcessEnds(how)
    BY <1>2 DEF Exit, OutOfScreens, Crash
  <2>2. mpc' \in {"exited", "dead"} /\ restarts' = restarts
    BY <2>1 DEF ProcessEnds
  <2>3. ~InitBlankScreen
    BY <2>1 DEF InitBlankScreen, ProcessEnds
  <2> QED
    BY <1>1, <1>2, <2>2, <2>3 DEF Sessions
<1>3. CASE InitBlankScreen
  <2>1. /\ mpc = "submain" /\ mpc' = "create" /\ screens' = screens + 1
        /\ restarts' = restarts
    BY <1>3 DEF InitBlankScreen, MainAt
  <2> QED
    BY <1>1, <1>3, <2>1 DEF Sessions
<1>4. CASE Restart
  <2>1. /\ mpc \in {"exited", "dead"} /\ mpc' = "loop" /\ restarts' = restarts + 1
        /\ screens' = screens
    BY <1>4 DEF Restart
  <2>2. PoolScreens * (restarts + 1) = PoolScreens * restarts + PoolScreens
    BY <1>1 DEF TypeOK
  <2>3. Sessions = PoolScreens * restarts + PoolScreens
    BY <2>1 DEF Sessions
  <2>4. Sessions' = PoolScreens * (restarts + 1) + screens
    BY <2>1 DEF Sessions
  <2> QED
    BY <1>1, <1>4, <2>1, <2>2, <2>3, <2>4 DEF InitBlankScreen, MainAt
<1>5. CASE \/ MainLoop \/ UnsupportedSize \/ CreateOverlay \/ InstallHandler \/ ClearScreens
           \/ WaitIdle \/ StartRendering \/ RingWait \/ LeaveLoop \/ GetEmpty \/ Submit
           \/ SkipRest \/ Drain \/ Commit \/ CheckResolution \/ StopRendering \/ Join
  <2>1. UNCHANGED <<screens, restarts>>
        /\ mpc \notin {"exited", "dead"} /\ mpc' \notin {"exited", "dead"}
    BY <1>5 DEF MainLoop, MainGoes, UnsupportedSize, CreateOverlay, InstallHandler,
         ClearScreens, WaitIdle, StartRendering, RingWait, LeaveLoop, GetEmpty, Submit,
         SkipRest, Drain, Commit, CheckResolution, StopRendering, Join, MainAt
  <2> QED
    BY <1>1, <2>1, SessionsStay DEF InitBlankScreen
<1>6. CASE Overlay \/ Signal \/ RenderDone \/ TxStart \/ TxDone \/ VideoChange \/ UNCHANGED vars
  <2>1. UNCHANGED <<mpc, screens, restarts>>
    BY <1>6 DEF Overlay, AwaitRunning, AwaitSigint, FirstFilled, OverlayLoop, Txmit,
         TxmitFull, WaitPending, KeepFilled, Release, NextFilled, OverlayGoes, mainVars,
         Signal, SigStop, SigFlag, RenderDone, TxStart, TxDone, VideoChange, vars
  <2> QED
    BY <1>1, <2>1, SessionsStay DEF InitBlankScreen
<1> QED
  BY <1>2, <1>3, <1>4, <1>5, <1>6 DEF Next, Main

LEMMA NextQueued ==
  ASSUME PipelineInvariant, Queued, [Next]_vars
  PROVE  Queued'
<1> USE DEF Queued, BetweenSessions, NotStarted
<1>1. /\ TypeOK /\ Phases /\ Sessions \in Nat /\ Sessions' \in Nat /\ Sessions' >= Sessions
      /\ Len(txq) \in Nat
      /\ (InitBlankScreen => Sessions' = Sessions + 1 /\ screens' >= 1)
      /\ (~(InitBlankScreen \/ Exit \/ OutOfScreens \/ Crash \/ Restart)
           => Sessions' = Sessions)
  <2>1. TypeOK /\ TypeOK'
    BY NextTyped DEF PipelineInvariant
  <2>2. (TypeOK => Sessions \in Nat)'
    BY SessionsAre, PTL
  <2>3. Len(txq) \in Nat /\ Phases
    BY DEF PipelineInvariant, TypeOK
  <2>4. Sessions \in Nat
    BY <2>1, SessionsAre
  <2> QED
    BY <2>1, <2>2, <2>3, <2>4, SessionsGrow
<1>2. CASE Exit \/ OutOfScreens \/ Crash
  <2>1. PICK how \in {"exited", "dead"} : ProcessEnds(how)
    BY <1>2 DEF Exit, OutOfScreens, Crash
  <2>2. /\ Len(txq') = Len(txq) /\ running' = FALSE /\ opc' = "none"
        /\ mpc' \in {"exited", "dead"}
    BY <1>1, <2>1, DisownIs DEF ProcessEnds, NewSession, TypeOK
  <2> QED
    BY <1>1, <2>2
<1>3. CASE InitBlankScreen
  <2>1. /\ Len(txq') = Len(txq) /\ mpc = "submain" /\ running' = running /\ opc' = opc
        /\ mpc' = "create"
    BY <1>1, <1>3, DisownIs DEF InitBlankScreen, NewSession, MainAt, TypeOK, overlayVars
  <2>2. ~running /\ opc = "none"
    BY <1>1, <2>1 DEF Phases, Rendering, SettingUp
  <2> QED
    BY <1>1, <1>3, <2>1, <2>2
<1>4. CASE Restart
  <2>1. /\ mpc \in {"exited", "dead"} /\ mpc' = "loop"
        /\ UNCHANGED <<txq, running, opc, screens>>
    BY <1>4 DEF Restart, overlayVars, txVars
  <2>2. ~running /\ opc = "none"
    BY <1>1, <2>1 DEF Phases, Rendering, SettingUp
  <2> QED
    BY <1>1, <2>1, <2>2
<1>5. CASE \/ MainLoop \/ UnsupportedSize \/ CreateOverlay \/ InstallHandler \/ ClearScreens
           \/ WaitIdle \/ RingWait \/ LeaveLoop \/ GetEmpty \/ Submit
           \/ SkipRest \/ Drain \/ Commit \/ CheckResolution \/ StopRendering \/ Join
  <2>1. /\ UNCHANGED <<screens, txq>>
        /\ (mpc' \notin BetweenSessions => mpc \notin BetweenSessions)
    BY <1>5 DEF MainLoop, MainGoes, UnsupportedSize, CreateOverlay, InstallHandler,
         ClearScreens, WaitIdle, RingWait, LeaveLoop, GetEmpty, Submit,
         SkipRest, Drain, Commit, CheckResolution, StopRendering, Join, MainAt, txVars
  <2>4. running' => running
    <3>1. CASE CheckResolution \/ StopRendering
      BY <3>1 DEF CheckResolution, StopRendering
    <3>2. CASE ~(CheckResolution \/ StopRendering)
      <4>1. running' = running
        BY <1>5, <3>2 DEF MainLoop, MainGoes, UnsupportedSize, CreateOverlay, InstallHandler,
             ClearScreens, WaitIdle, RingWait, LeaveLoop, GetEmpty, Submit,
             SkipRest, Drain, Commit, Join
      <4> QED
        BY <4>1
    <3> QED
      BY <3>1, <3>2
  <2>3. \/ opc' = opc
        \/ opc = "none" /\ opc' = "await"
        \/ opc' = "none" /\ mpc' = "loop"
    BY <1>1, <1>5 DEF MainLoop, MainGoes, UnsupportedSize, CreateOverlay, InstallHandler,
         ClearScreens, WaitIdle, RingWait, LeaveLoop, GetEmpty, Submit,
         SkipRest, Drain, Commit, CheckResolution, StopRendering, Join, MainAt,
         Phases, overlayVars
  <2>2. Sessions' = Sessions
    BY <1>1, <1>5, SessionsStay DEF MainLoop, MainGoes, UnsupportedSize, CreateOverlay,
         InstallHandler, ClearScreens, WaitIdle, RingWait, LeaveLoop, GetEmpty, Submit,
         SkipRest, Drain, Commit, CheckResolution, StopRendering, Join, MainAt
  <2> QED
    BY <1>1, <2>1, <2>2, <2>3, <2>4
<1>6. CASE StartRendering
  <2>1. /\ mpc = "start" /\ mpc' = "ringwait" /\ UNCHANGED <<screens, restarts, txq, opc>>
    BY <1>6 DEF StartRendering, MainAt, overlayVars, txVars
  <2>2. opc \in {"none", "await", "awaitsig", "done"}
    BY <1>1, <2>1 DEF Phases, Working, Rendering, TypeOK, OverlayPCs
  <2>3. Sessions' = Sessions
    BY <2>1, SessionsStay
  <2> QED
    BY <1>1, <2>1, <2>2, <2>3
<1>7. CASE Overlay
  <2>1. /\ UNCHANGED <<mpc, screens, restarts, running>> /\ Sessions' = Sessions
    BY <1>7, SessionsStay DEF Overlay, AwaitRunning, AwaitSigint, FirstFilled, OverlayLoop,
         Txmit, TxmitFull, WaitPending, KeepFilled, Release, NextFilled, OverlayGoes, mainVars
  <2>2. opc # "none" => mpc \notin BetweenSessions
    BY <1>1 DEF Phases, SettingUp, Rendering
  <2>3. CASE Txmit
    <3>1. /\ Len(txq') = Len(txq) + 1 /\ opc' = "pending"
          /\ opc = "txmit"
      BY <1>1, <2>3 DEF Txmit, TypeOK
    <3> QED
      BY <1>1, <2>1, <3>1
  <2>4. CASE ~Txmit
    <3>1. txq' = txq
      BY <1>7, <2>4 DEF Overlay, AwaitRunning, AwaitSigint, FirstFilled, OverlayLoop,
           TxmitFull, WaitPending, KeepFilled, Release, NextFilled, OverlayGoes, txVars
    <3>2. \/ opc = "await" /\ opc' \in {"first", "awaitsig"}
          \/ opc = "awaitsig" /\ opc' \in {"done", "await"}
          \/ opc = "first" /\ opc' = "loop"
          \/ opc = "loop" /\ opc' = IF running THEN "txmit" ELSE "done"
          \/ opc = "txmit" /\ opc' = "pending"
          \/ opc = "pending" /\ opc' = "size" /\ (~running \/ txq = <<>>)
          \/ opc = "size" /\ opc' \in {"release", "loop"}
          \/ opc = "release" /\ opc' = "next"
          \/ opc = "next" /\ opc' = "loop"
      BY <1>7, <2>4 DEF Overlay, AwaitRunning, AwaitSigint, FirstFilled, OverlayLoop,
           TxmitFull, WaitPending, KeepFilled, Release, NextFilled, OverlayGoes, PendingTxmit
    <3>3. txq = <<>> => Len(txq) = 0
      OBVIOUS
    <3>4. opc # "none" => Sessions >= 1
      <4>1. opc # "none" => screens >= 1 /\ mpc \notin {"exited", "dead"}
        BY <2>2
      <4> QED
        <5>1. opc # "none" => Sessions = PoolScreens * restarts + screens
          BY <4>1 DEF Sessions
        <5>2. PoolScreens * restarts \in Nat /\ screens \in Nat
          BY <1>1, SessionsAre, PipelineAssumption DEF TypeOK
        <5> HIDE DEF Queued
        <5> QED
          BY <4>1, <5>1, <5>2
    <3> QED
      BY <1>1, <2>1, <2>2, <3>1, <3>2, <3>3, <3>4
  <2> QED
    BY <2>3, <2>4
<1>8. CASE Signal \/ RenderDone \/ TxStart \/ TxDone \/ VideoChange \/ UNCHANGED vars
  <2>1. /\ UNCHANGED <<mpc, screens, restarts, opc>> /\ (running' => running)
        /\ (txq' = txq \/ (txq # <<>> /\ txq' = Tail(txq)))
    BY <1>8 DEF Signal, SigStop, SigFlag, RenderDone, TxStart, TxDone, VideoChange, vars,
         mainVars, overlayVars, txVars
  <2>2. Sessions' = Sessions
    BY <2>1, SessionsStay
  <2>3. txq # <<>> => Len(Tail(txq)) = Len(txq) - 1
    BY <1>1 DEF TypeOK
  <2>4. Len(txq') <= Len(txq) /\ Len(txq') \in Nat /\ (txq = <<>> => txq' = <<>>)
    BY <1>1, <2>1, <2>3
  <2> QED
    BY <1>1, <2>1, <2>2, <2>4
<1> QED
  BY <1>2, <1>3, <1>4, <1>5, <1>6, <1>7, <1>8 DEF Next, Main

LEMMA InitQueued == Init => Queued /\ NoneDropped
<1> SUFFICES ASSUME Init PROVE Queued /\ NoneDropped
  OBVIOUS
<1>1. Sessions \in Nat
  BY InitTyped, SessionsAre
<1> QED
  BY <1>1 DEF Init, Queued, NoneDropped, BetweenSessions, NotStarted

LEMMA NextNoneDropped ==
  ASSUME PipelineInvariant, Queued, NoneDropped, [Next]_vars
  PROVE  NoneDropped'
<1>1. Sessions \in Nat /\ Sessions' >= Sessions /\ TxDepth \in Nat /\ Sessions' \in Nat
  <2>1. TypeOK /\ TypeOK'
    BY NextTyped DEF PipelineInvariant
  <2>2. (TypeOK => Sessions \in Nat)'
    BY SessionsAre, PTL
  <2> QED
    BY <2>1, <2>2, SessionsAre, SessionsGrow, PipelineAssumption
<1>2. CASE TxmitFull
  <2>1. Len(txq) >= TxDepth /\ Len(txq) < Sessions /\ Len(txq) \in Nat
    BY <1>2 DEF TxmitFull, Queued, PipelineInvariant, TypeOK
  <2> QED
    BY <1>1, <2>1 DEF NoneDropped
<1>3. CASE ~TxmitFull
  <2>1. handed' \in {handed, "none", "queued"}
    BY <1>3 DEF Next, Main, MainLoop, MainGoes, UnsupportedSize, InitBlankScreen, Exit,
         OutOfScreens, ProcessEnds, NewSession,
         CreateOverlay, InstallHandler, ClearScreens, WaitIdle, StartRendering, RingWait,
         LeaveLoop, GetEmpty, Submit, SkipRest, Drain, Commit, CheckResolution,
         StopRendering, Join, Overlay, AwaitRunning, AwaitSigint, FirstFilled, OverlayLoop,
         Txmit, WaitPending, KeepFilled, Release, NextFilled, OverlayGoes, Signal,
         SigStop, SigFlag, RenderDone, TxStart, TxDone, VideoChange, Crash, Restart, txVars, vars
  <2> QED
    BY <1>1, <2>1 DEF NoneDropped
<1> QED
  BY <1>2, <1>3

LEMMA NextRoom ==
  PipelineInvariant /\ Queued /\ NoneDropped /\ [Next]_vars => Queued' /\ NoneDropped'
BY NextQueued, NextNoneDropped

\* However many sessions there can be: until more of them have begun than descriptors fit
\* in the FIFO, the overlay DMA has dropped no buffer.
THEOREM NoneDroppedWhileRoom == Spec => []NoneDropped
BY InitQueued, NextRoom, InvariantHolds, PTL DEF Spec
=============================================================================
