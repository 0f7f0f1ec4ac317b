---------------------------- MODULE OverlayProofs ----------------------------
(***************************************************************************)
(* The overlay stays in step with the video: for every size of picture,    *)
(* every blanking and every set of frame sizes.                            *)
(***************************************************************************)
EXTENDS OverlayProperties, TLAPS

LEMMA InitInvariant == Init => OverlayInvariant
<1> SUFFICES ASSUME Init PROVE OverlayInvariant
  OBVIOUS
<1>1. TypeOK
  <2>1. frame \in Geometries /\ frame[1] \in Nat \ {0} /\ frame[2] \in Nat \ {0}
    BY OverlayAssumption DEF Init
  <2>2. pixel_sink \in [code : {"pixel"}, x : Int, y : Int] \cup {HSync, VSync}
    BY DEF Init, Garbage, Pixel, HSync, VSync
  <2>3. fx \in 0 .. frame[1] + 1 /\ fy \in 0 .. frame[2] - 1 /\ lag \in Nat
    BY <2>1 DEF Init
  <2>4. fifoRdreq \in BOOLEAN /\ clean \in BOOLEAN
    BY DEF Init
  <2> QED
    BY <2>1, <2>2, <2>3, <2>4 DEF Init, TypeOK
<1> QED
  BY <1>1 DEF Init, OverlayInvariant, InStep

\* What every step does to the position, the request and the history.
LEMMA StepTyped ==
  ASSUME TypeOK, Step, NEW u \in BOOLEAN, History(u)
  PROVE  /\ vx' \in 0 .. W + HBlank - 1 /\ vy' \in 0 .. H + VBlank - 1
         /\ fifoRdreq' \in BOOLEAN /\ clean' \in BOOLEAN /\ lag' \in Nat
<1>1. vx' \in 0 .. W + HBlank - 1 /\ vy' \in 0 .. H + VBlank - 1
  BY OverlayAssumption DEF TypeOK, Step, NextPixel, LineEnds
<1>2. fifoRdreq' \in BOOLEAN
  <2>1. Rdreq \in BOOLEAN
    BY DEF Rdreq
  <2> QED
    BY <2>1 DEF Step
<1>3. clean' \in BOOLEAN
  <2>1. Ready \in BOOLEAN
    BY DEF Ready
  <2>2. (clean /\ ~(u /\ Harm)) \in BOOLEAN
    OBVIOUS
  <2> QED
    BY <2>1, <2>2 DEF History
<1>4. lag' \in Nat
  BY DEF TypeOK, History
<1> QED
  BY <1>1, <1>2, <1>3, <1>4

LEMMA ReadTyped ==
  ASSUME TypeOK, Read PROVE TypeOK'
<1>1. /\ frame[1] \in Nat \ {0} /\ frame[2] \in Nat \ {0}
      /\ frame' \in Geometries => frame'[1] \in Nat \ {0} /\ frame'[2] \in Nat \ {0}
  BY OverlayAssumption DEF TypeOK
<1>2. /\ frame' \in Geometries /\ fx' \in 0 .. frame'[1] + 1 /\ fy' \in 0 .. frame'[2] - 1
  <2>1. CASE fx < frame[1] + 1
    BY <2>1, <1>1 DEF TypeOK, Read, ReadFifo
  <2>2. CASE ~(fx < frame[1] + 1) /\ fy < frame[2] - 1
    BY <2>2, <1>1 DEF TypeOK, Read, ReadFifo
  <2>3. CASE ~(fx < frame[1] + 1) /\ ~(fy < frame[2] - 1)
    BY <2>3, <1>1 DEF TypeOK, Read, ReadFifo
  <2> QED
    BY <2>1, <2>2, <2>3
<1>3. pixel_sink' \in [code : {"pixel"}, x : Int, y : Int] \cup {HSync, VSync}
  BY <1>1 DEF TypeOK, Read, Head, Pixel, HSync, VSync
<1>4. Step /\ History(FALSE)
  BY DEF Read
<1> QED
  BY <1>2, <1>3, <1>4, StepTyped DEF TypeOK

LEMMA NextTyped ==
  ASSUME TypeOK, [Next]_vars PROVE TypeOK'
<1>1. CASE Idle
  BY <1>1, StepTyped DEF TypeOK, Idle
<1>2. CASE Read
  BY <1>2, ReadTyped
<1>3. CASE Underflow
  <2>1. pixel_sink' \in [code : {"pixel"}, x : Int, y : Int] \cup {HSync, VSync}
    BY <1>3 DEF Underflow, Garbage, Pixel, HSync, VSync
  <2> QED
    BY <1>3, <2>1, StepTyped DEF TypeOK, Underflow
<1>4. CASE UNCHANGED vars
  BY <1>4 DEF vars, TypeOK
<1> QED
  BY <1>1, <1>2, <1>3, <1>4 DEF Next
-----------------------------------------------------------------------------
(* The steps that keep a picture in step. *)

\* While no read is requested nothing moves but the video.
LEMMA Waiting ==
  ASSUME TypeOK, Next, ~fifoRdreq
  PROVE  /\ Idle /\ UNCHANGED <<pixel_sink, frame, fx, fy>>
         /\ ~LineEnds => vx' = vx + 1 /\ vy' = vy /\ lag' = lag
         /\ LineEnds => vx' = 0 /\ lag' = 0
         /\ LineEnds /\ vy < H => vy' = vy + 1
         /\ LineEnds /\ vy >= H => vy' = 0 \/ vy' = vy + 1
<1>1. Idle
  BY DEF Next, Read, Underflow
<1> QED
  BY <1>1, OverlayAssumption DEF Idle, Step, NextPixel, History, TypeOK

\* When one is, either it is answered or the FIFO is empty.
LEMMA Reads ==
  ASSUME TypeOK, Next, fifoRdreq, clean, clean', ~(vx = 0 /\ vy = 0)
  PROVE  /\ Read \/ Underflow
         /\ Underflow => ~Harm
         /\ Step
         /\ ~LineEnds => vx' = vx + 1 /\ vy' = vy
         /\ LineEnds => vx' = 0 /\ lag' = 0
         /\ LineEnds /\ vy < H => vy' = vy + 1
         /\ Read /\ ~LineEnds => lag' = lag
         /\ Underflow /\ ~LineEnds => lag' = lag + 1
<1>1. Read \/ Underflow
  BY DEF Next, Idle
<1>2. Underflow => ~Harm
  BY DEF Underflow, History
<1>3. Read => (~LineEnds => lag' = lag)
  BY DEF Read, History
<1>4. Underflow => (~LineEnds => lag' = lag + 1)
  BY DEF Underflow, History
<1>5. Step /\ \E u \in BOOLEAN : History(u)
  BY <1>1 DEF Read, Underflow
<1>6. LineEnds => lag' = 0
  BY <1>5 DEF History
<1> QED
  BY <1>1, <1>2, <1>3, <1>4, <1>5, <1>6, OverlayAssumption DEF Step, NextPixel, TypeOK

\* The pixel counter at the start of a picture.
LEMMA FirstPixels == ASSUME TypeOK, vy = 0 PROVE NowPxl = vx
  BY OverlayAssumption DEF NowPxl, TypeOK

LEMMA SecondSyncRead ==
  ASSUME TypeOK, Next, clean, clean', NEW y \in 0 .. H-1, SecondSync(y),
         ~DeIn \/ (vx = 0 /\ y < H-1), ~(vx = 0 /\ vy = 0)
  PROVE  WaitAfter(y)'
<1>1. fifoRdreq /\ fx = W + 1 /\ fy = y /\ frame = <<W, H>>
  BY DEF SecondSync
<1>2. Harm
  BY <1>1, OverlayAssumption DEF Harm
<1>3. Read
  BY <1>1, <1>2, Reads
<1>4. frame[1] = W /\ frame[2] = H
  BY <1>1
<1>5. pixel_sink' = IF y < H-1 THEN HSync ELSE VSync
  BY <1>1, <1>3, <1>4, OverlayAssumption DEF Read, Head
<1>6. CASE y < H-1
  <2>1. fx' = 0 /\ fy' = y + 1 /\ frame' = <<W, H>>
    BY <1>1, <1>3, <1>4, <1>6, OverlayAssumption DEF Read, ReadFifo
  <2>2. ~fifoRdreq'
    BY <1>3, <1>6, OverlayAssumption
    DEF Read, Step, Rdreq, SecondSync, SyncWaitH, HSync, NowX
  <2> QED
    BY <2>1, <2>2, <1>5, <1>6 DEF WaitAfter, Wait
<1>7. CASE ~(y < H-1)
  <2>1. fx' = 0 /\ fy' = 0
    BY <1>1, <1>3, <1>4, <1>7, OverlayAssumption DEF Read, ReadFifo
  <2>2. ~fifoRdreq'
    BY <1>3, <1>7 DEF Read, Step, Rdreq, SecondSync, SyncWaitV, VSync
  <2> QED
    BY <2>1, <2>2, <1>5, <1>7 DEF WaitAfter, WaitEnd
<1> QED
  BY <1>6, <1>7

\* One clock inside a line, while its pixels are read.
LEMMA ReadingStep ==
  ASSUME TypeOK, Next, clean, clean', vx >= 2, vy < H, lag <= HBlank - 3,
         NEW n \in 0 .. W, n = vx - 2 - lag, Reading(n, vy)
  PROVE  InStep'
<1>1. /\ fifoRdreq /\ fx = n /\ fy = vy /\ frame = <<W, H>> /\ frame[1] = W /\ frame[2] = H
      /\ vx \in Nat /\ lag \in Nat /\ vy \in Nat /\ ~(vx = 0 /\ vy = 0)
  BY OverlayAssumption DEF Reading, TypeOK
<1>2. fifoRdreq'
  <2>1. CASE vx = 2
    <3>1. DeIn /\ NowX = 2
      BY <2>1, OverlayAssumption DEF DeIn, NowX
    <3>2. vy = 0 => NowPxl = 2
      BY <2>1, FirstPixels
    <3>3. SyncWaitV => vy = 0
      BY <2>1 DEF Reading, SyncWaitV, HSync
    <3>4. Rdreq
      BY <3>1, <3>2, <3>3 DEF Rdreq
    <3> QED
      BY <3>4, <1>1, Reads DEF Step
  <2>2. CASE vx # 2
    <3>1. pixel_sink.code = "pixel"
      BY <2>2 DEF Reading, Pixel
    <3>2. Rdreq
      BY <3>1 DEF Rdreq, SyncWaitH, SyncWaitV
    <3> QED
      BY <3>2, <1>1, Reads DEF Step
  <2> QED
    BY <2>1, <2>2
<1>3. CASE Underflow
  <2>1. ~Harm
    BY <1>1, <1>3, Reads
  <2>2. lag < HBlank - 3 /\ pixel_sink' = Pixel(-1, -1)
    BY <2>1, <1>3, <1>1, OverlayAssumption DEF Harm, Underflow, Garbage, Pixel, HSync, VSync
  <2>3. ~LineEnds
    BY <2>2, <1>1, OverlayAssumption DEF LineEnds
  <2>4. vx' = vx + 1 /\ vy' = vy /\ lag' = lag + 1
    BY <2>3, <1>1, <1>3, Reads
  <2>5. fx' = n /\ fy' = vy /\ frame' = <<W, H>>
    BY <1>1, <1>3 DEF Underflow
  <2>6. Reading(n, vy)'
    BY <2>2, <2>4, <2>5, <1>1, <1>2 DEF Reading
  <2>7. vx' - 2 - lag' = n
    BY <2>4, <1>1
  <2>8. Reading(vx - 2 - lag, vy)'
    BY <2>4, <2>6, <2>7
  <2> QED
    BY <2>2, <2>4, <2>7, <2>8, <1>1, OverlayAssumption DEF InLine, InStep
<1>4. CASE Read
  <2>1. fx' = n + 1 /\ fy' = vy /\ frame' = <<W, H>>
    <3>1. fx < frame[1] + 1
      BY <1>1, OverlayAssumption
    <3>2. fx' = fx + 1 /\ UNCHANGED <<fy, frame>>
      BY <3>1, <1>4 DEF Read, ReadFifo
    <3> QED
      BY <3>2, <1>1
  <2>2. n < W => pixel_sink' = Pixel(n, vy)
    BY <1>1, <1>4 DEF Read, Head
  <2>3. n = W => pixel_sink' = IF vy < H-1 THEN HSync ELSE VSync
    BY <1>1, <1>4 DEF Read, Head
  <2>4. CASE LineEnds
    <3>1. n = W
      BY <2>4, <1>1, OverlayAssumption DEF LineEnds
    <3>2. vx' = 0 /\ vy' = vy + 1 /\ lag' = 0
      BY <2>4, <1>1, Reads
    <3>3. SecondSync(vy - 1)'
      BY <3>1, <3>2, <2>1, <2>3, <1>1, <1>2 DEF SecondSync
    <3> QED
      BY <3>2, <3>3, <1>1, OverlayAssumption DEF InStep
  <2>5. CASE ~LineEnds
    <3>1. vx' = vx + 1 /\ vy' = vy /\ lag' = lag
      BY <2>5, <1>1, <1>4, Reads
    <3>2. vx' - 2 - lag' = n + 1
      BY <3>1, <1>1
    <3>3. CASE n < W
      <4>1. Reading(vx - 2 - lag, vy)'
        BY <3>3, <3>1, <3>2, <2>1, <2>2, <1>1, <1>2 DEF Reading
      <4> QED
        BY <4>1, <3>1, <3>2, <3>3, <1>1, OverlayAssumption DEF InLine, InStep
    <3>4. CASE n = W
      <4>1. SecondSync(vy)'
        BY <3>4, <3>1, <2>1, <2>3, <1>1, <1>2 DEF SecondSync
      <4> QED
        BY <4>1, <3>1, <3>2, <3>4, <1>1, OverlayAssumption DEF InLine, InStep
    <3> QED
      BY <3>3, <3>4, OverlayAssumption
  <2> QED
    BY <2>4, <2>5
<1> QED
  BY <1>1, <1>3, <1>4, Reads

\* One clock of a picture that is in step, its first one apart.
LEMMA InStepKept ==
  ASSUME OverlayInvariant, Next, clean, clean', ~(vx = 0 /\ vy = 0)
  PROVE  InStep'
<1>1. TypeOK /\ vx \in Nat /\ vy \in Nat /\ lag \in Nat
  BY OverlayAssumption DEF OverlayInvariant, TypeOK
<1>2. CASE vx = 0 /\ vy \in 1 .. H
  <2>1. /\ lag = 0 /\ ~LineEnds
        /\ SecondSync(vy-1) \/ WaitAfter(vy-1)
    BY <1>1, <1>2, OverlayAssumption DEF OverlayInvariant, InStep, LineEnds
  <2>2. PICK y \in 0 .. H-1 : y = vy - 1
    BY <1>1, <1>2, OverlayAssumption
  <2>3. WaitAfter(y)' /\ vx' = 1 /\ vy' = y + 1 /\ lag' = 0
    <3>1. CASE SecondSync(y)
      <4>1. ~DeIn \/ (vx = 0 /\ y < H-1)
        BY <1>1, <1>2, <2>2, OverlayAssumption DEF DeIn
      <4>2. WaitAfter(y)'
        BY <1>1, <3>1, <4>1, SecondSyncRead
      <4>3. fifoRdreq /\ Harm
        BY <3>1, OverlayAssumption DEF SecondSync, Harm
      <4>4. Read /\ vx' = vx + 1 /\ vy' = vy /\ lag' = lag
        BY <1>1, <2>1, <4>3, Reads
      <4> QED
        BY <4>2, <4>4, <2>1, <2>2, <1>2
    <3>2. CASE WaitAfter(y)
      <4>1. ~fifoRdreq
        BY <3>2 DEF WaitAfter, Wait, WaitEnd
      <4>2. /\ Idle /\ UNCHANGED <<pixel_sink, frame, fx, fy>>
            /\ vx' = vx + 1 /\ vy' = vy /\ lag' = lag
        BY <1>1, <2>1, <4>1, Waiting
      <4>3. ~Rdreq
        <5>1. y < H-1 => SyncWaitH /\ NowX = 0
          BY <1>2, <3>2, <2>2 DEF WaitAfter, Wait, SyncWaitH, HSync, NowX
        <5>2. ~(y < H-1) => SyncWaitV /\ ~DeIn
          BY <1>1, <1>2, <3>2, <2>2, OverlayAssumption
          DEF WaitAfter, WaitEnd, SyncWaitV, VSync, DeIn
        <5> QED
          BY <5>1, <5>2 DEF Rdreq
      <4>4. ~fifoRdreq'
        BY <4>2, <4>3 DEF Idle, Step
      <4> QED
        BY <3>2, <4>2, <4>4, <2>1, <2>2, <1>2 DEF WaitAfter, Wait, WaitEnd
    <3> QED
      BY <2>1, <2>2, <3>1, <3>2
  <2>4. vy' < H => Wait(vy)'
    BY <2>3, OverlayAssumption DEF WaitAfter, Wait
  <2>5. vy' >= H => WaitEnd'
    BY <2>3, OverlayAssumption DEF WaitAfter
  <2> QED
    BY <2>3, <2>4, <2>5, OverlayAssumption DEF InStep
<1>3. CASE vx = 1 /\ vy < H
  <2>1. Wait(vy) /\ lag = 0 /\ ~fifoRdreq /\ ~LineEnds
    BY <1>1, <1>3, OverlayAssumption DEF OverlayInvariant, InStep, Wait, LineEnds
  <2>2. /\ Idle /\ UNCHANGED <<pixel_sink, frame, fx, fy>>
        /\ vx' = 2 /\ vy' = vy /\ lag' = 0
    BY <1>1, <1>3, <2>1, Waiting
  <2>3. Rdreq
    <3>1. DeIn /\ NowX = 1
      BY <1>1, <1>3, OverlayAssumption DEF DeIn, NowX
    <3>2. SyncWaitV => NowPxl = 1
      BY <1>1, <1>3, <2>1, FirstPixels DEF Wait, SyncWaitV, HSync
    <3> QED
      BY <3>1, <3>2 DEF Rdreq
  <2>4. fifoRdreq'
    BY <2>2, <2>3 DEF Idle, Step
  <2>5. Reading(0, vy)'
    BY <2>1, <2>2, <2>4 DEF Wait, Reading
  <2>6. vx' - 2 - lag' = 0
    BY <2>2
  <2>7. Reading(vx - 2 - lag, vy)'
    BY <2>5, <2>6
  <2> QED
    BY <2>2, <2>6, <2>7, <1>1, <1>3, OverlayAssumption DEF InLine, InStep
<1>4. CASE vx >= 2 /\ vy < H
  <2>1. PICK n \in Nat : n = vx - 2 - lag
    BY <1>1, <1>4 DEF OverlayInvariant, InStep, InLine
  <2>2. InLine(n)
    BY <1>4, <2>1 DEF OverlayInvariant, InStep
  <2>3. CASE n <= W
    BY <1>1, <1>4, <2>1, <2>2, <2>3, ReadingStep, OverlayAssumption DEF InLine
  <2>4. CASE n >= W + 1
    <3>1. ~DeIn
      BY <1>1, <2>1, <2>4, OverlayAssumption DEF DeIn
    <3>2. PICK y \in 0 .. H-1 : y = vy
      BY <1>1, <1>4, OverlayAssumption
    <3>3. /\ WaitAfter(y)'
          /\ ~LineEnds => vx' = vx + 1 /\ vy' = vy /\ lag' = lag
          /\ LineEnds => vx' = 0 /\ lag' = 0 /\ vy' = vy + 1
      <4>1. CASE n = W + 1
        <5>1. SecondSync(y)
          BY <2>2, <3>2, <4>1 DEF InLine
        <5>2. fifoRdreq /\ Harm
          BY <5>1, OverlayAssumption DEF SecondSync, Harm
        <5>3. Read
          BY <1>1, <5>2, Reads
        <5> QED
          BY <1>1, <1>4, <3>1, <5>1, <5>2, <5>3, SecondSyncRead, Reads
      <4>2. CASE n >= W + 2
        <5>1. WaitAfter(y) /\ ~fifoRdreq
          BY <2>2, <3>2, <4>2 DEF InLine, WaitAfter, Wait, WaitEnd
        <5>2. Idle /\ UNCHANGED <<pixel_sink, frame, fx, fy>>
          BY <1>1, <5>1, Waiting
        <5>3. SyncWaitH \/ SyncWaitV
          BY <5>1 DEF WaitAfter, Wait, WaitEnd, SyncWaitH, SyncWaitV, HSync, VSync
        <5>4. ~fifoRdreq'
          BY <3>1, <5>2, <5>3 DEF Idle, Step, Rdreq
        <5> QED
          BY <1>1, <1>4, <5>1, <5>2, <5>4, Waiting DEF WaitAfter, Wait, WaitEnd
      <4> QED
        BY <2>4, <4>1, <4>2, OverlayAssumption
    <3>4. CASE LineEnds
      <4>1. WaitAfter(vy - 1)' /\ vx' = 0 /\ lag' = 0 /\ vy' \in 1 .. H
        BY <3>2, <3>3, <3>4, OverlayAssumption
      <4> QED
        BY <4>1, OverlayAssumption DEF InStep
    <3>5. CASE ~LineEnds
      <4>1. WaitAfter(vy)' /\ vx' = vx + 1 /\ vy' = vy /\ lag' = lag
        BY <3>2, <3>3, <3>5
      <4>2. vx' - 2 - lag' = n + 1
        BY <4>1, <1>1, <2>1
      <4> QED
        BY <4>1, <4>2, <2>2, <2>4, <1>1, <1>4, OverlayAssumption DEF InLine, InStep
    <3> QED
      BY <3>4, <3>5
  <2> QED
    BY <2>1, <2>3, <2>4, OverlayAssumption
<1>5. CASE vy > H \/ (vx > 0 /\ vy >= H)
  <2>1. WaitEnd /\ ~fifoRdreq /\ ~DeIn /\ (vx <= 1 => lag = 0)
    BY <1>1, <1>5, OverlayAssumption DEF OverlayInvariant, InStep, WaitEnd, DeIn
  <2>2. /\ Idle /\ UNCHANGED <<pixel_sink, frame, fx, fy>>
        /\ ~LineEnds => vx' = vx + 1 /\ vy' = vy /\ lag' = lag
        /\ LineEnds => vx' = 0 /\ lag' = 0
        /\ LineEnds => vy' = 0 \/ vy' = vy + 1
    BY <1>1, <1>5, <2>1, Waiting, OverlayAssumption
  <2>3. ~fifoRdreq'
    BY <2>1, <2>2 DEF Idle, Step, Rdreq, WaitEnd, SyncWaitV, VSync
  <2>4. WaitEnd'
    BY <2>1, <2>2, <2>3 DEF WaitEnd
  <2>5. vx' = 0 \/ (vx' > 0 /\ vx' = vx + 1 /\ vy' = vy /\ lag' = lag)
    BY <1>1, <2>2
  <2>6. CASE LineEnds
    BY <1>1, <1>5, <2>2, <2>4, <2>6, OverlayAssumption DEF InStep
  <2>7. CASE ~LineEnds
    BY <1>1, <1>5, <2>1, <2>2, <2>4, <2>7, OverlayAssumption DEF InStep
  <2> QED
    BY <2>6, <2>7
<1> QED
  BY <1>1, <1>2, <1>3, <1>4, <1>5, OverlayAssumption

\* The first clock of a picture finds the stream where the picture can begin, or the
\* picture is not in step.
LEMMA PictureBegins ==
  ASSUME OverlayInvariant, Next, clean', vx = 0, vy = 0
  PROVE  InStep'
<1>1. Ready
  BY DEF Next, Idle, Read, Underflow, History
<1>2. ~LineEnds /\ lag = 0
  BY OverlayAssumption DEF LineEnds, OverlayInvariant
<1>3. /\ Idle /\ UNCHANGED <<pixel_sink, frame, fx, fy>>
      /\ vx' = 1 /\ vy' = 0 /\ lag' = 0
  BY <1>1, <1>2, Waiting DEF OverlayInvariant, Ready
<1>4. NowX = 0 /\ SyncWaitV
  BY <1>1 DEF NowX, Ready
<1>5. NowPxl = 0
  BY FirstPixels DEF OverlayInvariant
<1>6. ~fifoRdreq'
  BY <1>3, <1>4, <1>5 DEF Idle, Step, Rdreq
<1>7. pixel_sink = VSync
  BY <1>1 DEF OverlayInvariant, TypeOK, Ready, SyncWaitV, HSync, VSync
<1>8. Wait(vy)'
  BY <1>1, <1>3, <1>6, <1>7 DEF Wait, Ready
<1> QED
  BY <1>3, <1>8, OverlayAssumption DEF InStep

LEMMA InductiveStep ==
  ASSUME OverlayInvariant, [Next]_vars PROVE OverlayInvariant'
<1>1. TypeOK'
  BY NextTyped DEF OverlayInvariant
<1>2. CASE UNCHANGED vars
  BY <1>2
  DEF vars, OverlayInvariant, TypeOK, InStep, InLine, Reading, SecondSync, WaitAfter,
      WaitEnd, Wait
<1>3. CASE Next
  <2>1. vx' = 0 => lag' = 0
    <3>1. Step /\ \E u \in BOOLEAN : History(u)
      BY <1>3 DEF Next, Idle, Read, Underflow
    <3>2. vx' = 0 => LineEnds
      BY <3>1 DEF Step, NextPixel, OverlayInvariant, TypeOK
    <3> QED
      BY <3>1, <3>2 DEF History
  <2>2. InStep'
    <3>1. CASE ~clean'
      BY <3>1 DEF InStep
    <3>2. CASE clean' /\ vx = 0 /\ vy = 0
      BY <1>3, <3>2, PictureBegins
    <3>3. CASE clean' /\ ~(vx = 0 /\ vy = 0)
      <4>1. clean
        BY <1>3, <3>3 DEF Next, Idle, Read, Underflow, History
      <4> QED
        BY <1>3, <3>3, <4>1, InStepKept
    <3> QED
      BY <3>1, <3>2, <3>3
  <2> QED
    BY <1>1, <2>1, <2>2 DEF OverlayInvariant
<1> QED
  BY <1>2, <1>3
-----------------------------------------------------------------------------

LEMMA AlignedFromInvariant == OverlayInvariant => Aligned
<1> SUFFICES ASSUME OverlayInvariant, clean, vy < H
    PROVE  /\ ShownX = 0 => SyncWaitH \/ SyncWaitV
           /\ ShownX \in 1 .. W-1 =>
                /\ pixel_sink \in {Pixel(ShownX - 1 - lag, vy), Pixel(-1, -1)}
                /\ lag = 0 => pixel_sink = Pixel(ShownX - 1, vy)
  BY DEF Aligned
<1>1. CASE vx < 2
  BY <1>1 DEF ShownX, OverlayInvariant, TypeOK
<1>2. CASE vx >= 2 /\ vx <= W + 1
  <2>1. /\ vx \in Nat /\ vy \in Nat /\ lag \in Nat /\ vx - 2 - lag \in 0 .. W-1
        /\ Reading(vx - 2 - lag, vy)
    BY <1>2, OverlayAssumption DEF OverlayInvariant, TypeOK, InStep, InLine
  <2>2. CASE vx = 2
    BY <2>1, <2>2 DEF Reading, ShownX, SyncWaitH, SyncWaitV, HSync, VSync
  <2>3. CASE vx # 2
    <3>1. vx - 2 - lag - 1 = ShownX - 1 - lag /\ (lag = 0 => vx - 2 - lag - 1 = ShownX - 1)
      BY <2>1 DEF ShownX
    <3> QED
      BY <2>1, <2>3, <3>1 DEF Reading, ShownX
  <2> QED
    BY <2>2, <2>3
<1>3. CASE vx > W + 1
  BY <1>3, OverlayAssumption DEF ShownX, OverlayInvariant, TypeOK
<1> QED
  BY <1>1, <1>2, <1>3, OverlayAssumption DEF OverlayInvariant, TypeOK

\* Within a picture that is in step, every pixel of a frame lies over the pixel of the
\* video beside its own, of the same line: for every size of the picture, every blanking
\* and every sequence of frames (the counts in fifoRdreq, danmaku_overlay.v:119).
THEOREM AlwaysAligned == Spec => []Aligned
<1>1. OverlayInvariant => Aligned
  BY AlignedFromInvariant
<1> QED
  BY <1>1, InitInvariant, InductiveStep, PTL DEF Spec

LEMMA StaysFromInvariant == OverlayInvariant => StaysInStep
  BY OverlayAssumption
  DEF OverlayInvariant, InStep, WaitEnd, StaysInStep, Ready, SyncWaitV, VSync

\* A picture in step ends where the next one can begin.
THEOREM AlwaysInStep == Spec => []StaysInStep
<1> QED
  BY StaysFromInvariant, InitInvariant, InductiveStep, PTL DEF Spec

THEOREM TypeCorrect == Spec => []TypeOK
<1>1. OverlayInvariant => TypeOK
  BY DEF OverlayInvariant
<1> QED
  BY <1>1, InitInvariant, InductiveStep, PTL DEF Spec
=============================================================================
