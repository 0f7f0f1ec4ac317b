---------------------------- MODULE VideoInProofs ----------------------------
(***************************************************************************)
(* Size and position are right in time, for every video, after every       *)
(* change.  The argument counts the rises of the syncs since the video     *)
(* changed: after two of them the polarity is known, and what the counters *)
(* hold at the second is what they hold at that place of every picture.    *)
(***************************************************************************)
EXTENDS VideoInProperties, TLAPS

Detectors == [d1 : BOOLEAN, normal : BOOLEAN, high : Nat, low : Nat]

TypeOK ==
  /\ src \in Sources
  /\ vx \in 0 .. LineLen(src) - 1 /\ vy \in 0 .. PictureLen(src) - 1
  /\ hdet \in Detectors /\ vdet \in Detectors
  /\ nowX \in Nat /\ nowY \in Nat /\ nowPxl \in Nat
  /\ screenX \in Nat /\ screenY \in Nat
  /\ lastDe \in BOOLEAN /\ lastVsync \in BOOLEAN
  /\ age \in 0 .. Settled(src)

-----------------------------------------------------------------------------
(* A sync that is high for the first part of its period. *)

\* Clocks from the rise at r to p, in a period of length T.
Offset(p, r, T) == IF p >= r THEN p - r ELSE p - r + T

\* Clocks since the clock of the last rise, when off is next.
Since(off, T) == IF off = 0 THEN T - 1 ELSE off - 1

\* A detector that is fed a sync high for the first high clocks of T: one rise resets
\* the counts, a second one learns from them.
DetectorOK(det, a, off, high, T) ==
  LET since == Since(off, T) IN
  /\ a >= 1 => det.d1 = (since < high)
  /\ a >= since + 2 => /\ det.high = IF since < high THEN since ELSE high - 1
                       /\ det.low = IF since < high THEN 0 ELSE since - high
  /\ a >= T + since + 2 => det.normal = (2 * high > T)

\* Where hsync rises in a line, and for how many pixels it is high; the same of vsync,
\* in lines of a picture.
HRise(s) == s.w + s.hfront + (IF s.hpos THEN 0 ELSE s.hpulse)
HHigh(s) == IF s.hpos THEN s.hpulse ELSE LineLen(s) - s.hpulse
VRise(s) == s.h + s.vfront + (IF s.vpos THEN 0 ELSE s.vpulse)
VHigh(s) == IF s.vpos THEN s.vpulse ELSE PictureLen(s) - s.vpulse

HOff == Offset(vx, HRise(src), LineLen(src))
VLines == Offset(vy, VRise(src), PictureLen(src))
VOff == VLines * LineLen(src) + vx

-----------------------------------------------------------------------------
(* The invariant. *)

\* The last n rises of vsync are of the video that is at the inputs now.
Rose(n) == age >= (n-1) * Clocks(src) + Since(VOff, Clocks(src)) + 2

Right == vdet.normal = ~src.vpos

\* The pixel before the one at the inputs was in the vertical pulse.
PulseStart == vy = src.h + src.vfront /\ vx = 0
PulseEnd == vy = src.h + src.vfront + src.vpulse /\ vx = 0
AfterPulse == (VPulse /\ ~PulseStart) \/ PulseEnd

NoLines == nowY = 0 /\ nowPxl = 0

\* With the polarity learnt wrong no line is counted, and the counters are zero from
\* the first line without a pulse on.
WrongIdles ==
  Rose(1) /\ ~Right =>
    /\ ~lastDe
    /\ (VOff = 0 \/ VLines > src.vpulse \/ (VLines = src.vpulse /\ vx > 0)) => NoLines

\* With the right one the pulse clears them.  (Where the pulse begins with the rise, it
\* is the rise that does.)
PulseClears == age >= 2 /\ ~src.vpos /\ Right /\ AfterPulse => NoLines

\* The pixels of the lines before this one.
LinesBefore == vy * src.w

\* The counters at a place of a picture that is counted from its start.
Counting ==
  /\ Right
  /\ nowX = IF vy < src.h /\ vx <= src.w THEN vx ELSE 0
  /\ lastDe = (vy < src.h /\ vx \in 1 .. src.w)
  /\ PulseStart => lastVsync
  /\ vy < src.h => /\ nowY = IF vx <= src.w THEN vy ELSE vy + 1
                   /\ nowPxl = LinesBefore + IF vx <= src.w THEN vx ELSE src.w
  /\ vy >= src.h =>
       IF vy < src.h + src.vfront \/ PulseStart THEN nowY = src.h ELSE NoLines

\* A line has been measured since the second rise; a picture has.
LineSeen ==
  Rose(3) \/ (Rose(2) /\ \/ vy < VRise(src) /\ (vy > 0 \/ vx > src.w)
                         \/ vy = VRise(src) /\ vx = 0)
PictureSeen == Rose(3) \/ (Rose(2) /\ ~src.vpos /\ AfterPulse)

WithSignal ==
  /\ DetectorOK(hdet, age, HOff, HHigh(src), LineLen(src))
  /\ DetectorOK(vdet, age, VOff, VHigh(src) * LineLen(src), Clocks(src))
  /\ age >= 1 /\ lastDe => (vy < src.h /\ vx \in 1 .. src.w)
  /\ WrongIdles /\ PulseClears
  /\ Rose(2) => Counting
  /\ LineSeen => screenX = src.w
  /\ PictureSeen => (screenY = src.h /\ (VPulse /\ ~PulseStart => ~lastVsync))

VideoInvariant ==
  /\ TypeOK
  /\ IF src.scdt THEN WithSignal ELSE age >= 1 => (screenX = 0 /\ screenY = 0)

-----------------------------------------------------------------------------
(* Arithmetic. *)

\* A source has at least four pixels a line and four lines a picture.
LEMMA SourceTyped ==
  ASSUME NEW s \in Sources
  PROVE  /\ s.scdt \in BOOLEAN /\ s.hpos \in BOOLEAN /\ s.vpos \in BOOLEAN
         /\ s.w \in Nat \ {0} /\ s.hfront \in Nat \ {0}
         /\ s.hpulse \in Nat \ {0} /\ s.hback \in Nat \ {0}
         /\ s.h \in Nat \ {0} /\ s.vfront \in Nat \ {0}
         /\ s.vpulse \in Nat \ {0} /\ s.vback \in Nat \ {0}
         /\ LineLen(s) \in Nat /\ LineLen(s) >= 4
         /\ PictureLen(s) \in Nat /\ PictureLen(s) >= 4
         /\ 2 * s.hpulse < LineLen(s) /\ 2 * s.vpulse < PictureLen(s)
         /\ Clocks(s) \in Nat /\ Clocks(s) >= 4 * LineLen(s)
         /\ CountRange \in Nat /\ Clocks(s) < CountRange
<1>1. /\ s.scdt \in BOOLEAN /\ s.hpos \in BOOLEAN /\ s.vpos \in BOOLEAN
      /\ \A f \in SourceFields : s[f] \in Nat \ {0}
      /\ 2 * s.hpulse < LineLen(s) /\ 2 * s.vpulse < PictureLen(s)
      /\ Clocks(s) < CountRange /\ CountRange \in Nat
  BY VideoAssumption
<1>2. /\ s.w \in Nat \ {0} /\ s.hfront \in Nat \ {0}
      /\ s.hpulse \in Nat \ {0} /\ s.hback \in Nat \ {0}
      /\ s.h \in Nat \ {0} /\ s.vfront \in Nat \ {0}
      /\ s.vpulse \in Nat \ {0} /\ s.vback \in Nat \ {0}
  BY <1>1 DEF SourceFields
<1>3. /\ LineLen(s) \in Nat /\ LineLen(s) >= 4
      /\ PictureLen(s) \in Nat /\ PictureLen(s) >= 4
  BY <1>2 DEF LineLen, PictureLen
<1>4. /\ Clocks(s) \in Nat /\ Clocks(s) >= 4 * LineLen(s)
  <2>1. PICK d \in Nat : PictureLen(s) = 4 + d
    <3>1. PictureLen(s) - 4 \in Nat /\ PictureLen(s) = 4 + (PictureLen(s) - 4)
      BY <1>3
    <3>. QED BY <3>1
  <2>2. Clocks(s) = LineLen(s) * (4 + d)
    BY <2>1 DEF Clocks
  <2>3. LineLen(s) * d \in Nat /\ LineLen(s) * (4 + d) = 4 * LineLen(s) + LineLen(s) * d
    BY <1>3
  <2>. QED BY <1>3, <2>2, <2>3
<1>. QED BY <1>1, <1>2, <1>3, <1>4

\* Positions line by line are ordered as their lines are.
LEMMA LineOrder ==
  ASSUME NEW L \in Nat, NEW a \in Nat, NEW b \in Nat, NEW x \in 0 .. L - 1
  PROVE  /\ a * L \in Nat /\ b * L \in Nat
         /\ a < b => a * L + x < b * L
         /\ a >= b => a * L + x >= b * L
<1>1. a * L \in Nat /\ b * L \in Nat
  OBVIOUS
<1>2. ASSUME a < b PROVE a * L + x < b * L
  <2>1. PICK d \in Nat : b = a + 1 + d
    <3>1. b - (a + 1) \in Nat /\ b = a + 1 + (b - (a + 1))
      BY <1>2
    <3>. QED BY <3>1
  <2>2. d * L \in Nat /\ (a + 1 + d) * L = a * L + L + d * L
    OBVIOUS
  <2>. QED BY <1>1, <2>1, <2>2
<1>3. ASSUME a >= b PROVE a * L + x >= b * L
  <2>1. PICK d \in Nat : a = b + d
    <3>1. a - b \in Nat /\ a = b + (a - b)
      BY <1>3
    <3>. QED BY <3>1
  <2>2. d * L \in Nat /\ (b + d) * L = b * L + d * L
    OBVIOUS
  <2>. QED BY <1>1, <2>1, <2>2
<1>. QED BY <1>1, <1>2, <1>3

\* An offset counts the period.
LEMMA OffsetCounts ==
  ASSUME NEW T \in Nat, NEW r \in 0 .. T - 1, NEW p \in 0 .. T - 1
  PROVE  /\ Offset(p, r, T) \in 0 .. T - 1
         /\ Offset(IF p = T - 1 THEN 0 ELSE p + 1, r, T) =
              IF Offset(p, r, T) = T - 1 THEN 0 ELSE Offset(p, r, T) + 1
BY DEF Offset

\* A detector that is fed its sync once more.
LEMMA DetectStep ==
  ASSUME NEW T \in Nat, NEW high \in 1 .. T - 1, NEW off \in 0 .. T - 1,
         T < CountRange, CountRange \in Nat,
         NEW det \in Detectors, NEW a \in Nat, NEW b \in Nat,
         b = a + 1 \/ (b = a /\ a >= 2 * T + 1),
         2 * high # T,
         DetectorOK(det, a, off, high, T)
  PROVE  DetectorOK(Detect(det, off < high), b, IF off = T - 1 THEN 0 ELSE off + 1,
                    high, T)
<1> DEFINE sync == off < high
           next == Detect(det, sync)
           since == Since(off, T)
           n == IF off = T - 1 THEN 0 ELSE off + 1
<1>1. Since(n, T) = off /\ since \in 0 .. T - 1
  BY DEF Since
<1>2. next.d1 = sync
  BY DEF Detect
<1>3. ASSUME b >= off + 2
      PROVE  /\ next.high = IF off < high THEN off ELSE high - 1
             /\ next.low = IF off < high THEN 0 ELSE off - high
  <2>1. a >= 1 /\ det.d1 = (since < high) /\ det.high \in Nat /\ det.low \in Nat
    BY <1>3 DEF DetectorOK, Detectors
  <2>2. CASE off = 0
    BY <2>1, <2>2 DEF Detect, Since
  <2>3. CASE off # 0
    <3>1. since = off - 1 /\ a >= since + 2
      BY <1>3, <2>3 DEF Since
    <3>2. /\ det.high = IF off - 1 < high THEN off - 1 ELSE high - 1
          /\ det.low = IF off - 1 < high THEN 0 ELSE off - 1 - high
      BY <3>1 DEF DetectorOK
    <3>3. \A i \in 0 .. T - 1 : Inc(i) = i + 1
      BY DEF Inc
    <3>4. CASE off < high
      BY <2>1, <2>3, <3>1, <3>2, <3>3, <3>4 DEF Detect
    <3>5. CASE off = high
      BY <2>1, <2>3, <3>1, <3>2, <3>3, <3>5 DEF Detect
    <3>6. CASE off > high
      BY <2>1, <2>3, <3>1, <3>2, <3>3, <3>6 DEF Detect
    <3>. QED BY <3>4, <3>5, <3>6
  <2>. QED BY <2>2, <2>3
<1>4. ASSUME b >= T + off + 2
      PROVE  next.normal = (2 * high > T)
  <2>1. a >= 1 /\ det.d1 = (since < high)
    BY <1>4 DEF DetectorOK
  <2>2. CASE off = 0
    <3>1. since = T - 1 /\ a >= since + 2
      BY <1>4, <2>2 DEF Since
    <3>2. det.high = high - 1 /\ det.low = T - 1 - high
      BY <3>1 DEF DetectorOK
    <3>3. next.normal = (det.high > det.low)
      BY <2>1, <2>2, <3>1 DEF Detect, Learn
    <3>. QED BY <3>2, <3>3
  <2>3. CASE off # 0
    <3>1. since = off - 1 /\ a >= T + since + 2
      BY <1>4, <2>3 DEF Since
    <3>2. det.normal = (2 * high > T)
      BY <3>1 DEF DetectorOK
    <3>3. ~(sync /\ sync # det.d1)
      BY <2>1, <3>1
    <3>. QED BY <3>2, <3>3 DEF Detect
  <2>. QED BY <2>2, <2>3
<1>. QED BY <1>1, <1>2, <1>3, <1>4 DEF DetectorOK

-----------------------------------------------------------------------------
(* Where the video is. *)

\* Where vsync is in its period, in terms of lines.
LEMMA VideoPlace ==
  ASSUME NEW s \in Sources, NEW y \in 0 .. PictureLen(s) - 1, NEW x \in 0 .. LineLen(s) - 1,
         NEW n, n = Offset(y, VRise(s), PictureLen(s)),
         NEW o, o = n * LineLen(s) + x
  PROVE  /\ n \in 0 .. PictureLen(s) - 1 /\ VHigh(s) \in 1 .. PictureLen(s) - 1
         /\ o \in 0 .. Clocks(s) - 1
         /\ (o < VHigh(s) * LineLen(s)) = (n < VHigh(s))
         /\ (o = 0 <=> y = VRise(s) /\ x = 0)
         /\ (o = Clocks(s) - 1 <=> n = PictureLen(s) - 1 /\ x = LineLen(s) - 1)
<1> DEFINE L == LineLen(s)
           P == PictureLen(s)
<1>1. /\ n \in 0 .. P - 1 /\ VHigh(s) \in 1 .. P - 1 /\ VRise(s) \in 0 .. P - 1
      /\ (n = 0 <=> y = VRise(s))
  <2>1. P \in Nat /\ VHigh(s) \in 1 .. P - 1 /\ VRise(s) \in 0 .. P - 1
    BY SourceTyped DEF VRise, VHigh, PictureLen
  <2>. QED BY <2>1 DEF Offset
<1>2. L \in Nat /\ L >= 4 /\ P \in Nat /\ Clocks(s) = P * L
  BY SourceTyped DEF Clocks
<1>3. o \in Nat /\ o < P * L /\ (o < VHigh(s) * L) = (n < VHigh(s))
  BY <1>1, <1>2, LineOrder
<1>4. o = 0 <=> n = 0 /\ x = 0
  <2>1. n >= 1 => o >= 1 * L
    BY <1>1, <1>2, LineOrder
  <2>. QED BY <1>1, <1>2, <2>1
<1>5. o = P * L - 1 <=> n = P - 1 /\ x = L - 1
  <2>1. n < P - 1 => o < (P - 1) * L
    BY <1>1, <1>2, LineOrder
  <2>2. (P - 1) * L = P * L - L /\ P * L \in Nat
    BY <1>2
  <2>. QED BY <1>1, <1>2, <2>1, <2>2
<1>. QED BY <1>1, <1>2, <1>3, <1>4, <1>5

\* The polarity of vsync is whether it is high for more than half of a picture.
LEMMA VideoHigh ==
  ASSUME NEW s \in Sources
  PROVE  /\ VHigh(s) * LineLen(s) \in 1 .. Clocks(s) - 1
         /\ 2 * (VHigh(s) * LineLen(s)) # Clocks(s)
         /\ (2 * (VHigh(s) * LineLen(s)) > Clocks(s)) = ~s.vpos
<1> DEFINE L == LineLen(s)
           P == PictureLen(s)
           V == VHigh(s)
<1>1. /\ V \in 1 .. P - 1 /\ 2 * V # P /\ (2 * V > P) = ~s.vpos
  BY SourceTyped DEF VHigh, PictureLen
<1>2. L \in Nat /\ L >= 4 /\ P \in Nat /\ Clocks(s) = P * L
  BY SourceTyped DEF Clocks
<1>3. V * L \in Nat /\ P * L \in Nat /\ 2 * (V * L) = (2 * V) * L
  BY <1>1, <1>2
<1>4. V * L < P * L
  <2>1. V * L + 0 < P * L
    BY <1>1, <1>2, LineOrder
  <2>. QED BY <1>3, <2>1
<1>5. V * L >= 1
  <2>1. V * L + 0 >= 1 * L
    BY <1>1, <1>2, LineOrder
  <2>. QED BY <1>2, <1>3, <2>1
<1>6. /\ 2 * V < P => (2 * V) * L + 0 < P * L
      /\ P < 2 * V => P * L + 0 < (2 * V) * L
  BY <1>1, <1>2, LineOrder
<1>. QED BY <1>1, <1>2, <1>3, <1>4, <1>5, <1>6

\* One more pixel is one more clock of both periods.
LEMMA VideoMoves ==
  ASSUME NEW s \in Sources, NEW y \in 0 .. PictureLen(s) - 1, NEW x \in 0 .. LineLen(s) - 1,
         NEW y2, y2 = IF x # LineLen(s) - 1 THEN y ELSE (y + 1) % PictureLen(s),
         NEW x2, x2 = IF x = LineLen(s) - 1 THEN 0 ELSE x + 1,
         NEW o, o = Offset(y, VRise(s), PictureLen(s)) * LineLen(s) + x,
         NEW o2, o2 = Offset(y2, VRise(s), PictureLen(s)) * LineLen(s) + x2
  PROVE  o2 = IF o = Clocks(s) - 1 THEN 0 ELSE o + 1
<1> DEFINE L == LineLen(s)
           P == PictureLen(s)
           n == Offset(y, VRise(s), P)
           n2 == Offset(y2, VRise(s), P)
<1>1. L \in Nat /\ L >= 4 /\ P \in Nat /\ P >= 4 /\ VRise(s) \in 0 .. P - 1
  BY SourceTyped DEF VRise, PictureLen
<1>2. n \in 0 .. P - 1 /\ o \in 0 .. Clocks(s) - 1
      /\ (o = Clocks(s) - 1 <=> n = P - 1 /\ x = L - 1)
  BY VideoPlace
<1>3. CASE x # L - 1
  BY <1>1, <1>2, <1>3
<1>4. CASE x = L - 1
  <2>1. y2 = IF y = P - 1 THEN 0 ELSE y + 1
    BY <1>1, <1>4
  <2>2. n2 = IF n = P - 1 THEN 0 ELSE n + 1
    <3>1. Offset(IF y = P - 1 THEN 0 ELSE y + 1, VRise(s), P) =
            IF n = P - 1 THEN 0 ELSE n + 1
      BY <1>1, OffsetCounts
    <3>. QED BY <2>1, <3>1
  <2>3. CASE n = P - 1
    BY <1>1, <1>2, <1>4, <2>2, <2>3
  <2>4. CASE n # P - 1
    <3>1. (n + 1) * L = n * L + L /\ n * L \in Nat
      BY <1>1, <1>2
    <3>. QED BY <1>1, <1>2, <1>4, <2>2, <2>4, <3>1
  <2>. QED BY <2>3, <2>4
<1>. QED BY <1>3, <1>4

-----------------------------------------------------------------------------
(* Types. *)

LEMMA DetectTyped ==
  ASSUME NEW det \in Detectors, NEW sync \in BOOLEAN, CountRange \in Nat \ {0}
  PROVE  Detect(det, sync) \in Detectors
<1>1. \A n \in Nat : Inc(n) \in Nat
  BY DEF Inc
<1>2. Learn(det) \in BOOLEAN
  BY DEF Learn
<1>. QED BY <1>1, <1>2 DEF Detect, Detectors

LEMMA SyncsTyped == HsyncIn \in BOOLEAN /\ VsyncIn \in BOOLEAN
BY DEF HsyncIn, VsyncIn

LEMMA TypeInit == Init => TypeOK
<1> SUFFICES ASSUME Init PROVE TypeOK
  OBVIOUS
<1>1. 0 \in 0 .. Settled(src)
  BY SourceTyped DEF Init, Settled
<1>2. hdet \in Detectors /\ vdet \in Detectors
  BY DEF Init, Detectors
<1>. QED BY <1>1, <1>2 DEF Init, TypeOK

LEMMA TypeStep ==
  ASSUME TypeOK, Clock
  PROVE  TypeOK'
<1>1. CountRange \in Nat \ {0} /\ Settled(src) \in Nat /\ age \in Nat
  BY SourceTyped DEF TypeOK, Settled
<1>2. hdet' \in Detectors /\ vdet' \in Detectors
  BY <1>1, DetectTyped, SyncsTyped DEF TypeOK, Clock
<1>3. /\ nowX' \in Nat /\ nowY' \in Nat /\ nowPxl' \in Nat
      /\ screenX' \in Nat /\ screenY' \in Nat
      /\ lastDe' \in BOOLEAN /\ lastVsync' \in BOOLEAN
  <2>1. CASE Count
    BY <2>1 DEF TypeOK, Count, CountPixels, CountLines, CountPicture, De, Vsync, DeIn
  <2>2. CASE NoSignal
    BY <2>2 DEF TypeOK, NoSignal
  <2>. QED BY <2>1, <2>2 DEF Clock
<1>4. CASE Continue
  <2>1. /\ LineLen(src) \in Nat /\ LineLen(src) >= 4
        /\ PictureLen(src) \in Nat /\ PictureLen(src) >= 4
    BY SourceTyped DEF TypeOK
  <2>2. src' = src /\ vx' \in 0 .. LineLen(src) - 1 /\ vy' \in 0 .. PictureLen(src) - 1
    BY <1>4, <2>1 DEF TypeOK, Continue
  <2>3. age' \in 0 .. Settled(src)
    BY <1>1, <1>4 DEF TypeOK, Continue, Age
  <2>. QED BY <1>2, <1>3, <2>2, <2>3 DEF TypeOK
<1>5. CASE Change
  <2>1. src' \in Sources /\ vx' \in 0 .. LineLen(src') - 1 /\ vy' \in 0 .. PictureLen(src') - 1
        /\ age' = 0
    BY <1>5 DEF Change
  <2>2. 0 \in 0 .. Settled(src')
    BY <2>1, SourceTyped DEF Settled
  <2>. QED BY <1>2, <1>3, <2>1, <2>2 DEF TypeOK
<1>. QED BY <1>4, <1>5 DEF Clock

-----------------------------------------------------------------------------
(* A clock of the same video. *)

\* The offsets of the pixel at the inputs, and what they say of the syncs.
LEMMA OffsetsTyped ==
  ASSUME TypeOK, src.scdt
  PROVE  /\ HOff \in 0 .. LineLen(src) - 1 /\ VOff \in 0 .. Clocks(src) - 1
         /\ VLines \in 0 .. PictureLen(src) - 1
         /\ (VOff = 0 <=> vy = VRise(src) /\ vx = 0)
         /\ HHigh(src) \in 1 .. LineLen(src) - 1
         /\ HsyncIn = (HOff < HHigh(src))
         /\ VsyncIn = (VOff < VHigh(src) * LineLen(src))
<1>1. /\ HOff \in 0 .. LineLen(src) - 1 /\ HHigh(src) \in 1 .. LineLen(src) - 1
      /\ HRise(src) \in 0 .. LineLen(src) - 1
  BY SourceTyped DEF TypeOK, HOff, Offset, HRise, HHigh, LineLen
<1>2. /\ VLines \in 0 .. PictureLen(src) - 1 /\ VOff \in 0 .. Clocks(src) - 1
      /\ VHigh(src) \in 1 .. PictureLen(src) - 1
      /\ (VOff = 0 <=> vy = VRise(src) /\ vx = 0)
      /\ (VOff < VHigh(src) * LineLen(src)) = (VLines < VHigh(src))
  BY VideoPlace DEF TypeOK, VOff, VLines
<1>3. HsyncIn = (HOff < HHigh(src))
  BY SourceTyped
     DEF TypeOK, HsyncIn, HPulse, HOff, Offset, HRise, HHigh, LineLen
<1>4. VsyncIn = (VLines < VHigh(src))
  BY SourceTyped
     DEF TypeOK, VsyncIn, VPulse, VLines, Offset, VRise, VHigh, PictureLen
<1>. QED BY <1>1, <1>2, <1>3, <1>4

LEMMA OffsetsMove ==
  ASSUME TypeOK, src.scdt, Continue
  PROVE  /\ HOff' = IF HOff = LineLen(src) - 1 THEN 0 ELSE HOff + 1
         /\ VOff' = IF VOff = Clocks(src) - 1 THEN 0 ELSE VOff + 1
<1>1. src' = src /\ src \in Sources
  BY DEF TypeOK, Continue
<1>2. HOff' = IF HOff = LineLen(src) - 1 THEN 0 ELSE HOff + 1
  <2>1. HRise(src) \in 0 .. LineLen(src) - 1 /\ LineLen(src) \in Nat
    BY SourceTyped DEF TypeOK, HRise, LineLen
  <2>2. HOff' = Offset(IF vx = LineLen(src) - 1 THEN 0 ELSE vx + 1, HRise(src),
                       LineLen(src))
    BY <1>1 DEF HOff, Continue
  <2>. QED BY <2>1, <2>2, OffsetCounts DEF TypeOK, HOff
<1>3. VOff' = IF VOff = Clocks(src) - 1 THEN 0 ELSE VOff + 1
  BY <1>1, VideoMoves DEF TypeOK, Continue, VOff, VLines
<1>. QED BY <1>2, <1>3

\* The rises of vsync that were of this video: the clock at offset zero is one more.
LEMMA RisesMove ==
  ASSUME TypeOK, src.scdt, Continue
  PROVE  /\ VOff # 0 => /\ Rose(1)' = Rose(1) /\ Rose(2)' = Rose(2) /\ Rose(3)' = Rose(3)
         /\ VOff = 0 => /\ Rose(1)' = (age >= 1) /\ Rose(2)' = Rose(1)
                        /\ Rose(3)' = Rose(2)
<1>1. Clocks(src) \in Nat /\ Clocks(src) >= 16 /\ VOff \in 0 .. Clocks(src) - 1
  BY SourceTyped, OffsetsTyped DEF TypeOK
<1>2. Clocks(src)' = Clocks(src)
  BY DEF Continue
<1>3. VOff' = IF VOff = Clocks(src) - 1 THEN 0 ELSE VOff + 1
  BY OffsetsMove
<1>4. Since(VOff', Clocks(src)) = VOff
  BY <1>1, <1>3 DEF Since
<1>5. /\ age \in 0 .. 3 * Clocks(src) + 1
      /\ age' = IF age = 3 * Clocks(src) + 1 THEN age ELSE age + 1
  BY DEF TypeOK, Continue, Age, Settled
<1>6. /\ Rose(1) = (age >= Since(VOff, Clocks(src)) + 2)
      /\ Rose(2) = (age >= Clocks(src) + Since(VOff, Clocks(src)) + 2)
      /\ Rose(3) = (age >= 2 * Clocks(src) + Since(VOff, Clocks(src)) + 2)
  BY <1>1 DEF Rose, Since
<1>7. /\ Rose(1)' = (age' >= VOff + 2)
      /\ Rose(2)' = (age' >= Clocks(src) + VOff + 2)
      /\ Rose(3)' = (age' >= 2 * Clocks(src) + VOff + 2)
  BY <1>1, <1>2, <1>4 DEF Rose
<1>8. CASE VOff # 0
  BY <1>1, <1>5, <1>6, <1>7, <1>8 DEF Since
<1>9. CASE VOff = 0
  BY <1>1, <1>5, <1>6, <1>7, <1>9 DEF Since
<1>. QED BY <1>8, <1>9

LEMMA RisesOrder ==
  ASSUME TypeOK, src.scdt
  PROVE  /\ Rose(3) => Rose(2) 
         /\ Rose(2) => Rose(1) /\ age >= 4 * LineLen(src) + 2
         /\ Rose(1) => age >= 2
<1>1. /\ Clocks(src) \in Nat /\ LineLen(src) \in Nat /\ Clocks(src) >= 4 * LineLen(src)
      /\ VOff \in 0 .. Clocks(src) - 1 /\ age \in Nat
  BY SourceTyped, OffsetsTyped DEF TypeOK, Settled
<1>2. Since(VOff, Clocks(src)) \in Nat
  BY <1>1 DEF Since
<1>. QED BY <1>1, <1>2 DEF Rose

\* What the polarities learnt say of the syncs.
LEMMA Polarities ==
  ASSUME TypeOK, src.scdt, WithSignal
  PROVE  /\ Right => Vsync = ~VPulse
         /\ ~Right => Vsync = VPulse
         /\ VPulse => vy >= src.h + src.vfront
         /\ Rose(2) => Right /\ De = DeIn
<1>1. src.vpos \in BOOLEAN /\ src.hpos \in BOOLEAN /\ src \in Sources
      /\ hdet.normal \in BOOLEAN /\ vdet.normal \in BOOLEAN
      /\ VPulse \in BOOLEAN /\ HPulse \in BOOLEAN
  BY SourceTyped DEF TypeOK, Detectors, VPulse, HPulse
<1>2. /\ Right => Vsync = ~VPulse
      /\ ~Right => Vsync = VPulse
  BY <1>1 DEF Right, Vsync, VsyncIn
<1>3. /\ VPulse => vy >= src.h + src.vfront /\ ~DeIn
      /\ HPulse => ~DeIn
  BY <1>1, SourceTyped DEF TypeOK, VPulse, HPulse, DeIn
<1>4. ASSUME Rose(2) PROVE Right /\ De = DeIn
  <2>1. Right
    <3>1. vdet.normal = (2 * (VHigh(src) * LineLen(src)) > Clocks(src))
      <4>1. age >= Clocks(src) + Since(VOff, Clocks(src)) + 2
        <5>1. (2 - 1) * Clocks(src) = Clocks(src)
          BY <1>1, SourceTyped
        <5>. QED BY <1>4, <5>1 DEF Rose
      <4>. QED BY <4>1 DEF WithSignal, DetectorOK
    <3>. QED BY <1>1, <3>1, VideoHigh DEF Right
  <2>2. hdet.normal = ~src.hpos
    <3>1. /\ LineLen(src) \in Nat /\ HOff \in 0 .. LineLen(src) - 1
          /\ age \in Nat /\ age >= 4 * LineLen(src) + 2
      BY <1>1, <1>4, SourceTyped, OffsetsTyped, RisesOrder DEF TypeOK, Settled
    <3>2. age >= LineLen(src) + Since(HOff, LineLen(src)) + 2
      BY <3>1 DEF Since
    <3>3. hdet.normal = (2 * HHigh(src) > LineLen(src))
      BY <3>2 DEF WithSignal, DetectorOK
    <3>. QED BY <1>1, <3>3, SourceTyped DEF HHigh
  <2>3. Hsync = ~HPulse
    BY <1>1, <2>2 DEF Hsync, HsyncIn
  <2>4. De = (DeIn /\ ~HPulse /\ ~VPulse)
    BY <1>2, <2>1, <2>3 DEF De
  <2>5. De = DeIn
    BY <1>3, <2>4 DEF DeIn
  <2>. QED BY <2>1, <2>5
<1>. QED BY <1>2, <1>3, <1>4

\* The polarity of vsync is learnt at its rises only.
LEMMA LearntAtRises ==
  ASSUME TypeOK, src.scdt, WithSignal, Continue, vdet' = Detect(vdet, VsyncIn),
         age >= 1, VOff # 0
  PROVE  Right' = Right
<1> DEFINE V == VHigh(src) * LineLen(src)
<1>1. /\ vdet.d1 = (Since(VOff, Clocks(src)) < V)
      /\ VsyncIn = (VOff < V)
      /\ VOff \in 0 .. Clocks(src) - 1 /\ Clocks(src) \in Nat
      /\ V \in 1 .. Clocks(src) - 1
  BY OffsetsTyped, SourceTyped, VideoHigh DEF WithSignal, DetectorOK, TypeOK
<1>2. ~(VsyncIn /\ VsyncIn # vdet.d1)
  <2> HIDE DEF V
  <2>1. VOff < V => Since(VOff, Clocks(src)) < V
    BY <1>1 DEF Since
  <2>2. vdet.d1 = TRUE \/ ~(VOff < V)
    BY <1>1, <2>1
  <2>3. VsyncIn = TRUE \/ VsyncIn = FALSE
    BY SyncsTyped
  <2>. QED BY <1>1, <2>2, <2>3
<1>3. vdet'.normal = vdet.normal
  BY <1>2 DEF Detect
<1>. QED BY <1>3 DEF Right, Continue

\* Both detectors go on.
LEMMA DetectorsStep ==
  ASSUME TypeOK, src.scdt, WithSignal, Continue,
         hdet' = Detect(hdet, HsyncIn), vdet' = Detect(vdet, VsyncIn)
  PROVE  /\ DetectorOK(hdet', age', HOff', HHigh(src), LineLen(src))
         /\ DetectorOK(vdet', age', VOff', VHigh(src) * LineLen(src), Clocks(src))
<1> DEFINE L == LineLen(src)
           C == Clocks(src)
           V == VHigh(src) * L
<1>1. /\ L \in Nat /\ L >= 4 /\ C \in Nat /\ C >= 4 * L /\ CountRange \in Nat /\ C < CountRange
      /\ HHigh(src) \in 1 .. L - 1 /\ 2 * HHigh(src) # L
      /\ V \in 1 .. C - 1 /\ 2 * V # C
      /\ HOff \in 0 .. L - 1 /\ VOff \in 0 .. C - 1
      /\ HsyncIn = (HOff < HHigh(src)) /\ VsyncIn = (VOff < V)
      /\ hdet \in Detectors /\ vdet \in Detectors
  BY SourceTyped, VideoHigh, OffsetsTyped DEF TypeOK, HHigh
<1>2. /\ age \in Nat /\ age' \in Nat
      /\ age' = age + 1 \/ (age' = age /\ age >= 2 * C + 1 /\ age >= 2 * L + 1)
  BY <1>1 DEF TypeOK, Continue, Age, Settled
<1>3. /\ DetectorOK(hdet, age, HOff, HHigh(src), L)
      /\ DetectorOK(vdet, age, VOff, V, C)
  BY DEF WithSignal
<1>4. DetectorOK(Detect(hdet, HOff < HHigh(src)), age',
                 IF HOff = L - 1 THEN 0 ELSE HOff + 1, HHigh(src), L)
  <2> HIDE DEF V, C, L
  <2>1. L < CountRange
    BY <1>1
  <2>. QED BY <1>1, <1>2, <1>3, <2>1, DetectStep
<1>5. DetectorOK(Detect(vdet, VOff < V), age', IF VOff = C - 1 THEN 0 ELSE VOff + 1, V, C)
  <2> HIDE DEF V
  <2>. QED BY <1>1, <1>2, <1>3, DetectStep
<1>. QED BY <1>1, <1>4, <1>5, OffsetsMove

\* A clock of the video that is at the inputs already.
Running == TypeOK /\ src.scdt /\ WithSignal /\ Clock /\ Continue

LEMMA RunningMoves ==
  ASSUME Running
  PROVE  /\ src' = src /\ src \in Sources /\ src'.scdt /\ Count /\ TypeOK'
         /\ vx' = IF vx = LineLen(src) - 1 THEN 0 ELSE vx + 1
         /\ vy' = IF vx # LineLen(src) - 1 THEN vy
                  ELSE IF vy = PictureLen(src) - 1 THEN 0 ELSE vy + 1
         /\ vx \in 0 .. LineLen(src) - 1 /\ vy \in 0 .. PictureLen(src) - 1
         /\ (age' >= 2 => age >= 1)
         /\ (VPulse <=> /\ vy >= src.h + src.vfront
                        /\ vy < src.h + src.vfront + src.vpulse)
         /\ VRise(src) = src.h + src.vfront + (IF src.vpos THEN 0 ELSE src.vpulse)
<1>1. src' = src /\ src \in Sources /\ Count /\ TypeOK'
  BY TypeStep DEF Running, TypeOK, Continue, Clock, NoSignal
<1>2. /\ vx \in 0 .. LineLen(src) - 1 /\ vy \in 0 .. PictureLen(src) - 1
      /\ LineLen(src) \in Nat /\ PictureLen(src) \in Nat /\ PictureLen(src) >= 4
  BY SourceTyped DEF Running, TypeOK
<1>3. (vy + 1) % PictureLen(src) = IF vy = PictureLen(src) - 1 THEN 0 ELSE vy + 1
  BY <1>2
<1>4. VPulse <=> vy >= src.h + src.vfront /\ vy < src.h + src.vfront + src.vpulse
  BY <1>1, <1>2, SourceTyped DEF VPulse, Running
<1>5. age' >= 2 => age >= 1
  <2>1. age \in Nat
    BY SourceTyped DEF Running, TypeOK, Settled
  <2>2. age' = age \/ age' = age + 1
    BY DEF Running, Continue, Age
  <2>. QED BY <2>1, <2>2
<1>. QED BY <1>1, <1>2, <1>3, <1>4, <1>5 DEF Running, Continue, VRise

LEMMA VLinesIs ==
  ASSUME TypeOK
  PROVE  VLines = IF vy >= VRise(src) THEN vy - VRise(src)
                  ELSE vy - VRise(src) + PictureLen(src)
BY DEF VLines, Offset

\* No line is counted, and the counters are cleared, while the polarity is wrong.
LEMMA WrongIdlesStep ==
  ASSUME Running
  PROVE  WrongIdles'
<1> SUFFICES ASSUME Rose(1)', ~Right'
             PROVE  /\ ~lastDe'
                    /\ (VOff' = 0 \/ VLines' > src.vpulse \/ (VLines' = src.vpulse /\ vx' > 0))
                         => NoLines'
  BY RunningMoves DEF WrongIdles
<1>0. TypeOK /\ src.scdt /\ WithSignal /\ Clock /\ Continue
  BY DEF Running
<1>1. /\ VOff \in 0 .. Clocks(src) - 1
      /\ (VOff = 0 <=> vy = VRise(src) /\ vx = 0)
      /\ (VOff' = 0 <=> vy' = VRise(src) /\ vx' = 0)
  <2>1. vy' \in 0 .. PictureLen(src) - 1 /\ vx' \in 0 .. LineLen(src) - 1
    BY RunningMoves DEF TypeOK
  <2>2. VOff' = Offset(vy', VRise(src), PictureLen(src)) * LineLen(src) + vx'
    BY RunningMoves DEF VOff, VLines
  <2>3. VOff' = 0 <=> vy' = VRise(src) /\ vx' = 0
    BY <2>1, <2>2, VideoPlace, RunningMoves
  <2>. QED BY <1>0, OffsetsTyped, <2>3
<1>2. /\ src.w \in Nat \ {0} /\ src.h \in Nat \ {0} /\ src.vfront \in Nat \ {0}
      /\ src.vpulse \in Nat \ {0} /\ src.vback \in Nat \ {0} /\ src.vpos \in BOOLEAN
      /\ PictureLen(src) = src.h + src.vfront + src.vpulse + src.vback
      /\ 2 * src.vpulse < PictureLen(src) /\ LineLen(src) \in Nat /\ LineLen(src) >= 4
  BY SourceTyped, RunningMoves DEF PictureLen
<1>3. CASE VOff = 0
  <2>1. vy = VRise(src) /\ vx = 0 /\ vy' = vy /\ vx' = 1
    BY <1>1, <1>2, <1>3, RunningMoves
  <2>2. VLines' = 0
    <3>1. VLines' = IF vy' >= VRise(src) THEN vy' - VRise(src)
                    ELSE vy' - VRise(src) + PictureLen(src)
      BY RunningMoves DEF VLines, Offset
    <3>. QED BY <2>1, <3>1, <1>2, RunningMoves
  <2>3. ~lastDe'
    <3>1. ~(vy < src.h)
      BY <1>2, <2>1, RunningMoves
    <3>. QED BY <3>1, RunningMoves DEF Count, De, DeIn
  <2>. QED BY <1>1, <1>2, <2>1, <2>2, <2>3
<1>4. CASE VOff # 0
  <2>1. Rose(1) /\ ~Right /\ age >= 1
    <3>1. Rose(1) /\ age >= 2
      BY <1>0, <1>4, RisesMove, RisesOrder
    <3>2. age >= 1 /\ vdet' = Detect(vdet, VsyncIn)
      BY <1>0, <3>1, SourceTyped DEF TypeOK, Settled, Clock
    <3>. QED BY <1>0, <1>4, <3>1, <3>2, LearntAtRises
  <2>2. Vsync = VPulse /\ (VPulse => vy >= src.h + src.vfront)
    BY <1>0, <2>1, Polarities
  <2>3. ~De
    BY <1>2, <2>2, RunningMoves DEF De, DeIn
  <2>4. ~lastDe
    BY <1>0, <2>1 DEF WithSignal, WrongIdles
  <2>5. /\ nowY' = IF VPulse THEN nowY ELSE 0
        /\ nowPxl' = IF VPulse THEN nowPxl ELSE 0
        /\ ~lastDe'
    BY <2>2, <2>3, <2>4, RunningMoves DEF Count, CountLines, CountPicture
  <2>6. ASSUME VPulse, VOff' = 0 \/ VLines' > src.vpulse \/ (VLines' = src.vpulse /\ vx' > 0)
        PROVE  NoLines
    <3>1. VLines' = IF vy' >= VRise(src) THEN vy' - VRise(src)
                    ELSE vy' - VRise(src) + PictureLen(src)
      BY RunningMoves DEF VLines, Offset
    <3>2. VLines = IF vy >= VRise(src) THEN vy - VRise(src)
                   ELSE vy - VRise(src) + PictureLen(src)
      BY <1>0, VLinesIs
    <3>3. VLines > src.vpulse
      BY <1>1, <1>2, <2>6, <3>1, <3>2, RunningMoves
    <3>. QED BY <1>0, <2>1, <3>3 DEF WithSignal, WrongIdles
  <2>. QED BY <2>5, <2>6 DEF NoLines
<1>. QED BY <1>3, <1>4

\* The pulse clears the counters.
LEMMA PulseClearsStep ==
  ASSUME Running
  PROVE  PulseClears'
<1> SUFFICES ASSUME age' >= 2, ~src.vpos, Right', AfterPulse' PROVE NoLines'
  BY RunningMoves DEF PulseClears
<1>0. TypeOK /\ src.scdt /\ WithSignal /\ Clock /\ Continue
  BY DEF Running
<1>1. /\ src.h \in Nat \ {0} /\ src.vfront \in Nat \ {0}
      /\ src.vpulse \in Nat \ {0} /\ src.vback \in Nat \ {0}
      /\ PictureLen(src) = src.h + src.vfront + src.vpulse + src.vback
      /\ LineLen(src) \in Nat /\ LineLen(src) >= 4
  BY SourceTyped, RunningMoves DEF PictureLen
<1>2. VPulse
  <2>1. \/ /\ vy' \in src.h + src.vfront .. src.h + src.vfront + src.vpulse - 1
           /\ ~(vy' = src.h + src.vfront /\ vx' = 0)
        \/ vy' = src.h + src.vfront + src.vpulse /\ vx' = 0
    BY <1>1, RunningMoves DEF AfterPulse, VPulse, PulseStart, PulseEnd
  <2>. QED BY <1>1, <2>1, RunningMoves
<1>3. VOff # 0
  BY <1>0, <1>1, <1>2, OffsetsTyped, RunningMoves
<1>4. age >= 1 /\ vdet' = Detect(vdet, VsyncIn)
  BY <1>0, RunningMoves DEF Clock
<1>5. ~Vsync
  BY <1>0, <1>2, <1>3, <1>4, LearntAtRises, Polarities
<1>6. ~lastDe
  BY <1>0, <1>1, <1>2, <1>4, RunningMoves DEF WithSignal
<1>. QED BY <1>5, <1>6, RunningMoves DEF Count, CountLines, CountPicture, De, NoLines

\* The sizes of the source, for steps that look at where in a picture they are.
LEMMA SourceSizes ==
  ASSUME Running
  PROVE  /\ src.w \in Nat \ {0} /\ src.hfront \in Nat \ {0}
         /\ src.hpulse \in Nat \ {0} /\ src.hback \in Nat \ {0}
         /\ src.h \in Nat \ {0} /\ src.vfront \in Nat \ {0}
         /\ src.vpulse \in Nat \ {0} /\ src.vback \in Nat \ {0}
         /\ LineLen(src) = src.w + src.hfront + src.hpulse + src.hback
         /\ PictureLen(src) = src.h + src.vfront + src.vpulse + src.vback
BY SourceTyped, RunningMoves DEF LineLen, PictureLen

\* At the second rise the counters are those of its place in a picture.
LEMMA CountingStarts ==
  ASSUME Running, VOff = 0, Rose(1)
  PROVE  Counting'
<1>0. TypeOK /\ src.scdt /\ WithSignal /\ Clock /\ Continue
  BY DEF Running
<1>1. vy = VRise(src) /\ vx = 0 /\ vy >= src.h + src.vfront
  <2>1. vy = VRise(src) /\ vx = 0
    BY <1>0, OffsetsTyped
  <2>. QED BY <2>1, RunningMoves, SourceSizes
<1>2. /\ vy' = vy /\ vx' = 1 /\ src' = src /\ ~(vy' < src.h)
      /\ ~(vy < src.h) /\ ~(vy < src.h + src.vfront)
  <2>1. vx # LineLen(src) - 1 /\ vy \in Nat
    <3>1. LineLen(src) # 1
      BY SourceSizes
    <3>2. LineLen(src) \in Nat /\ PictureLen(src) \in Nat
      BY SourceSizes
    <3>. QED BY <1>1, <3>1, <3>2, RunningMoves
  <2>2. vy' = vy /\ vx' = 1 /\ src' = src
    BY <1>1, <2>1, RunningMoves
  <2>. QED BY <1>1, <2>1, <2>2, SourceSizes
<1>3. ~De
  BY <1>2 DEF De, DeIn
<1>4. ~lastDe
  <2>1. age >= 1
    BY <1>0, RisesOrder, SourceTyped DEF TypeOK, Settled
  <2>. QED BY <1>0, <1>2, <2>1 DEF WithSignal
<1>5. /\ nowX' = 0 /\ ~lastDe'
      /\ nowY' = IF ~Vsync THEN 0 ELSE nowY
      /\ nowPxl' = IF ~Vsync THEN 0 ELSE nowPxl
  BY <1>3, <1>4, RunningMoves DEF Count, CountPixels, CountLines, CountPicture
<1>6. Right'
  <2>1. Rose(2)'
    BY <1>0, RisesMove
  <2>2. vdet'.normal = (2 * (VHigh(src) * LineLen(src)) > Clocks(src))
    <3>1. age' >= Clocks(src) + Since(VOff', Clocks(src)) + 2
      <4>1. (2 - 1) * Clocks(src) = Clocks(src)
        BY RunningMoves, SourceTyped
      <4>. QED BY <2>1, <4>1, RunningMoves DEF Rose
    <3>2. vdet' = Detect(vdet, VsyncIn) /\ hdet' = Detect(hdet, HsyncIn)
      BY <1>0 DEF Clock
    <3>. QED BY <1>0, <3>1, <3>2, DetectorsStep DEF DetectorOK
  <2>. QED BY <2>2, VideoHigh, RunningMoves, SourceTyped DEF Right
<1>7. ~Vsync \/ NoLines
  <2>1. CASE ~Right
    BY <1>0, <2>1 DEF WithSignal, WrongIdles
  <2>2. CASE Right /\ src.vpos
    <3>1. VPulse
      BY <1>1, <2>2, RunningMoves, SourceSizes
    <3>. QED BY <1>0, <2>2, <3>1, Polarities
  <2>3. CASE Right /\ ~src.vpos
    <3>1. PulseEnd
      BY <1>1, <2>3, RunningMoves DEF PulseEnd
    <3>. QED BY <1>0, <2>3, <3>1, RisesOrder DEF WithSignal, PulseClears, AfterPulse
  <2>. QED BY <2>1, <2>2, <2>3, RunningMoves, SourceTyped
<1>8. NoLines'
  BY <1>5, <1>7 DEF NoLines
<1>9. ~PulseStart'
  BY <1>2 DEF PulseStart
<1>10. lastDe' = FALSE
  BY <1>5, RunningMoves DEF TypeOK
<1>. QED BY <1>2, <1>5, <1>6, <1>8, <1>9, <1>10 DEF Counting

\* From then on the counters follow the picture.
LEMMA CountingStep ==
  ASSUME Running, VOff # 0, Rose(2)
  PROVE  Counting'
<1>0. TypeOK /\ src.scdt /\ WithSignal /\ Clock /\ Continue
  BY DEF Running
<1>1. Counting /\ Right /\ De = DeIn /\ Vsync = ~VPulse
  BY <1>0, Polarities DEF WithSignal
<1>2. Right'
  <2>1. age >= 1 /\ vdet' = Detect(vdet, VsyncIn)
    BY <1>0, RisesOrder, SourceTyped DEF TypeOK, Settled, Clock
  <2>. QED BY <1>0, <1>1, <2>1, LearntAtRises
<1>3. /\ src' = src /\ vx \in Nat /\ vy \in Nat
      /\ vx' = IF vx = LineLen(src) - 1 THEN 0 ELSE vx + 1
      /\ vy' = IF vx # LineLen(src) - 1 THEN vy
               ELSE IF vy = PictureLen(src) - 1 THEN 0 ELSE vy + 1
  BY RunningMoves
<1>4. DeIn <=> vx < src.w /\ vy < src.h
  BY <1>0 DEF DeIn
<1>5. VPulse <=> vy >= src.h + src.vfront /\ vy < src.h + src.vfront + src.vpulse
  BY RunningMoves
<1>6. PulseStart' => lastVsync'
  <2>1. SUFFICES ASSUME PulseStart' PROVE ~VPulse
    BY <1>1, RunningMoves DEF Count
  <2>. QED BY <1>3, <1>5, <2>1, SourceSizes DEF PulseStart
<1>7. /\ nowX \in Nat /\ nowY \in Nat /\ nowPxl \in Nat
      /\ nowX' = IF DeIn THEN nowX + 1 ELSE 0
      /\ nowY' = IF DeIn THEN nowY ELSE IF lastDe THEN nowY + 1 ELSE IF VPulse THEN 0 ELSE nowY
      /\ nowPxl' = IF DeIn THEN nowPxl + 1 ELSE IF VPulse THEN 0 ELSE nowPxl
      /\ lastDe' = DeIn /\ lastDe' \in BOOLEAN /\ vx' \in Nat /\ vy' \in Nat
  <2>1. lastDe' \in BOOLEAN /\ vx' \in Nat /\ vy' \in Nat
    BY RunningMoves DEF TypeOK
  <2>. QED
    BY <1>0, <1>1, <2>1, RunningMoves
       DEF TypeOK, Count, CountPixels, CountLines, CountPicture
<1>8. CASE vy < src.h
  <2>1. /\ nowX = IF vx <= src.w THEN vx ELSE 0
        /\ lastDe <=> vx \in 1 .. src.w
        /\ nowY = IF vx <= src.w THEN vy ELSE vy + 1
        /\ nowPxl = LinesBefore + IF vx <= src.w THEN vx ELSE src.w
    BY <1>1, <1>8 DEF Counting
  <2>2. ~VPulse
    BY <1>3, <1>5, <1>8, SourceSizes
  <2>3. /\ LinesBefore \in Nat
        /\ vy' = vy => LinesBefore' = LinesBefore
        /\ vy' = vy + 1 => LinesBefore' = LinesBefore + src.w
    <3>1. vy * src.w \in Nat /\ (vy + 1) * src.w = vy * src.w + src.w
      BY <1>3, SourceSizes
    <3>2. LinesBefore = vy * src.w /\ LinesBefore' = vy' * src.w
      BY <1>3 DEF LinesBefore
    <3>. QED BY <3>1, <3>2
  <2>4. CASE vx # LineLen(src) - 1
    <3>1. vy' = vy /\ vx' = vx + 1 /\ ~PulseStart'
      BY <1>3, <2>4 DEF PulseStart
    <3>2. /\ nowX' = IF vx + 1 <= src.w THEN vx + 1 ELSE 0
          /\ lastDe' <=> vx + 1 <= src.w
          /\ nowY' = IF vx + 1 <= src.w THEN vy ELSE vy + 1
          /\ nowPxl' = LinesBefore + IF vx + 1 <= src.w THEN vx + 1 ELSE src.w
      BY <1>3, <1>4, <1>7, <1>8, <2>1, <2>2, <2>3, SourceSizes
    <3>. QED BY <1>2, <1>3, <1>7, <1>8, <2>3, <3>1, <3>2, SourceSizes DEF Counting
  <2>5. CASE vx = LineLen(src) - 1
    <3>1. vy' = vy + 1 /\ vx' = 0 /\ vx > src.w /\ ~PulseStart'
      BY <1>3, <1>8, <2>5, SourceSizes DEF PulseStart
    <3>2. nowX' = 0 /\ ~lastDe' /\ nowY' = vy + 1 /\ nowPxl' = LinesBefore'
      BY <1>4, <1>7, <2>1, <2>2, <2>3, <3>1, SourceSizes
    <3>3. vy + 1 >= src.h => vy + 1 = src.h /\ vy + 1 < src.h + src.vfront
      BY <1>3, <1>8, SourceSizes
    <3>. QED BY <1>2, <1>3, <1>7, <2>3, <3>1, <3>2, <3>3, SourceSizes DEF Counting
  <2>. QED BY <2>4, <2>5
<1>9. CASE vy >= src.h
  <2>1. /\ nowX = 0 /\ ~lastDe
        /\ IF vy < src.h + src.vfront \/ PulseStart THEN nowY = src.h ELSE NoLines
    <3>1. ~(vy < src.h) /\ vy >= src.h
      BY <1>3, <1>9, SourceSizes
    <3>. QED BY <1>1, <3>1 DEF Counting
  <2>2. /\ nowX' = 0 /\ ~lastDe'
        /\ nowY' = IF VPulse THEN 0 ELSE nowY
        /\ nowPxl' = IF VPulse THEN 0 ELSE nowPxl
    BY <1>3, <1>4, <1>7, <1>9, <2>1, SourceSizes
  <2>3. CASE vy' < src.h
    <3>1. vy' = 0 /\ vx' = 0 /\ vy = PictureLen(src) - 1 /\ ~VPulse /\ ~PulseStart
      BY <1>3, <1>5, <1>9, <2>3, SourceSizes DEF PulseStart
    <3>2. ~(vy < src.h + src.vfront)
      <4>1. vy = src.h + src.vfront + src.vpulse + src.vback - 1
        BY <3>1, SourceSizes
      <4>. QED BY <4>1, SourceSizes
    <3>3. nowY' = 0 /\ nowPxl' = 0
      BY <2>1, <2>2, <3>1, <3>2 DEF NoLines
    <3>4. LinesBefore' = 0
      BY <1>3, <3>1, SourceSizes DEF LinesBefore
    <3>. QED BY <1>2, <1>3, <1>6, <1>7, <2>2, <2>3, <3>1, <3>3, <3>4, SourceSizes
             DEF Counting
  <2>4. CASE ~(vy' < src.h)
    <3>1. vy' < src.h + src.vfront => ~VPulse /\ vy < src.h + src.vfront
      BY <1>3, <1>5, <1>9, <2>4, SourceSizes
    <3>2. PulseStart' => ~VPulse /\ vy < src.h + src.vfront
      BY <1>3, <1>5, <1>9, <2>4, SourceSizes DEF PulseStart
    <3>3. ASSUME ~(vy' < src.h + src.vfront), ~PulseStart', ~VPulse
          PROVE  ~(vy < src.h + src.vfront) /\ ~PulseStart
      BY <1>3, <1>5, <1>9, <2>4, <3>3, SourceSizes DEF PulseStart
    <3>4. IF vy' < src.h + src.vfront \/ PulseStart' THEN nowY' = src.h ELSE NoLines'
      BY <2>1, <2>2, <3>1, <3>2, <3>3 DEF NoLines
    <3>. QED BY <1>2, <1>3, <1>6, <1>7, <2>2, <2>4, <3>4, SourceSizes DEF Counting
  <2>. QED BY <2>3, <2>4
<1>. QED BY <1>3, <1>8, <1>9, SourceSizes

\* The width is measured at the end of the first line, and again at every other.
LEMMA LineSeenStep ==
  ASSUME Running, LineSeen'
  PROVE  screenX' = src.w
<1>0. TypeOK /\ src.scdt /\ WithSignal /\ Clock /\ Continue
  BY DEF Running
<1>1. /\ src' = src /\ vx \in Nat /\ vy \in Nat
      /\ vx' = IF vx = LineLen(src) - 1 THEN 0 ELSE vx + 1
      /\ vy' = IF vx # LineLen(src) - 1 THEN vy
               ELSE IF vy = PictureLen(src) - 1 THEN 0 ELSE vy + 1
  BY RunningMoves
<1>2. VRise(src)' = VRise(src) /\ VRise(src) \in Nat /\ VRise(src) < PictureLen(src)
      /\ VRise(src) >= src.h + src.vfront
  <2>1. VRise(src) = src.h + src.vfront + (IF src.vpos THEN 0 ELSE src.vpulse)
    BY RunningMoves
  <2>. QED BY <1>1, <2>1, SourceSizes
<1>3. Rose(2)
  <2>1. Rose(2)'
    <3>1. (Rose(3) => Rose(2))'
      <4>1. VOff # 0 => Rose(3)' = Rose(3) /\ Rose(2)' = Rose(2)
        BY <1>0, RisesMove
      <4>2. VOff = 0 => Rose(3)' = Rose(2) /\ Rose(2)' = Rose(1)
        BY <1>0, RisesMove
      <4>. QED BY <1>0, <4>1, <4>2, RisesOrder
    <3>. QED BY <3>1 DEF LineSeen
  <2>2. CASE VOff # 0
    BY <1>0, <2>1, <2>2, RisesMove
  <2>3. CASE VOff = 0
    <3>1. Rose(3)'
      <4>1. vy = VRise(src) /\ vx = 0
        BY <1>0, <2>3, OffsetsTyped
      <4>2. vx # LineLen(src) - 1
        <5>1. LineLen(src) # 1 /\ LineLen(src) \in Nat
          BY SourceSizes
        <5>. QED BY <4>1, <5>1
      <4>3. vy' = VRise(src) /\ vx' = 1
        BY <1>1, <4>1, <4>2
      <4>4. ~(vy' < VRise(src) /\ (vy' > 0 \/ vx' > src.w)) /\ ~(vy' = VRise(src) /\ vx' = 0)
        BY <1>2, <4>3
      <4>. QED BY <1>1, <1>2, <4>4 DEF LineSeen
    <3>. QED BY <1>0, <2>3, <3>1, RisesMove
  <2>. QED BY <2>2, <2>3
<1>4. Counting /\ De = DeIn
  BY <1>0, <1>3, Polarities DEF WithSignal
<1>5. DeIn <=> vx < src.w /\ vy < src.h
  BY <1>0 DEF DeIn
<1>6. screenX' = IF ~DeIn /\ lastDe THEN nowX ELSE screenX
  BY <1>4, RunningMoves DEF Count, CountPixels
<1>7. lastDe <=> vy < src.h /\ vx \in 1 .. src.w
  BY <1>4 DEF Counting
<1>8. ~DeIn /\ lastDe => nowX = src.w
  <2>1. SUFFICES ASSUME ~DeIn, lastDe PROVE nowX = src.w
    OBVIOUS
  <2>2. vy < src.h /\ vx = src.w
    BY <1>1, <1>5, <1>7, <2>1, SourceSizes
  <2>3. nowX = IF vy < src.h /\ vx <= src.w THEN vx ELSE 0
    BY <1>4 DEF Counting
  <2>. QED BY <2>2, <2>3, SourceSizes
<1>9. CASE LineSeen
  BY <1>0, <1>6, <1>8, <1>9 DEF WithSignal
<1>10. CASE ~LineSeen
  <2>1. /\ ~Rose(3)
        /\ ~(vy < VRise(src) /\ (vy > 0 \/ vx > src.w))
        /\ ~(vy = VRise(src) /\ vx = 0)
    BY <1>3, <1>10 DEF LineSeen
  <2>2. VOff # 0 /\ ~Rose(3)'
    <3>1. VOff # 0
      BY <1>0, <2>1, OffsetsTyped
    <3>. QED BY <1>0, <2>1, <3>1, RisesMove
  <2>3. \/ vy' < VRise(src) /\ (vy' > 0 \/ vx' > src.w)
        \/ vy' = VRise(src) /\ vx' = 0
    BY <1>1, <1>2, <2>2 DEF LineSeen
  <2>4. vy = 0 /\ vx = src.w
    <3>1. CASE vx # LineLen(src) - 1
      <4>1. vy' = vy /\ vx' = vx + 1
        BY <1>1, <3>1
      <4>2. vy < VRise(src) /\ (vy > 0 \/ vx + 1 > src.w)
        BY <2>3, <4>1, <1>1
      <4>. QED BY <1>1, <2>1, <4>2, SourceSizes
    <3>2. CASE vx = LineLen(src) - 1 /\ vy = PictureLen(src) - 1
      <4>1. vy' = 0 /\ vx' = 0
        BY <1>1, <3>2
      <4>. QED BY <1>2, <2>3, <4>1, SourceSizes
    <3>3. CASE vx = LineLen(src) - 1 /\ vy # PictureLen(src) - 1
      <4>1. vy' = vy + 1 /\ vx' = 0 /\ vx > src.w
        BY <1>1, <3>3, SourceSizes
      <4>2. vy + 1 <= VRise(src) /\ vy \in Nat /\ VRise(src) \in Nat
        BY <1>1, <1>2, <2>3, <4>1
      <4>3. vy < VRise(src)
        BY <4>2
      <4>. QED BY <2>1, <4>1, <4>3
    <3>. QED BY <3>1, <3>2, <3>3
  <2>5. lastDe /\ ~DeIn
    BY <1>5, <1>7, <2>4, SourceSizes
  <2>. QED BY <1>6, <1>8, <2>5
<1>. QED BY <1>9, <1>10

\* The height is taken where the pulse begins, and not again in the pulse.
LEMMA PictureSeenStep ==
  ASSUME Running, PictureSeen'
  PROVE  screenY' = src.h /\ (VPulse' /\ ~PulseStart' => ~lastVsync')
<1>0. TypeOK /\ src.scdt /\ WithSignal /\ Clock /\ Continue
  BY DEF Running
<1>1. /\ src' = src /\ vx \in Nat /\ vy \in Nat
      /\ vx' = IF vx = LineLen(src) - 1 THEN 0 ELSE vx + 1
      /\ vy' = IF vx # LineLen(src) - 1 THEN vy
               ELSE IF vy = PictureLen(src) - 1 THEN 0 ELSE vy + 1
  BY RunningMoves
<1>2. /\ VPulse <=> vy >= src.h + src.vfront /\ vy < src.h + src.vfront + src.vpulse
      /\ VPulse' <=> vy' >= src.h + src.vfront /\ vy' < src.h + src.vfront + src.vpulse
  <2>1. vy' \in Nat
    BY <1>1
  <2>. QED BY <1>0, <1>1, <2>1, RunningMoves, SourceSizes DEF VPulse
<1>3. VPulse' /\ ~PulseStart' => VPulse
  BY <1>1, <1>2, SourceSizes DEF PulseStart
<1>4. ~src.vpos /\ AfterPulse' => VPulse
  BY <1>1, <1>2, SourceSizes DEF AfterPulse, PulseStart, PulseEnd
<1>5. VPulse /\ ~src.vpos => VOff # 0
  <2>1. VOff = 0 => vy = VRise(src)
    BY <1>0, OffsetsTyped
  <2>2. ~src.vpos => VRise(src) = src.h + src.vfront + src.vpulse
    BY RunningMoves
  <2>. QED BY <1>1, <1>2, <2>1, <2>2, SourceSizes
<1>6. /\ VOff # 0 => Rose(2)' = Rose(2) /\ Rose(3)' = Rose(3)
      /\ VOff = 0 => Rose(2)' = Rose(1) /\ Rose(3)' = Rose(2)
      /\ Rose(3) => Rose(2)
  BY <1>0, RisesMove, RisesOrder
<1>7. Rose(2)
  BY <1>4, <1>5, <1>6, <1>1 DEF PictureSeen
<1>8. /\ Counting /\ Right /\ De = DeIn /\ Vsync = ~VPulse
      /\ (VPulse => vy >= src.h + src.vfront)
  BY <1>0, <1>7, Polarities DEF WithSignal
<1>9. VPulse => ~De /\ ~lastDe
  <2>1. SUFFICES ASSUME VPulse PROVE ~De /\ ~lastDe
    OBVIOUS
  <2>2. ~(vy < src.h)
    BY <1>1, <1>8, <2>1, SourceSizes
  <2>. QED BY <1>8, <2>2 DEF DeIn, Counting
<1>10. /\ lastVsync' = Vsync
       /\ screenY' = IF ~De /\ ~lastDe /\ ~Vsync /\ lastVsync THEN nowY ELSE screenY
  BY RunningMoves DEF Count, CountLines
<1>11. VPulse' /\ ~PulseStart' => ~lastVsync'
  BY <1>3, <1>8, <1>10
<1>12. PulseStart => VPulse /\ lastVsync /\ nowY = src.h
  <2>1. SUFFICES ASSUME PulseStart PROVE VPulse /\ lastVsync /\ nowY = src.h
    OBVIOUS
  <2>2. VPulse /\ vy >= src.h
    BY <1>2, <2>1, SourceSizes DEF PulseStart
  <2>. QED BY <1>8, <2>1, <2>2 DEF Counting
<1>13. screenY' = src.h
  <2>1. CASE PulseStart
    BY <1>8, <1>9, <1>10, <1>12, <2>1
  <2>2. CASE ~PulseStart /\ PictureSeen
    BY <1>0, <1>8, <1>10, <2>2 DEF WithSignal
  <2>3. CASE ~PulseStart /\ ~PictureSeen
    <3>1. ~Rose(3) /\ ~(~src.vpos /\ AfterPulse)
      BY <1>7, <2>3 DEF PictureSeen
    <3>2. ~(~src.vpos /\ VPulse)
      BY <2>3, <3>1 DEF AfterPulse
    <3>3. Rose(3)' /\ VOff = 0
      BY <1>1, <1>4, <1>6, <3>1, <3>2 DEF PictureSeen
    <3>4. vy = VRise(src) /\ vx = 0
      BY <1>0, <3>3, OffsetsTyped
    <3>5. PulseStart \/ (~src.vpos /\ PulseEnd)
      BY <3>4, RunningMoves, SourceSizes DEF PulseStart, PulseEnd
    <3>. QED BY <2>3, <3>1, <3>5 DEF AfterPulse
  <2>. QED BY <2>1, <2>2, <2>3
<1>. QED BY <1>11, <1>13

-----------------------------------------------------------------------------
(* The theorems. *)

LEMMA SignalStep ==
  ASSUME Running
  PROVE  WithSignal'
<1>0. TypeOK /\ src.scdt /\ WithSignal /\ Clock /\ Continue
  BY DEF Running
<1>1. src' = src /\ Count
  BY RunningMoves
<1>2. /\ DetectorOK(hdet, age, HOff, HHigh(src), LineLen(src))'
      /\ DetectorOK(vdet, age, VOff, VHigh(src) * LineLen(src), Clocks(src))'
  BY <1>0, <1>1, DetectorsStep DEF Clock
<1>3. lastDe' => (vy < src.h /\ vx \in 1 .. src.w)'
  <2>1. SUFFICES ASSUME lastDe' PROVE vy' < src.h /\ vx' \in 1 .. src.w
    BY <1>1
  <2>2. vx < src.w /\ vy < src.h
    BY <1>1, <2>1 DEF Count, De, DeIn
  <2>. QED BY <2>2, RunningMoves, SourceSizes
<1>4. WrongIdles' /\ PulseClears'
  BY WrongIdlesStep, PulseClearsStep
<1>5. Rose(2)' => Counting'
  <2>1. CASE VOff = 0
    BY <1>0, <2>1, CountingStarts, RisesMove
  <2>2. CASE VOff # 0
    BY <1>0, <2>2, CountingStep, RisesMove
  <2>. QED BY <2>1, <2>2
<1>6. /\ LineSeen' => screenX' = src'.w
      /\ PictureSeen' => /\ screenY' = src'.h
                         /\ VPulse' /\ ~PulseStart' => ~lastVsync'
  BY <1>1, LineSeenStep, PictureSeenStep
<1>. QED BY <1>2, <1>3, <1>4, <1>5, <1>6 DEF WithSignal

\* A change of the video asks nothing of the counters.
LEMMA Fresh ==
  ASSUME TypeOK, age = 0
  PROVE  VideoInvariant
<1>1. ASSUME src.scdt PROVE WithSignal
  <2>1. /\ Clocks(src) \in Nat /\ LineLen(src) \in Nat
        /\ HOff \in 0 .. LineLen(src) - 1 /\ VOff \in 0 .. Clocks(src) - 1
    BY <1>1, SourceTyped, OffsetsTyped DEF TypeOK
  <2>2. Since(HOff, LineLen(src)) \in Nat /\ Since(VOff, Clocks(src)) \in Nat
    BY <2>1 DEF Since
  <2>3. /\ DetectorOK(hdet, age, HOff, HHigh(src), LineLen(src))
        /\ DetectorOK(vdet, age, VOff, VHigh(src) * LineLen(src), Clocks(src))
    BY <2>1, <2>2 DEF DetectorOK
  <2>4. ~Rose(1) /\ ~Rose(2) /\ ~Rose(3)
    BY <2>1, <2>2 DEF Rose
  <2>. QED BY <2>3, <2>4 DEF WithSignal, WrongIdles, PulseClears, LineSeen, PictureSeen
<1>. QED BY <1>1 DEF VideoInvariant

LEMMA VideoInit == Init => VideoInvariant
BY TypeInit, Fresh DEF Init

LEMMA VideoStep ==
  ASSUME VideoInvariant, [Clock]_vars
  PROVE  VideoInvariant'
<1>1. CASE Clock
  <2>1. TypeOK /\ TypeOK'
    BY <1>1, TypeStep DEF VideoInvariant
  <2>2. CASE Continue /\ src.scdt
    <3>1. Running
      BY <1>1, <2>1, <2>2 DEF Running, VideoInvariant
    <3>. QED BY <2>1, <3>1, RunningMoves, SignalStep DEF VideoInvariant
  <2>3. CASE Continue /\ ~src.scdt
    BY <1>1, <2>1, <2>3 DEF VideoInvariant, Continue, Clock, Count, NoSignal
  <2>4. CASE Change
    <3>1. (TypeOK /\ age = 0 => VideoInvariant)'
      BY Fresh, PTL
    <3>. QED BY <2>1, <2>4, <3>1 DEF Change
  <2>. QED BY <1>1, <2>2, <2>3, <2>4 DEF Clock
<1>2. CASE UNCHANGED vars
  BY <1>2 DEF vars, VideoInvariant, TypeOK, WithSignal, HOff, VOff, VLines, WrongIdles,
              PulseClears, Counting, LinesBefore, LineSeen, PictureSeen, Rose, Right,
              NoLines, PulseStart, PulseEnd, AfterPulse, VPulse
<1>. QED BY <1>1, <1>2

LEMMA SettledThen == VideoInvariant => SettledInTime
<1> SUFFICES ASSUME VideoInvariant, age = Settled(src) PROVE <<screenX, screenY>> =
               IF src.scdt THEN <<src.w, src.h>> ELSE <<0, 0>>
  BY DEF SettledInTime
<1>1. TypeOK /\ Clocks(src) \in Nat /\ Clocks(src) >= 16 /\ age = 3 * Clocks(src) + 1
  BY SourceTyped DEF VideoInvariant, TypeOK, Settled
<1>2. CASE src.scdt
  <2>1. VOff \in 0 .. Clocks(src) - 1
    BY <1>1, <1>2, OffsetsTyped
  <2>2. Rose(3)
    BY <1>1, <2>1 DEF Rose, Since
  <2>. QED BY <1>2, <2>2 DEF VideoInvariant, WithSignal, LineSeen, PictureSeen
<1>3. CASE ~src.scdt
  BY <1>1, <1>3 DEF VideoInvariant
<1>. QED BY <1>2, <1>3

LEMMA PositionThen == VideoInvariant => PositionTrue
<1> SUFFICES ASSUME VideoInvariant, age >= 2 * Clocks(src), DeIn
             PROVE  nowX = vx /\ nowY = vy /\ nowPxl = vy * src.w + vx
  BY DEF PositionTrue
<1>1. /\ TypeOK /\ src.scdt /\ vx < src.w /\ vy < src.h
      /\ vx \in Nat /\ vy \in Nat /\ src.w \in Nat /\ src.h \in Nat
      /\ Clocks(src) \in Nat /\ Clocks(src) >= 16
      /\ VRise(src) >= src.h /\ age \in Nat
  BY SourceTyped DEF VideoInvariant, TypeOK, DeIn, VRise, Settled
<1>2. VOff \in 1 .. Clocks(src) - 1
  <2>1. VOff \in 0 .. Clocks(src) - 1 /\ (VOff = 0 => vy = VRise(src))
    BY <1>1, OffsetsTyped
  <2>. QED BY <1>1, <2>1
<1>3. Rose(2)
  BY <1>1, <1>2 DEF Rose, Since
<1>4. Counting
  BY <1>1, <1>3 DEF VideoInvariant, WithSignal
<1>. QED BY <1>1, <1>4 DEF Counting, LinesBefore

\* Whatever video the inputs have, a change of it is measured: three pictures later the
\* register holds its size.
THEOREM SettledAlways == Spec => []SettledInTime
<1>1. Init => VideoInvariant
  BY VideoInit
<1>2. VideoInvariant /\ [Clock]_vars => VideoInvariant'
  BY VideoStep
<1>3. VideoInvariant => SettledInTime
  BY SettledThen
<1>. QED BY <1>1, <1>2, <1>3, PTL DEF Spec

\* And two pictures later the overlay is told the pixel that is at the inputs.
THEOREM PositionAlways == Spec => []PositionTrue
<1>1. Init => VideoInvariant
  BY VideoInit
<1>2. VideoInvariant /\ [Clock]_vars => VideoInvariant'
  BY VideoStep
<1>3. VideoInvariant => PositionTrue
  BY PositionThen
<1>. QED BY <1>1, <1>2, <1>3, PTL DEF Spec

=============================================================================
