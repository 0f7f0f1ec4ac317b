-------------------------- MODULE DanmakuProperties --------------------------
(***************************************************************************)
(* What viewers and senders of texts can rely on.                          *)
(***************************************************************************)
EXTENDS Danmaku

Sliding == {p \in Places : sliding_layers[p].enable}
Shown == {i \in Statics : static_layers[i].enable}

TypeOK ==
  /\ sliding_queen \in Queens /\ static_queen \in Queens
  /\ sliding_layers \in [Places ->
       [enable : BOOLEAN, id : 0 .. MaxTexts, x : Int, width : 0 .. MAX_WIDTH, ppc : Nat,
        age : Nat]]
  /\ static_layers \in [Statics ->
       [enable : BOOLEAN, id : 0 .. MaxTexts, counter : 0 .. DURATION-1,
        valid_len : 0 .. MAX_WIDTH]]
  /\ screen_width \in ScreenWidths
  /\ button_ip_click \in BOOLEAN /\ firsttime \in BOOLEAN /\ overrun \in BOOLEAN
  /\ phase \in {"fgets", "button"} /\ lines \in 0 .. ClickLines
  /\ read \in 0 .. MaxTexts
  /\ sliding_latest \in Texts /\ static_latest \in Texts

-----------------------------------------------------------------------------
(* Safety. *)

\* A text that is on a layer is on no other layer and no longer in a queue:
\* RenderOnce fetches before it knows whether it will pop.
WaitingIds(q) == {Waiting(q)[i].id : i \in 1 .. Backlog(q)}
OnceOnly ==
  /\ \A p, o \in Sliding : sliding_layers[p].id = sliding_layers[o].id => p = o
  /\ \A i, j \in Shown : static_layers[i].id = static_layers[j].id => i = j
  /\ \A p \in Sliding : sliding_layers[p].id \notin WaitingIds(sliding_queen)
  /\ \A i \in Shown : static_layers[i].id \notin WaitingIds(static_queen)

\* Two texts in a row do not overlap unless the later one is the faster: the only
\* check is the one InsertSliding makes when a text enters.
Apart ==
  \A p, o \in Sliding :
    LET a == sliding_layers[p]  b == sliding_layers[o]
    IN  p[1] = o[1] /\ a.id < b.id /\ b.ppc <= a.ppc => a.x + a.width <= b.x

\* The speed SlidingSetDanmu computes takes every text off the screen within
\* CYCLE_PER_DANMU frames, whatever its width and whatever the screen becomes.
GoneInTime == \A p \in Sliding : sliding_layers[p].age < CYCLE_PER_DANMU

\* What a layer draws of its text are the columns the screen has room for, each in
\* its place (pairs of a screen column and a column of the text); no end of line is
\* overwritten and nothing beside the text is read.
Drawn(strips) ==
  UNION {{<<c, s.src + c - s.from>> : c \in s.from .. s.to} : s \in strips}
Visible(x, width) ==
  {<<c, c - x>> : c \in {d \in 0 .. screen_width-1 : d - x \in 0 .. width-1}}
StripsFit ==
  /\ \A p \in Sliding :
       LET s == sliding_layers[p] IN Drawn(SlidingStrip(s)) = Visible(s.x, s.width)
  /\ \A i \in Shown :
       LET s == static_layers[i]
           x == IF s.valid_len < screen_width THEN (screen_width - s.valid_len) \div 2 ELSE 0
       IN  Drawn(StaticStrip(s)) = Visible(x, s.valid_len)

\* Push, which does not look at head again after ClearQueen, leaves its array only
\* when QUEEN_SIZE texts really are waiting.
OverrunOnlyFull ==
  [][overrun' => \/ Backlog(sliding_queen) = QUEEN_SIZE
                 \/ Backlog(static_queen) = QUEEN_SIZE]_vars

\* What a frame may make of a static layer: s before it, t after it.
StaysOrYields(s, t) ==
  /\ s.enable /\ t.enable /\ t.id = s.id => t.counter \in {s.counter, s.counter + 1}
  /\ t.enable /\ (s.enable => t.id # s.id) => t.counter = 1
  /\ s.enable /\ (t.enable => t.id # s.id) =>
       \/ s.counter + 1 = DURATION
       \/ Shown = Statics /\ t.enable /\ t.id = static_latest'.id

\* A static text has its layer for DURATION frames, from the one it enters in; it is
\* cut short only by a later text that found every layer in use, as the texts of a
\* click, which enter one a frame, may.
StaticStays ==
  [][\A i \in Statics : StaysOrYields(static_layers[i], static_layers'[i])]_vars

\* Each queue with its layers is a FIFO of texts.
SlidingQueue ==
  INSTANCE TextFifo WITH waiting <- Waiting(sliding_queen), latest <- sliding_latest,
                         None <- NoText
StaticQueue ==
  INSTANCE TextFifo WITH waiting <- Waiting(static_queen), latest <- static_latest,
                         None <- NoText
SlidingIsFifo == SlidingQueue!FifoSpec
StaticIsFifo == StaticQueue!FifoSpec

-----------------------------------------------------------------------------
(* Liveness. *)

\* Every sliding text comes to the screen, unless a queue overruns first.
SlidingEnters ==
  \A n \in 1 .. MaxTexts :
    n \in WaitingIds(sliding_queen) ~> sliding_latest.id = n \/ overrun
=============================================================================
