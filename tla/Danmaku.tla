------------------------------ MODULE Danmaku ------------------------------
(***************************************************************************)
(* What danmaku.c shows: RenderOnce reads a line from standard input,      *)
(* queues its text, puts texts on layers, advances the layers by a frame   *)
(* and draws them.  All of it runs on the main thread, so a frame is one   *)
(* step; the button thread and a change of resolution come between frames. *)
(* The DMA transfers that carry a frame out are in module Pipeline.        *)
(***************************************************************************)
EXTENDS Queen, FiniteSetsExt

CONSTANTS
  SLIDING_LAYER_ROWS, SLIDING_LAYER_COLS, NUM_STATIC_LAYER,
  CYCLE_PER_DANMU, DURATION, MAX_WIDTH,
  ScreenWidths,  \* widths of the screens that get connected
  TextWidths,    \* widths texts can have once rendered
  ClickLines,    \* most lines that the three commands of a button click yield
  MaxTexts       \* bound on the texts of a behaviour

ASSUME DanmakuAssumption ==
  /\ SLIDING_LAYER_ROWS \in Nat \ {0} /\ SLIDING_LAYER_COLS \in Nat \ {0}
  /\ NUM_STATIC_LAYER \in Nat \ {0}
  /\ CYCLE_PER_DANMU \in Nat \ {0} /\ DURATION \in Nat \ {0} /\ MAX_WIDTH \in Nat
  /\ ScreenWidths \subseteq Nat \ {0} /\ TextWidths \subseteq Nat
  /\ ClickLines \in Nat /\ MaxTexts \in Nat
\* A text is its number and its width.
ASSUME TextsAssumption == Texts = [id : 0 .. MaxTexts, width : TextWidths \cup {0}]

VARIABLES
  sliding_queen, static_queen,
  sliding_layers,   \* by place <<row, column>>
  static_layers,
  screen_width,
  button_ip_click, firsttime,
  phase,            \* where RenderOnce is: "fgets", or "button" in BtnEventHandle
  lines,            \* lines the commands of this click have yielded
  overrun,          \* a Push has written outside its queue
  read,             \* history: texts read so far, which numbers them
  sliding_latest, static_latest  \* history: the text put on a layer last

layerVars == <<sliding_layers, static_layers, sliding_latest, static_latest>>
vars == <<sliding_queen, static_queen, layerVars, screen_width, button_ip_click,
          firsttime, phase, lines, overrun, read>>

Places == (0 .. SLIDING_LAYER_ROWS-1) \X (0 .. SLIDING_LAYER_COLS-1)
Statics == 0 .. NUM_STATIC_LAYER-1

\* Nothing reads the other fields of a layer that is not enabled.  age counts the
\* frames since the text entered; it is history.
SlidingOff == [enable |-> FALSE, id |-> 0, x |-> 0, width |-> 0, ppc |-> 0, age |-> 0]
StaticOff == [enable |-> FALSE, id |-> 0, counter |-> 0, valid_len |-> 0]

NoText == [id |-> 0, width |-> 0]

\* WriteFontMap: the width of the rendered text.
OutWidth(text) == IF text.width < MAX_WIDTH THEN text.width ELSE MAX_WIDTH

-----------------------------------------------------------------------------
(* The sliding layers. *)

\* Mutant of PixelsPerCycle: the division is not rounded up.
MutPixelsPerCycle(width) == (width + screen_width) \div CYCLE_PER_DANMU

PixelsPerCycle(width) == 1 + ((width + screen_width) \div CYCLE_PER_DANMU)

SlidingSetDanmu(text) ==
  [enable |-> TRUE, id |-> text.id, x |-> screen_width, width |-> OutWidth(text),
   ppc |-> PixelsPerCycle(OutWidth(text)), age |-> 0]

\* Mutant of SlidingNextCycle: the layer is never given back.
MutSlidingNextCycle(s) ==
  IF ~s.enable THEN s ELSE [s EXCEPT !.x = IF @ < -s.width THEN @ ELSE @ - s.ppc]

SlidingNextCycle(s) ==
  LET moved == [s EXCEPT !.x = @ - s.ppc, !.age = @ + 1]
  IN  IF ~s.enable \/ moved.x < -s.width THEN SlidingOff ELSE moved

\* Mutant of Conflict: the end of the other text is taken one pixel too early.
MutConflict(place, other) ==
  /\ other[1] = place[1] /\ other # place
  /\ sliding_layers[other].enable
  /\ sliding_layers[other].x + sliding_layers[other].width > screen_width + 1

\* InsertSliding's conflict: a text of the same row has not entered completely.
Conflict(place, other) ==
  /\ other[1] = place[1] /\ other # place
  /\ sliding_layers[other].enable
  /\ sliding_layers[other].x + sliding_layers[other].width > screen_width

FreePlaces ==
  {p \in Places : ~sliding_layers[p].enable /\ \A o \in Places : ~Conflict(p, o)}

\* InsertSliding goes through the rows and, within a row, the columns.
FirstFree ==
  CHOOSE p \in FreePlaces :
    \A o \in FreePlaces : p[1] < o[1] \/ (p[1] = o[1] /\ p[2] <= o[2])

\* The sliding part of a frame, for the queue q that input has left: the oldest
\* text is inserted and popped if there is a place, then every layer moves.
RenderSliding(q) ==
  IF CanFetch(q) /\ FreePlaces # {}
  THEN /\ sliding_layers' =
            [p \in Places |-> SlidingNextCycle(IF p = FirstFree THEN SlidingSetDanmu(Fetch(q))
                                               ELSE sliding_layers[p])]
       /\ sliding_queen' = Pop(q)
       /\ sliding_latest' = Fetch(q)
  ELSE /\ sliding_layers' = [p \in Places |-> SlidingNextCycle(sliding_layers[p])]
       /\ sliding_queen' = q
       /\ UNCHANGED sliding_latest

\* Mutant of SlidingStrip: a text cut on the left is drawn from its first column on.
MutSlidingStrip(s) ==
  LET from == IF s.x < 0 THEN 0 ELSE s.x
      end  == s.x + s.width - 1
      to   == IF end >= screen_width THEN screen_width-1 ELSE end
  IN  IF ~s.enable \/ s.x >= screen_width \/ end < 0 \/ end < s.x
      THEN {} ELSE {[from |-> from, to |-> to, src |-> 0]}

\* SlidingWritePixels: the columns [from, to] of the screen that the layer writes in
\* each of its lines, read from column src of its map on.
SlidingStrip(s) ==
  LET from == IF s.x < 0 THEN 0 ELSE s.x
      end  == s.x + s.width - 1
      to   == IF end >= screen_width THEN screen_width-1 ELSE end
  IN  IF ~s.enable \/ s.x >= screen_width \/ end < 0 \/ end < s.x
      THEN {}
      ELSE {[from |-> from, to |-> to, src |-> IF s.x < 0 THEN -s.x ELSE 0]}

-----------------------------------------------------------------------------
(* The static layers. *)

ForceStaticSetDanmu(text) ==
  [enable |-> TRUE, id |-> text.id, counter |-> 0, valid_len |-> OutWidth(text)]

\* Mutant of StaticNextCycle: one frame more.
MutStaticNextCycle(s) ==
  IF ~s.enable \/ s.counter + 1 > DURATION THEN StaticOff
  ELSE [s EXCEPT !.counter = @ + 1]

StaticNextCycle(s) ==
  IF ~s.enable \/ s.counter + 1 >= DURATION THEN StaticOff
  ELSE [s EXCEPT !.counter = @ + 1]

\* Mutant of StaticChoices: the text goes to a random layer though others are not in use.
MutStaticChoices == Statics

\* InsertStatic takes the first layer not in use, and a random one if all are.
StaticChoices ==
  LET off == {i \in Statics : ~static_layers[i].enable}
  IN  IF off = {} THEN Statics ELSE {Min(off)}

\* The static part of a frame, for the queue q that input has left.
RenderStatic(q) ==
  IF CanFetch(q)
  THEN /\ \E c \in StaticChoices :
            static_layers' =
              [i \in Statics |-> StaticNextCycle(IF i = c THEN ForceStaticSetDanmu(Fetch(q))
                                                 ELSE static_layers[i])]
       /\ static_queen' = Pop(q)
       /\ static_latest' = Fetch(q)
  ELSE /\ static_layers' = [i \in Statics |-> StaticNextCycle(static_layers[i])]
       /\ static_queen' = q
       /\ UNCHANGED static_latest

\* StaticWritePixels: the text is centred, and cut when the screen is narrower.
StaticStrip(s) ==
  LET from == IF screen_width > s.valid_len THEN (screen_width - s.valid_len) \div 2 ELSE 0
      end  == from + s.valid_len - 1
      to   == IF end >= screen_width THEN screen_width-1 ELSE end
  IN  IF ~s.enable \/ end < from THEN {} ELSE {[from |-> from, to |-> to, src |-> 0]}

-----------------------------------------------------------------------------
(* RenderOnce, by what fgets returns. *)

\* What follows the input: the rest of the frame, for the queues it has left.
Frame(sliding, static) ==
  /\ RenderSliding(sliding) /\ RenderStatic(static)
  /\ phase' = "fgets" /\ lines' = 0
  /\ UNCHANGED <<screen_width, firsttime, overrun>>

\* Push writes past the array, over head and tail; nothing is said of what follows.
Overruns ==
  /\ overrun' = TRUE
  /\ UNCHANGED <<sliding_queen, static_queen, layerVars, screen_width, firsttime, phase,
                 lines, read>>

NewTexts == [id : {read + 1}, width : TextWidths]

Fgets == ~overrun /\ phase = "fgets"

\* A line of type '0'.
SlidingLine ==
  /\ Fgets /\ read < MaxTexts
  /\ IF PushFits(sliding_queen)
     THEN /\ \E text \in NewTexts : Frame(Push(sliding_queen, text), static_queen)
          /\ read' = read + 1
     ELSE Overruns
  /\ UNCHANGED button_ip_click

\* A line of type '1'.
StaticLine ==
  /\ Fgets /\ read < MaxTexts
  /\ IF PushFits(static_queen)
     THEN /\ \E text \in NewTexts : Frame(sliding_queen, Push(static_queen, text))
          /\ read' = read + 1
     ELSE Overruns
  /\ UNCHANGED button_ip_click

\* A line of another type, such as the rest of a line longer than input_buf.
UnknownLine ==
  Fgets /\ Frame(sliding_queen, static_queen) /\ UNCHANGED <<read, button_ip_click>>

\* No line, and no click for BtnEventHandle.
NoLine ==
  /\ Fgets /\ ~button_ip_click
  /\ Frame(sliding_queen, static_queen) /\ UNCHANGED <<read, button_ip_click>>

\* No line: BtnEventHandle takes the click...
ButtonClick ==
  /\ Fgets /\ button_ip_click
  /\ button_ip_click' = FALSE /\ phase' = "button"
  /\ UNCHANGED <<sliding_queen, static_queen, layerVars, screen_width, firsttime, lines,
                 overrun, read>>

\* ...queues the lines its commands print about the network...
ButtonLine ==
  /\ ~overrun /\ phase = "button" /\ lines < ClickLines /\ read < MaxTexts
  /\ IF PushFits(static_queen)
     THEN /\ \E text \in NewTexts : static_queen' = Push(static_queen, text)
          /\ read' = read + 1 /\ lines' = lines + 1
          /\ UNCHANGED <<sliding_queen, layerVars, screen_width, firsttime, phase, overrun>>
     ELSE Overruns
  /\ UNCHANGED button_ip_click

\* ...and returns; they may have printed nothing of use.
ButtonDone ==
  /\ ~overrun /\ phase = "button"
  /\ Frame(sliding_queen, static_queen) /\ UNCHANGED <<read, button_ip_click>>

RenderOnce ==
  SlidingLine \/ StaticLine \/ UnknownLine \/ NoLine
    \/ ButtonClick \/ ButtonLine \/ ButtonDone

-----------------------------------------------------------------------------
(* What else happens. *)

\* SubMain of the next session finds another resolution; queues and layers stay.
ResolutionChanges ==
  /\ Fgets
  /\ \E w \in ScreenWidths \ {screen_width} : screen_width' = w
  /\ UNCHANGED <<sliding_queen, static_queen, layerVars, button_ip_click, firsttime, phase,
                 lines, overrun, read>>

\* Thread4Button: the first event only says that the pin is watched.
ButtonEvent ==
  /\ ~overrun
  /\ button_ip_click' = (button_ip_click \/ ~firsttime) /\ firsttime' = FALSE
  /\ UNCHANGED <<sliding_queen, static_queen, layerVars, screen_width, phase, lines,
                 overrun, read>>

Init ==
  /\ sliding_queen = InitQueen([i \in Cells |-> NoText])
  /\ static_queen = InitQueen([i \in Cells |-> NoText])
  /\ sliding_layers = [p \in Places |-> SlidingOff]
  /\ static_layers = [i \in Statics |-> StaticOff]
  /\ screen_width \in ScreenWidths
  /\ button_ip_click = FALSE /\ firsttime = TRUE
  /\ phase = "fgets" /\ lines = 0 /\ overrun = FALSE
  /\ read = 0 /\ sliding_latest = NoText /\ static_latest = NoText

Next == RenderOnce \/ ResolutionChanges \/ ButtonEvent

Spec == Init /\ [][Next]_vars

\* Frames follow one another as long as rendering runs; nothing is assumed of what
\* standard input brings.
FairSpec == Spec /\ WF_vars(RenderOnce)
=============================================================================
