# A verification of DE1SoC-Danmaku

DE1SoC-Danmaku writes comments ("danmaku") over an HDMI picture. A DE1-SoC board sits
between a video source and a screen. On its ARM cores Linux runs the host program
(`src/Host-Program/danmaku`), which draws texts into frame buffers, and a script that
fetches the texts from a web server; in its FPGA two DMA engines copy pixels, one into a
frame buffer (render DMA) and one out of it (overlay DMA), and logic measures the video and
merges the overlay with it. This directory holds TLA+ models of these parts, from the web
server's answer to the pixel clock, the configurations TLC checks them with and proofs for
TLAPS.

1. [The system](#1-the-system)
2. [The modules](#2-the-modules)
3. [The frame pipeline](#3-the-frame-pipeline)
4. [Queues and layers](#4-queues-and-layers)
5. [Pictures](#5-pictures)
6. [Memory](#6-memory)
7. [Video in and overlay](#7-video-in-and-overlay)
8. [The fetcher](#8-the-fetcher)
9. [The runs](#9-the-runs)
10. [What is proved](#10-what-is-proved)
11. [What the code does that its text does not say](#11-what-the-code-does-that-its-text-does-not-say)
12. [What is not modelled, and the plan](#12-what-is-not-modelled-and-the-plan)

## 1. The system

| Component | State | Operations | Hard because |
|---|---|---|---|
| frame ring (`ring.c`) | `rdptr`, `wrptr` under `ring_mutex` | `RingSize`, `GetFilledBuffer`, `GetEmptyBuffer`, `ReleaseBuffer`, `CommitBuffer` | two threads check and act in separate calls |
| sessions and rendering (`danmaku.c`: `main`, `SubMain`, `Render`) | `render_running`, screen size, blank screens | one session per resolution: set up, draw, commit, look at the resolution, stop, join | the session may stop in the middle of a frame |
| overlay thread (`danmaku.c`: `Thread4Overlay`) | `idx` | hand the oldest filled buffer to the overlay DMA, wait for it to be taken, release | a buffer is released while the DMA still reads it |
| SIGINT, systemd | `render_running`, `sigint` | two plain stores; restart always | arrives anywhere; the hardware outlives the process |
| driver (`danmaku_driver.c`) | DMA registers, bump allocator | start a descriptor, idle, pending, allocate, frame size | full FIFOs, asserts, memory never freed nor initialised |
| text queues (`danmaku.c`: `queen_t`) | flat array, `head`, `tail` | `Push`, `Fetch`, `Pop`, `ClearQueen` | compaction at the end of the array, overrun when full |
| layers (`danmaku.c`: `RenderOnce`) | 25 sliding, 5 static layers | insert a text, advance a frame, draw | who enters when, who covers whom, cuts at the edges |
| text rendering (`render.c`, `WriteFontMap`) | a pixel map for each layer, reused | render with Pango, outline | neighbour bounds, left-over pixels, sizes of another session |
| button (`gpios.c`) | `firsttime`, `button_ip_click` | poll for an edge | handled only when standard input is idle |
| fetcher (`fetcher.coffee`) | `nowId` | poll a web service, print lines | ordering, restarts of either end of the pipe, end of file |
| pixel filter (FPGA) | none | mask transparent bytes of the render DMA | |
| video input (FPGA: `pxlCount.v`, `syncCorrector.v`) | polarity counters, `nowX`, `nowY`, `nowPxl`, `screenX`, `screenY` | learn polarities, count, measure | the video changes in the middle of a picture |
| resolution register (FPGA) | two synchronisers | hold `screenX`, `screenY` for the program | clock domains |
| overlay logic (FPGA: `danmaku_overlay.v`, `pixel_data_adapter.v`) | `fifoRdreq`, the last pixel read | stop at sync bytes, go on with the video | frames of another size, an empty FIFO |

How they interact: the fetcher writes lines into a named pipe that is the renderer's
standard input. The main thread reads at most one line per frame (`RenderOnce`), queues its
text, moves texts to layers and draws the layers by submitting render DMA descriptors. Whole
frames go through the ring to the overlay thread, which submits overlay DMA descriptors.
The overlay DMA's bytes arrive at the overlay logic, which lays them over the video by the
position the video input counts. The button thread and the SIGINT handler communicate by
`volatile` flags only. The resolution register tells the main thread when to begin a new
session.

What makes them correct:

- ring and threads: no picture torn, half drawn, doubled or out of order; no assert
  fails; no thread waits for ever;
- sessions: the program follows the video source; nothing of an earlier session or of a
  process that crashed damages the pictures of the current one; SIGINT ends it;
- queues: FIFO without loss up to their capacity;
- layers: every text is shown once, in order, apart from others, for a bounded time, within
  its line of the screen;
- pictures: sync bytes stay in their places, texts are seen, nothing is left of those gone;
- memory: maps, blank screens and frame buffers do not overlap, for every size accepted;
- FPGA: size and position are right soon after any change; overlay pixels lie over the
  pixels they belong to, and do so again after any disturbance;
- fetcher: posts arrive, in order, once, and those that do not are accounted for.

The hazards found while reading, each with its line and the properties that cover it, are
in `PROJECT.json`.

## 2. The modules

| Module | Role |
|---|---|
| `Ring` | `ring.c` |
| `Pipeline` | main thread, overlay thread, handler, DMA engines, video source, crash and restart; EXTENDS `Ring` |
| `FrameFifo` | abstract specification: a bounded FIFO of numbered pictures |
| `PipelineProperties` | properties of the pipeline, and its refinement of `FrameFifo` |
| `PipelineInv` | the inductive invariant |
| `Queen` | `queen_t`, its operations as operators on records |
| `TextFifo` | abstract specification: an unbounded FIFO of texts |
| `Danmaku`, `DanmakuProperties` | `RenderOnce`: input, queues, layers, clicks; EXTENDS `Queen`; two refinements of `TextFifo` |
| `Geometry` | what `SubMain` derives from the resolution |
| `Picture`, `PictureProperties` | `Danmaku` with the pixel maps of its layers and the bytes of its frames; EXTENDS `Danmaku`, `Geometry` |
| `Memory`, `MemoryProperties` | the two `udmabuf` areas: frame buffers, allocator, asserts; EXTENDS `Geometry` |
| `VideoIn`, `VideoInProperties` | polarity detection and counting in the FPGA |
| `Overlay`, `OverlayProperties` | the overlay logic in the FPGA; its inductive invariant |
| `Fetcher`, `FetcherProperties` | web server, fetcher, pipe, `fgets`, systemd |
| `MC...` | the roots of the runs: model values that a cfg cannot write |
| `PipelineProofs`, `DanmakuProofs`, `TextsProofs`, `PictureProofs`, `MemoryProofs`, `VideoInProofs`, `OverlayProofs`, `FetcherProofs` | theorems about them; the modules begin with what they need of the data: the arithmetic of the ring, of a sync's period and of addresses, `queen_t` as a sequence |

Where they meet:

- For `Pipeline`, the frame that `RenderOnce` draws is some number of descriptors (`mtodo`);
  for `Danmaku`, the frame is one step of the main thread, since queues and layers belong to
  that thread alone. When a SIGINT cuts a frame short, `Pipeline` skips the rest of its
  descriptors while the queues and layers advance as always: what the skipped DMA would have
  drawn is the only difference.
- Every step of `Picture` is a step of `Danmaku`, with the bytes that follow from it.
- `Picture!WellFormed` is the form of frame that `Overlay!Head` takes for granted, and
  `Pipeline!ShownWhole` says that only finished frames are sent.
- `VideoIn!PositionTrue` is what `Overlay!NowX` and `NowPxl` take for granted.
- `VideoIn!screenX` and `screenY` are the register that `Pipeline` calls `res`;
  `SettledInTime` is why `res` may be taken to follow the source.
- `Fetcher!seen` is the sequence of lines that `Danmaku` reads one by one.

Operators whose names begin with `Mut` are deliberate faults. Nothing uses them; each is a
variant of the definition below it, and replacing that definition by it makes the property
it is paired with (in `PROJECT.json`) fail.

## 3. The frame pipeline

### State and steps

`mpc` and `opc` say which statement the main thread and the overlay thread run next.

| `mpc` | code | | `opc` | code |
|---|---|---|---|---|
| `loop` | `while (!sigint)`, danmaku.c:770 | | `none` | no thread |
| `submain` | size checks, blank screen, 675-696 | | `await`, `awaitsig` | start wait, 633-634 |
| `create`, `signal` | 698, 702 | | `first` | first filled buffer, 640 |
| `clear`, `waitidle`, `start` | 586, 588, 590 | | `loop` | `for(;render_running;)`, 643 |
| `ringwait`, `getempty` | 594, 598 | | `txmit` | 644 |
| `render`, `drain`, `commit` | 610, 611, 618 | | `pending` | 646 |
| `check` | 620 | | `size` | 649 |
| `stop`, `join` | 624, 706 | | `release`, `next` | 658, 660 |

A step is one access to memory the threads share, or one call into `ring.c` or the driver.
The calls into `ring.c` run under `ring_mutex`, so they are atomic; between them anything
may happen. A spin loop is a step enabled when the loop would end. A condition such as
`render_running && (idx = GetFilledBuffer()) == -1` reads `render_running` first; the step
takes both together, which is the same as reading both at the later moment, because each of
these loops is followed by another test of `render_running`.

- `left[f]`: render DMA descriptors that write buffer `f` and are not finished. The engine
  finishes them in any order across buffers, which includes its real order. A full
  descriptor FIFO makes `DanmakuHW_RenderStartDMA` return -1 and the caller retry, that is,
  it only delays it.
- `txq`, `txcur`: the overlay DMA's FIFO and the descriptor it is reading. `PendingTxmit`
  is about the FIFO only, as the status bit is. It finishes only while video clocks pixels
  out.
- `handed`: history. What became of the buffer that the session handed to the overlay DMA
  last: `"queued"`, or `"dropped"` when the FIFO was full, since the caller ignores the -1
  of `DanmakuHW_FrameBufferTxmit`; `"none"` before the first.
- `pic[f]`: history. What was last drawn into the buffer: its serial number, whether the
  current session drew it, whether all its descriptors were submitted.
- `res` is the resolution register; `geom` the size the session was set up for.
- `Crash` ends the process anywhere: a SIGINT before `signal()`, an assert, `exit(1)`, the
  OOM killer. `Restart` is systemd's `Restart=always`. Memory starts afresh, `left`, `txq`
  and `txcur` go on.

`SigintTo` chooses the thread the kernel delivers SIGINT to: `"main"` (which is then
suspended between the two stores of the handler), `"any"`, or `"none"`.

Memory is taken as sequentially consistent. The flags are `volatile`, so that the compiler
keeps the accesses; what orderings the Cortex-A9 adds between them is not modelled.

### Bounds

`N = 4` buffers in place of 7: the smallest ring in which the overlay thread ever releases
one (it keeps two filled, the renderer one empty). `NAssumption` (N >= 4) is that
condition; the proofs cover 7. `MaxDma = 2` descriptors a frame: one submitted, one to go.
`TxDepth = 1` descriptor in the FIFO of the overlay DMA: the second session of a process,
and one after a restart, can meet a full FIFO with it (the FPGA design's is larger; the
proofs cover any). `SerialCount = 8 = 2N`: the ring holds at most N consecutive pictures, so that
equal numbers mean equal pictures. `PoolScreens` 2: two sessions in one process, then the
exit that a used-up udmabuf1 causes (about 17 sessions of 1080p on the board). One restart.

### Fairness

Weak fairness of each thread (the scheduler runs both, each on a core of its own and each
yielding), of the second store of a handler that has run, and of the DMA engines; the
video source, SIGINTs, crashes and restarts owe nothing. SIGINTs are finitely many.
The overlay DMA's `TxDone` is enabled only with video, so that the fairness demands nothing
of it without.

`CHECK_DEADLOCK FALSE`: the process ends by design (`exited`, or `dead` once the bound on
restarts is reached).

## 4. Queues and layers

### State and steps

`Queen` models `queen_t` as a record of the array, `head` and `tail`. `Push` compacts first
when the tail is at the end and does not look again (danmaku.c:460-463); `PushFits` says
whether its copy stays inside the array. The copies of `ClearQueen` are one step: each
is to a place no higher than the one it is from, and the lowest come first, so that none is overwritten before it
is read.

`RenderOnce` is one step per frame, by what `fgets` returned: `SlidingLine`, `StaticLine`,
`UnknownLine`, `NoLine`. Each ends in `Frame`, which fills and advances the layers in the
code's order. A click makes three kinds of step of the one call of `BtnEventHandle`:
`ButtonClick` (the flag is cleared first), a `ButtonLine` for each line its commands print
and `ButtonDone`, which goes on with the frame. The button thread can set the flag in
between, which is why they are separate.

A text is a number and a width. The numbers are given in the order of arrival; the width
is what Pango makes of the text and is any of `TextWidths`. A line read in pieces (it is
longer than `MAX_TEXT_LEN`, or the pipe had only a part of it) is a sequence of lines of any
kind. Fields that nothing reads while a layer is off are reset to 0. `overrun` marks a
`Push` outside its array; what follows has no defined meaning in C, and the model stops.
`ResolutionChanges` stands for everything between two sessions: queues and layers survive.

### Bounds

A queue of 2 texts (4096), one row of two sliding layers (5 by 5), two static layers
(5), a sliding text crosses in 4 frames (384), a static one stays 3 (300), screens of 4 and
6 pixels, texts of 2 and 6 cut to 5. With these a queue fills, compacts and overruns, a row
blocks a text and lets it in beside another, a wide text follows a narrow one, static layers
are all in use, and the resolution changes under each of them. Rows do not interact, so one is
enough. At most 4 texts; a click prints at most two lines.

### Fairness

Frames follow one another (weak fairness of `RenderOnce`). Nothing is assumed of the
input: a sender with a line for every frame starves the button for ever, as
`BtnEventHandle` runs only when `fgets` returns nothing. So nothing is claimed of when a
click is answered, only of the lines it prints, which are texts like others.

### How long a text stays

`GoneInTime` bounds the time of a sliding text. `StaticStays` is about the static ones: a
text has its layer for `DURATION` frames and no longer, and loses it earlier only to a later
text that found every layer in use. `InsertStatic` then takes the layer that `rand()`
names, even one whose text has only just come.

`CHECK_DEADLOCK FALSE`: the model stops at an overrun and at the bound on texts.

## 5. Pictures

`Picture` adds to every frame of `Danmaku` what it leaves in memory. A map is written by
`WriteFontMap` when a text enters its layer, and only then; `Draw` clears the screen and
copies the strips of the maps in the code's order, each through the pixel filter, which
leaves the bytes under transparent ones as they are. `Paint` says this address by address:
`Transferred` is the byte of its map that the transfers of a layer bring to an address, if
any, `Filtered` what the filter lets through of it, and the last layer that has a byte for
an address is the one whose byte stays there. A byte is a code (transparent, clear,
HSYNC, VSYNC, ink or outline of a text, junk), since nothing in the code or the FPGA tells
more apart. What Pango draws of a text is a constant set of ink pixels.

`fb` begins as memory that was never written (junk) and keeps its bytes from one session to the
next, of which nothing is said until a frame of the session is in it (`drawn`): the loop at
the beginning of `Render` that calls `ClearScreen` copies nothing, `render_running` being
0. Only the `ClearScreen` of `RenderOnce` writes the blank screen over what a buffer held.

Three properties, with the cases in which the code gives less:

- `WellFormed`: in a frame that has been drawn the sync bytes are where the overlay logic
  expects them, and no others are left of what the buffer held; and no step changes a byte
  behind the frame it draws, where the next buffer begins. A layer's rows are
  `edge = width / 20` high and there are five, so that on a screen wider than four times its height the
  last rows lie past the frame: for these the second part is not claimed (`RowsFit`).
- `NothingLeftOver`: nothing is seen of texts that are gone, be it from a map that was used
  again or from the frame drawn in the buffer before. A text kept over a change of
  the resolution is drawn with the new `edge` from a map written with the old one, and a
  text that Pango makes wider than its characters' columns is drawn from columns that
  `WriteFontMap` has not cleared (`Fresh`).
- `InkShown`: the outline never hides ink, the blanks of a text never hide another text.

Bounds: screens of 8 and 12 columns by 4 lines (`edge` 2 and 3; on the first the rows fit, on
the second they do not), one row of two sliding layers, two static layers, three texts with
different ink, maps of 3 by 6, 100 bytes of memory. `CHECK_DEADLOCK FALSE` for the reasons
of `Danmaku`.

## 6. Memory

`AllocRenderBuf` hands out `udmabuf1` from the bottom and frees nothing: the layers' maps
once, then a blank screen for each session. `sz_allocated` is part of a `malloc`ed context
that nothing initialises, so that it starts with any of `Uninitialized`. Sizes count modulo
`WordRange`, as a `size_t` does. A process that runs out of room exits and is started again.

`AreasApart` excepts a start beyond the area itself: `sz_allocated + length` may then wrap
around to a small number. `FramesFit` excepts frames larger than the buffers are made for;
`LengthAsserted`, which does not, is violated (section 11).

Two instances. `memory` has sizes of a few bytes, so that the area is full after two or three
sessions, additions wrap around, and sizes that are refused (10 by 8) or as large as a
buffer occur. `memory_length` has the constants of the code.

## 7. Video in and overlay

One step of either module is one edge of the pixel clock: an unprimed variable is a register
before it, a primed one after it.

**VideoIn.** The video is external: pixels, porches and pulses of either polarity, or no
signal. It is replaced by another, at any clock and from any position of the new picture.
`hdet` and `vdet` are the two polarity detectors, the rest the counters of `pxlCount.v`.
`SettledInTime` says what a reader has to know about the resolution register: three
pictures and a clock after a change it is right (`Settled`; TLC refutes it with a clock
less). The first may be counted with a polarity learnt from what was left of the video
before, the second is counted with the right one but may have begun in the middle of a
count, the third is measured whole. The position is right after two of them
(`PositionTrue`). Until then partial sizes may be read; `Pipeline` allows its `res` to change
at any time. Sources in the run: 3 by 2 with
both polarities positive and both negative, 2 by 1 with mixed ones, none. `CountRange` 64
is more than any of their pictures has clocks, as 2^25 is more than 2200 by 1125
(`VideoAssumption`).

**Overlay.** The stream of bytes is the byte at the head of the FIFO, by its place in the
frame. At any clock the FIFO may be empty instead (`Underflow`), and then shows anything. A
frame is followed by one of any geometry, which stands for frames of a session before and
for a resolution that has just changed. `Aligned` and `StaysInStep` are about a picture
that began in step and was not harmed by an empty FIFO (`clean`, defined by `Ready` and
`Harm`); `Resync` says that after any disturbance all pictures are of this kind, provided
that from some point the frames fit and the FIFO keeps up. Under `Harm` falls an underflow
that looks like a sync byte or comes between two of them; one that does not only moves the
rest of its line (`lag`).

The run has a video of 4 by 2 with 5 clocks of blanking, the least the proofs allow
(`OverlayAssumption`), one line of it, and frames that fit, that are shorter and narrower,
that are longer, and that are wider. Fairness: the pixel clock runs (`WF_vars(Next)`).

## 8. The fetcher

A request asks for posts from `nowId` on, ids being milliseconds of the server's clock; an
answer holds some of them, the oldest first; each one printed moves `nowId` past it. A
process that starts opens its end of the pipe and waits for the other one. `FetcherDies`,
`RendererCrash` and the two restarts have the pipe's own rules: what is in it is gone when
both ends are closed, a write without a reader ends the fetcher, an empty pipe without a
writer is at its end. Whether `fgets` returns lines after an end of file depends on the C
library; `sticky` is either.

`missed` and `lost` account for the posts that never reach the renderer: published late,
sharing the id of one that ended an answer, from before a start of the fetcher; dropped in
the pipe or in the renderer's buffer by a crash. `NothingSkipped` says that the fetcher
passes no others, `Delivered` that all others arrive.
`InOrder` needs a board clock that is not behind the server's: after a restart `nowId` is
the time of the board, and posts that the board takes to be in its future are
fetched again.

Bounds: two posts, a clock up to 3, two crashes of either process, a pipe of two
messages, lags 0 and 1. Two posts are enough for an answer to be cut between them, with
the same id or with different ones; two crashes for each process to die once, or one of
them twice. Fairness: weak for the steps of the processes, of systemd and of time, strong
for `Answer(TRUE)`: the server, asked again and again, comes to give an answer with
something in it. Crashes and posts owe nothing. `CHECK_DEADLOCK FALSE`: the model stops at
these bounds.

## 9. The runs

| Run | Checks | States | Shows |
|---|---|---|---|
| `pipeline_safety` | `TypeOK NoTear ShownWhole FilledStable AssertsHold StaleFirst FirstWaitFlushes NoPictureSkipped IsFifo` | 1.6 M | Two sessions in one process, mode changes, SIGINT on any thread, a FIFO that the first session can leave full for the second. The early release of a buffer never lets the renderer at what the DMA reads; a frame cut short by the end of a session is committed, but is not transmitted in that session; the next one transmits it among the left-overs, before any picture of its own. |
| `pipeline_restart` | `NoTear ShownWhole FilledStable IsFifo` | 1.2 M | The same across a crash at any moment, with the DMA engines still running. |
| `pipeline_live` | `FramesMove StopReturns SigintEndsSession` | 276 k | The two thresholds on the ring never block both threads; a stopped session returns. |
| `pipeline_video` | `VideoFollowed` | 99 k | When the source settles on a mode, the program ends up rendering for it. The property names the two ways it does not: blank screens used up, and the overlay thread that slept through a whole session. |
| `pipeline_sigint_lost` | `SigintExits` | violated | see 11 |
| `danmaku` | `TypeOK OnceOnly Apart GoneInTime StripsFit OverrunOnlyFull SlidingIsFifo StaticIsFifo SlidingEnters StaticStays` | 77 k | All inputs, clicks and changes of resolution within the bounds; no text waits for ever for a layer, none loses it while another layer is free. |
| `picture` | `WellFormed NothingLeftOver InkShown` | 169 k | The bytes of every frame, drawn over those of earlier frames and sessions, while texts come and go and the resolution changes. |
| `memory` | `AreasApart FramesFit` | 11 k | Sessions of every accepted size and restarts, whatever `malloc` leaves. |
| `memory_length` | `LengthAsserted` | violated | see 11 |
| `video_in` | `SettledInTime PositionTrue` | 1.2 M | Every change between four videos at every clock. |
| `overlay` | `Aligned StaysInStep Resync` | 40 k | Frames of four geometries and a FIFO empty at any clock. |
| `fetcher` | `NothingSkipped InOrder Delivered` | 113 k | Every cut of an answer, every error, crashes of both processes. |

Four properties hold for less than a reader may first think:

- `NoTear` and `ShownWhole` are about descriptors of the current session. One left in
  the overlay DMA by the session before may show a buffer while it is redrawn, once;
  `FirstWaitFlushes` says that it is gone after the first wait of the session.
- `FirstWaitFlushes` and `NoPictureSkipped` name what the code does when the FIFO of the
  overlay DMA is full: without video nothing leaves it, each session queues one more, and a
  session that meets a full one has its first picture dropped, waited for and released
  without being shown. No other picture is skipped. After the wait, nothing of earlier
  sessions is left but the descriptor being read, and that only in this case.
  `pipeline_safety` reaches it, with one place in the FIFO and two sessions.
- `Apart` compares texts of which the later is not the faster. A wider text is faster, and
  does catch up with a narrow one ahead: the code compares no speeds.
- `Delivered` says nothing of a post once an end of file has been kept.

## 10. What is proved

Everything below is proved for all values of the constants that satisfy the named
assumptions: any ring of at least four buffers, any DMA depth and any modes; queues,
layers and screens of any size; pictures, blanking and frames of any size; any number of
sessions, posts and crashes.

| Theorem | States |
|---|---|
| `PipelineProofs!TypeCorrect` | `Spec => []TypeOK` |
| `PipelineProofs!NeverTorn` | `Spec => []NoTear` |
| `PipelineProofs!NeverPartial` | `Spec => []ShownWhole` |
| `PipelineProofs!FilledNotWritten` | `Spec => []FilledStable` |
| `PipelineProofs!NoAssertFails` | `Spec => []AssertsHold` |
| `PipelineProofs!StaleComesFirst` | `Spec => []StaleFirst` |
| `PipelineProofs!PicturesAreFifo` | `Spec => IsFifo` (implements `FrameFifo`) |
| `PipelineProofs!FirstFlushes`, `NonePassedOver` | `Spec => []FirstWaitFlushes`, `Spec => NoPictureSkipped`, for a FIFO of any depth |
| `PipelineProofs!NoneDroppedWhileRoom` | `Spec => []NoneDropped`: no picture is dropped until more sessions have begun than the FIFO has places |
| `DanmakuProofs!ClearKeepsTexts`, `PushFitsUnlessFull`, `PushAppends`, `PopTakesOldest` | the array implements a sequence of texts |
| `DanmakuProofs!TypeCorrect` | `Spec => []TypeOK` |
| `DanmakuProofs!SlidingGone` | `Spec => []GoneInTime` |
| `DanmakuProofs!OverrunsWhenFull` | `Spec => OverrunOnlyFull` |
| `DanmakuProofs!SlidingInOrder`, `StaticInOrder` | `Spec => SlidingIsFifo`, `Spec => StaticIsFifo` (implement `TextFifo`) |
| `TextsProofs!OnePlace` | `Spec => []OnceOnly` |
| `TextsProofs!RowsApart` | `Spec => []Apart` |
| `TextsProofs!StripsAlwaysFit` | `Spec => []StripsFit` |
| `TextsProofs!StaticsStay` | `Spec => StaticStays` |
| `PictureProofs!FrameWellFormed`, `OnlyTextsInUse`, `InkAlwaysShown` | `PictureSpec => WellFormed`, `PictureSpec => []NothingLeftOver`, `PictureSpec => []InkShown` |
| `MemoryProofs!FramesAreWholeBeats` | every accepted frame is a multiple of 8 bytes long |
| `MemoryProofs!AlwaysApart`, `AlwaysFit` | `Spec => []AreasApart`, `Spec => []FramesFit` |
| `VideoInProofs!SettledAlways`, `PositionAlways` | `Spec => []SettledInTime`, `Spec => []PositionTrue` |
| `OverlayProofs!AlwaysAligned`, `AlwaysInStep`, `TypeCorrect` | `Spec => []Aligned`, `Spec => []StaysInStep`, `Spec => []TypeOK` |
| `FetcherProofs!NeverSkipped`, `AlwaysInOrder`, `TypeCorrect` | `Spec => []NothingSkipped`, `Spec => InOrder`, `Spec => []TypeOK` |

**Pipeline.** `NoTear` is not inductive: it depends on what each thread knows. The
invariant (`PipelineInv`) says it in parts.
`Phases`: who runs when. `Room`: while main holds a buffer it is slot `wrptr`, and at most
N-2 are filled. `Hold`: while the overlay thread holds a buffer it is slot `rdptr`. `Window`:
the buffers that descriptors of this session name are `rdptr` and the slot before it, and
which of them by how far the overlay thread has come; only the thread's wait for
`PendingTxmit` makes the window that small. `Complete`: what is filled, or is about to be, is
complete. With at most N-2 filled slots, and one at least, `wrptr` is neither
of the two: the buffer drawn into is never one being read. The module begins with the
modular arithmetic: where the filled slots are, and what a commit and a release do to them.

`StaleFirst` is inductive once the picture in main's hands is known to be of this session
(`OwnDrawn`). `IsFifo` adds that this picture has the number `FrameFifo` gives its next one
(`NumberDrawn`); each step of the code is then mapped to a step of `FrameFifo` or to none,
with the queue read off the slots from `rdptr` on.

`FirstWaitFlushes` and `NoPictureSkipped` need what a session knows of the FIFO of the
overlay DMA. A wait for `PendingTxmit` that `render_running` has not cut short leaves it empty,
and only this thread puts anything in, so it is empty at every later hand-over
(`Flushed`): a buffer can be dropped at the first one only. One that was queued is the last in
the FIFO, so that when the wait ends no descriptor of an earlier session is left
(`Accepted`). `NoneDropped` says when even the first is safe: a session leaves at most one
descriptor behind, so that a full FIFO takes more sessions than it has places (`Queued`).

**Danmaku.** The pace of a sliding text (`Pace`): after `age` frames the distance still to
go is less than `(CYCLE_PER_DANMU - age) * ppc`. It holds at first because the division in
`SlidingSetDanmu` is rounded up past its quotient. The refinements of `TextFifo` go through
the lemmas about `queen_t` that the module begins with: whatever joined the queue before the
layers are filled, its oldest text is what is fetched.

**Texts.** `OnceOnly` and `Apart` need the order of the numbers: the texts in a queue are
numbered upwards, all above the one its layers showed last, and the layers hold no later
one, each its own (`SlidingTexts`, `StaticTexts`). Row mates that are apart stay apart,
since of two the one behind moves no faster. That the code's search takes the first free
layer needs a least element of the places, which the lexicographic order of
`WellFoundedInduction` provides. `StaticStays` rests on the same for the static layers:
the layer `InsertStatic` chooses is off unless none is (`ChoiceIsFree`). The text it replaces
then differs from the new one, since the layers hold no later text than the last shown.

**Pictures.** A frame is right because of what its maps hold, so `PictureInvariant` adds to
the invariant of the texts: `MapsTrue`, the map of a layer in use bears the text of that
layer, with nothing else in the columns `WriteFontMap` cleared and with all of its ink;
`MarksApart`, the numbers that the bytes of a map bear are in no other map and not yet to
come, which is what tells the ink of two texts apart; and `FrameTrue`, a byte of a frame
that has been drawn is one that the filter lets through of a layer drawn last, or the blank
screen's where no layer has one. That `MarksApart` is kept needs the order of the numbers in
the queues (`TextsInvariant`): the text that enters is later than all that its layers' maps
bear. The strips of a layer are the columns the screen has room for (`StripsFitNow`), so
that `DrawsIs` finds the pixel of a text for every byte its layer writes, and the address of
every pixel on the screen. The three properties follow: that column is below the width of
the screen, and the sync bytes come after it, in a line of the frame if the rows fit; the
pixel is one of a text in use; and where a text has ink, the byte is of a layer, either its
own, at the same pixel since a line and a column give one address, or another, whose marks
differ. Ink, the characters of a text, the sizes of screens and maps and the numbers of
layers are any that satisfy `PictureAssumption`: maps as high and as wide as what is drawn
from them, and memory as long as the frame.

**Memory.** Everything allocated lies between the start and `sz_allocated`; as both are at
most `sz_dyn_area`, and a length and `sz_dyn_area` do not exceed `WordRange` together,
the check does not wrap around.

**VideoIn.** The invariant (`VideoInvariant`) counts the rises of a sync since the video
changed, in the new one. After the first, a detector's counts are the clocks it was high and
low in this video alone; at the second it learns the polarity from them (`DetectorOK`, used
for both syncs). A vertical polarity learnt wrong counts no lines, so that `nowY` and
`nowPxl` are zero when it is put right (`WrongIdles`); a right one clears them in the pulse
(`PulseClears`). Either way, from the second rise of vsync the counters are those of the
place (`Counting`), whatever they were before. A line is measured in the picture that
follows (`LineSeen`), and `screenY` by the third rise or, if that comes with the end of the
pulse, as the pulse begins (`PictureSeen`). The second rise is at most two pictures after
the change, the third at most three. TLC checked the invariant with pulses of one and of two
clocks before it was proved.

**Overlay.** `InStep` says where the stream stands at each clock of a line: before its
first pixel in the wait (`Wait`), then `vx - 2 - lag` pixels into it (`Reading`), then at the
second sync byte and past it. The two bounds of the assumption come from here: a line has
to be at least as long as the two clocks in which a line is started (`W >= 3`), and the
blanking has to leave time for the two sync bytes (`HBlank >= 5`).

**Fetcher.** `NothingSkipped` needs that every post up to one in `body` is printed, in
`body` or one of the cases of `missed` (`NoGap`): moving `nowId` past it then skips no other.
`InOrder` needs that what was printed comes before what will be, over restarts too, as
a starting fetcher takes a time after the posts it had printed (`Progress`), and that what
was returned, buffered and is in the pipe is in order, in that sequence (`Way`).

Model-checked only: liveness (`FramesMove`, `StopReturns`, `SigintEndsSession`,
`VideoFollowed`, `SlidingEnters`, `Resync`, `Delivered`), which rests on
fairness and is out of the prover's reach. Every other property of a passing run is a
theorem.

## 11. What the code does that its text does not say

Two disagreements, each shown by a run:

- `SigintExits`. A SIGINT after `signal()` and before `render_running = 1` is half undone by
  that store. The program renders on with `sigint` set, or, if the overlay thread has seen
  `sigint`, waits for ever for a free buffer.
- `LengthAsserted`. `SubMain` accepts any size that is a multiple of four; with a video of
  1920 by 1200 a frame is longer than `FRAME_BUFFER_SIZE` (2000 by 1100), the first
  transmission fails its assertion, and systemd starts the program again to the same end.

Others are stated as exceptions of properties, for want of a line of the source that denies
them:

- `Render` clears every frame buffer before "render running", but `ClearScreen` copies under
  `while(render_running && ...)` and `render_running` is still 0: nothing is cleared. The
  ring's left-overs of the session before, perhaps of another resolution, are transmitted
  first (`StaleFirst` says that they come before all others; `Resync` that the overlay
  recovers from them; `WellFormed` and `NothingLeftOver` that a frame drawn over them leaves
  nothing of them).
- A session that starts and ends while the overlay thread is not scheduled leaves main in
  `pthread_join` until a SIGINT (`StopReturns`).
- `FrameBufferTxmit` drops the first picture of a session when earlier ones have left the
  overlay DMA's FIFO full, and the caller does not look (`NoPictureSkipped`).
- Nothing bounds how long a click waits while a sender keeps standard input busy.
- Each session uses up a blank screen of udmabuf1 (`VideoFollowed`).
- A text that survives a change of the resolution is drawn from a map of the old one
  (`NothingLeftOver`, `Fresh`).
- On a screen wider than four times its height, the lowest rows of texts are written behind
  the frame, into the next buffer (`WellFormed`, `RowsFit`).
- A fetcher restarted on a board whose clock is behind prints posts again (`InOrder`).

## 12. What is not modelled, and the plan

Not modelled, by component (`PROJECT.json` lists them all):

- video input: `tfp401a.v`'s own detection of a signal, whose output `ghrd_top.v` leaves
  unconnected; the overflow flags and `screenPxl`, which nothing reads;
- resolution register: the flip-flops of its synchronisers, and a read between the changes
  of their bits. `Pipeline` covers the effect on the program, as its `res` changes to
  anything at any time;
- driver: the reads of sysfs and the error paths of `DanmakuHW_Open`, `LoadEDID`, the bus
  priorities: they run once, before anything else, and end the process or leave constants;
- button: setting up the GPIO pin, and `poll` failing;
- text rendering: Pango itself;
- no logic of this program: the EDID loader, the test picture feeder, wiring, generated and
  vendored FPGA blocks, U-Boot and the generated board support. The last of these are
  nearly all lines of the repository; the program's own code is a few thousand.

What is left to do, should the code grow: the order of memory accesses of the Cortex-A9 in
`Pipeline`, which takes memory as sequentially consistent; and the frame that `Picture`
draws in one step as the stream of descriptors of `Pipeline`, so that a frame cut short by a
SIGINT has its bytes too.
