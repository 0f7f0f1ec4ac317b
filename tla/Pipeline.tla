------------------------------ MODULE Pipeline ------------------------------
(***************************************************************************)
(* The frame pipeline of danmaku.c: the main thread, which runs SubMain    *)
(* and Render once per video session; Thread4Overlay, which hands filled   *)
(* buffers to the overlay DMA; the SIGINT handler; the two DMA engines;    *)
(* the video input; and systemd, which restarts the program.               *)
(*                                                                         *)
(* A thread has a pc whose values name the statement it is about to run;   *)
(* a step is one access to shared memory or one call into ring.c or the    *)
(* driver.  A spin loop is a step that is enabled when the loop ends: the  *)
(* iterations before it change nothing.                                    *)
(***************************************************************************)
EXTENDS Ring, Sequences

CONSTANTS
  Modes,         \* resolutions SubMain accepts
  NoVideo,       \* the resolution register without a usable video signal
  MaxDma,        \* most descriptors a frame needs (ClearScreen's and the strips)
  TxDepth,       \* descriptors the overlay DMA queues
  PoolScreens,   \* blank screens that fit in udmabuf1
  MaxRestarts,   \* bound on restarts by systemd
  SerialCount,   \* pictures are numbered modulo SerialCount
  SigintTo       \* the thread the kernel runs intHandler on; "none": no SIGINT

ASSUME PipelineAssumption ==
  /\ NoVideo \notin Modes
  /\ MaxDma \in Nat \ {0}
  /\ TxDepth \in Nat \ {0}
  /\ PoolScreens \in Nat
  /\ MaxRestarts \in Nat
  /\ SerialCount \in Nat \ {0}
  /\ SigintTo \in {"main", "any", "none"}

VARIABLES
  running,   \* render_running
  sigint,    \* sigint
  hpc,       \* intHandler: "off" before signal(), "idle", "half" between its stores
  res,       \* resolution register, written by the video input
  mpc,       \* pc of the main thread
  midx,      \* idx of Render
  mtodo,     \* descriptors RenderOnce has still to submit for this frame
  geom,      \* screen_width, screen_height and what is derived from them
  screens,   \* blank screens this process has allocated
  opc,       \* pc of Thread4Overlay
  oidx,      \* its idx
  left,      \* left[f]: descriptors writing buffer f the render DMA has not finished
  txq,       \* descriptor FIFO of the overlay DMA
  txcur,     \* the descriptor it is transmitting: none or one
  handed,    \* history: what became of the latest buffer this session handed to it
  restarts,  \* restarts so far
  pic,       \* history: what was last drawn into each buffer
  made,      \* history: number of the latest committed picture
  shown      \* history: number of the picture last accepted by the overlay DMA

ringVars == <<rdptr, wrptr>>
mainVars == <<mpc, midx, mtodo, geom, screens>>
overlayVars == <<opc, oidx>>
txVars == <<txq, txcur, handed>>
vars == <<rdptr, wrptr, running, sigint, hpc, res, mpc, midx, mtodo, geom, screens,
          opc, oidx, left, txq, txcur, handed, restarts, pic, made, shown>>

Serials == 0 .. SerialCount-1
NextSerial(n) == (n + 1) % SerialCount

\* own: drawn by the current session; whole: no descriptor of it was skipped.
Pictures == [serial : Serials, own : BOOLEAN, whole : BOOLEAN]
\* own: submitted by the current session.
Descriptors == [slot : Slots, own : BOOLEAN]

MainPCs == {"loop", "submain", "create", "signal", "clear", "waitidle", "start",
            "ringwait", "getempty", "render", "drain", "commit", "check", "stop",
            "join", "exited", "dead"}
OverlayPCs == {"none", "await", "awaitsig", "first", "loop", "txmit", "pending",
               "size", "release", "next", "done"}

TypeOK ==
  /\ RingTypeOK
  /\ running \in BOOLEAN /\ sigint \in BOOLEAN
  /\ hpc \in {"off", "idle", "half"}
  /\ res \in Modes \cup {NoVideo} /\ geom \in Modes \cup {NoVideo}
  /\ mpc \in MainPCs /\ midx \in Slots /\ mtodo \in 0 .. MaxDma
  /\ screens \in 0 .. PoolScreens
  /\ opc \in OverlayPCs /\ oidx \in Slots \cup {-1}
  /\ left \in [Slots -> Nat]
  /\ txq \in Seq(Descriptors) /\ Len(txq) <= TxDepth
  /\ txcur \in Seq(Descriptors) /\ Len(txcur) <= 1
  /\ handed \in {"none", "queued", "dropped"}
  /\ restarts \in 0 .. MaxRestarts
  /\ pic \in [Slots -> Pictures]
  /\ made \in Serials /\ shown \in Serials \cup {-1}

NeverDrawn == [serial |-> 0, own |-> FALSE, whole |-> FALSE]

Init ==
  /\ RingInit
  /\ running = FALSE /\ sigint = FALSE /\ hpc = "off"
  /\ res \in Modes \cup {NoVideo} /\ geom = NoVideo
  /\ mpc = "loop" /\ midx = 0 /\ mtodo = 0 /\ screens = 0
  /\ opc = "none" /\ oidx = -1
  /\ left = [f \in Slots |-> 0]
  /\ txq = <<>> /\ txcur = <<>> /\ handed = "none"
  /\ restarts = 0
  /\ pic = [f \in Slots |-> NeverDrawn] /\ made = 0 /\ shown = -1

-----------------------------------------------------------------------------
(* The hardware as the driver sees it. *)

RenderDMAIdle == \A f \in Slots : left[f] = 0
PendingTxmit == txq # <<>>
ResolutionChanged == res # geom

\* What belonged to the session that ended no longer belongs to the current one.
Disown(descs) == [i \in DOMAIN descs |-> [descs[i] EXCEPT !.own = FALSE]]
NewSession ==
  /\ pic' = [f \in Slots |-> [pic[f] EXCEPT !.own = FALSE]]
  /\ txq' = Disown(txq)
  /\ txcur' = Disown(txcur)
  /\ handed' = "none"

\* The process is gone, with its memory; the DMA engines and the frame buffers stay.
ProcessEnds(how) ==
  /\ mpc' = how
  /\ RingReset
  /\ running' = FALSE /\ sigint' = FALSE /\ hpc' = "off"
  /\ midx' = 0 /\ mtodo' = 0 /\ geom' = NoVideo /\ screens' = 0
  /\ opc' = "none" /\ oidx' = -1
  /\ made' = 0 /\ shown' = -1
  /\ NewSession
  /\ UNCHANGED <<res, left, restarts>>

\* RenderStartDMA of one descriptor that writes buffer f.  A full descriptor
\* FIFO only delays the caller, which retries.
RenderStartDMA(f) == left' = [left EXCEPT ![f] = @ + 1]

\* The render DMA finishes a descriptor.
RenderDone ==
  /\ \E f \in Slots : left[f] > 0 /\ left' = [left EXCEPT ![f] = @ - 1]
  /\ UNCHANGED <<ringVars, running, sigint, hpc, res, mainVars, overlayVars, txVars,
                 restarts, pic, made, shown>>

\* The overlay DMA takes the next descriptor once the previous one is read...
TxStart ==
  /\ txcur = <<>> /\ txq # <<>>
  /\ txcur' = <<Head(txq)>> /\ txq' = Tail(txq)
  /\ UNCHANGED <<ringVars, running, sigint, hpc, res, mainVars, overlayVars, left,
                 handed, restarts, pic, made, shown>>

\* ...and finishes reading it as pixels leave; without video nothing leaves.
TxDone ==
  /\ txcur # <<>> /\ res # NoVideo
  /\ txcur' = <<>>
  /\ UNCHANGED <<ringVars, running, sigint, hpc, res, mainVars, overlayVars, left, txq,
                 handed, restarts, pic, made, shown>>

\* The source connected to the HDMI input changes mode.
VideoChange ==
  /\ \E m \in (Modes \cup {NoVideo}) \ {res} : res' = m
  /\ UNCHANGED <<ringVars, running, sigint, hpc, mainVars, overlayVars, left, txVars,
                 restarts, pic, made, shown>>

-----------------------------------------------------------------------------
(* The main thread: main's loop, SubMain and Render. *)

\* A handler that runs on the main thread suspends it.
MainAt(pc) == mpc = pc /\ (SigintTo = "main" => hpc # "half")

\* A step of the main thread that only goes on to another statement.
MainGoes(from, to) ==
  /\ MainAt(from) /\ mpc' = to
  /\ UNCHANGED <<ringVars, running, sigint, hpc, res, midx, mtodo, geom, screens,
                 overlayVars, left, txVars, restarts, pic, made, shown>>

\* while (!sigint) SubMain();
MainLoop == ~sigint /\ MainGoes("loop", "submain")

\* ...and what follows the loop: the button thread is joined and the process ends.
Exit == MainAt("loop") /\ sigint /\ ProcessEnds("exited")

\* SubMain up to InitBlankScreen: a resolution it rejects returns after a nap...
UnsupportedSize ==
  /\ MainAt("submain") /\ res \notin Modes
  /\ geom' = res /\ mpc' = "loop"
  /\ UNCHANGED <<ringVars, running, sigint, hpc, res, midx, mtodo, screens,
                 overlayVars, left, txVars, restarts, pic, made, shown>>

\* ...an accepted one gets a new blank screen, never freed; the session begins...
InitBlankScreen ==
  /\ MainAt("submain") /\ res \in Modes /\ screens < PoolScreens
  /\ geom' = res /\ screens' = screens + 1 /\ mpc' = "create"
  /\ NewSession
  /\ UNCHANGED <<ringVars, running, sigint, hpc, res, midx, mtodo, overlayVars, left,
                 restarts, made, shown>>

\* ...and AllocRenderBuf exits the process when udmabuf1 is used up.
OutOfScreens ==
  MainAt("submain") /\ res \in Modes /\ screens = PoolScreens /\ ProcessEnds("dead")

\* pthread_create(&overlay_thread, ...)
CreateOverlay ==
  /\ MainAt("create")
  /\ opc' = "await" /\ oidx' = -1 /\ mpc' = "signal"
  /\ UNCHANGED <<ringVars, running, sigint, hpc, res, midx, mtodo, geom, screens, left,
                 txVars, restarts, pic, made, shown>>

\* signal(SIGINT, intHandler)
InstallHandler ==
  /\ MainAt("signal")
  /\ hpc' = IF hpc = "off" THEN "idle" ELSE hpc
  /\ mpc' = "clear"
  /\ UNCHANGED <<ringVars, running, sigint, res, midx, mtodo, geom, screens,
                 overlayVars, left, txVars, restarts, pic, made, shown>>

\* Render's first loop: ClearScreen of every buffer, each under
\* while(render_running && ...).
ClearScreens ==
  /\ MainAt("clear") /\ mpc' = "waitidle"
  /\ IF running
     THEN /\ left' = [f \in Slots |-> left[f] + 1]
          /\ pic' = [f \in Slots |-> [pic[f] EXCEPT !.own = TRUE, !.whole = TRUE]]
     ELSE UNCHANGED <<left, pic>>
  /\ UNCHANGED <<ringVars, running, sigint, hpc, res, midx, mtodo, geom, screens,
                 overlayVars, txVars, restarts, made, shown>>

\* Mutant of WaitIdle: the descriptors of the last session are not waited for.
MutWaitIdle == MainGoes("waitidle", "start")

\* while(!RenderDMAIdle);
WaitIdle == RenderDMAIdle /\ MainGoes("waitidle", "start")

\* render_running = 1;
StartRendering ==
  /\ MainAt("start") /\ running' = TRUE /\ mpc' = "ringwait"
  /\ UNCHANGED <<ringVars, sigint, hpc, res, midx, mtodo, geom, screens, overlayVars,
                 left, txVars, restarts, pic, made, shown>>

\* while(render_running && RingSize() >= NUM_FRAME_BUFFER-1);
RingWait == running /\ RingSize < N-1 /\ MainGoes("ringwait", "getempty")

\* Every exit of Render's loop on !render_running.
LeaveLoop == ~running /\ \E pc \in {"ringwait", "getempty"} : MainGoes(pc, "stop")

\* idx = GetEmptyBuffer(), and the frame RenderOnce is going to draw into it:
\* ClearScreen's descriptor and one per strip of each visible layer.
GetEmpty ==
  /\ MainAt("getempty") /\ running /\ EmptyBufferExists
  /\ midx' = GetEmptyBuffer
  /\ mtodo' \in 1 .. MaxDma
  /\ pic' = [pic EXCEPT ![GetEmptyBuffer] =
               [serial |-> NextSerial(made), own |-> TRUE, whole |-> FALSE]]
  /\ mpc' = "render"
  /\ UNCHANGED <<ringVars, running, sigint, hpc, res, geom, screens, overlayVars, left,
                 txVars, restarts, made, shown>>

\* Mutant of Submit: a descriptor the full FIFO refuses is not retried.
MutSubmit ==
  /\ MainAt("render") /\ running
  /\ \/ RenderStartDMA(midx) /\ pic' = [pic EXCEPT ![midx].whole = (mtodo = 1)]
     \/ UNCHANGED <<left, pic>>
  /\ mtodo' = mtodo - 1
  /\ mpc' = IF mtodo = 1 THEN "drain" ELSE "render"
  /\ UNCHANGED <<ringVars, running, sigint, hpc, res, midx, geom, screens, overlayVars,
                 txVars, restarts, made, shown>>

\* RenderOnce submits a descriptor; after the last one the picture is whole.
Submit ==
  /\ MainAt("render") /\ running
  /\ RenderStartDMA(midx)
  /\ mtodo' = mtodo - 1
  /\ pic' = [pic EXCEPT ![midx].whole = (mtodo = 1)]
  /\ mpc' = IF mtodo = 1 THEN "drain" ELSE "render"
  /\ UNCHANGED <<ringVars, running, sigint, hpc, res, midx, geom, screens, overlayVars,
                 txVars, restarts, made, shown>>

\* Once render_running is 0 the remaining while(render_running && ...) are no-ops.
SkipRest ==
  /\ MainAt("render") /\ ~running
  /\ mtodo' = 0 /\ mpc' = "drain"
  /\ UNCHANGED <<ringVars, running, sigint, hpc, res, midx, geom, screens, overlayVars,
                 left, txVars, restarts, pic, made, shown>>

\* Mutant of Drain: the frame is committed while the render DMA still writes it.
MutDrain == MainGoes("drain", "commit")

\* while(render_running && !RenderDMAIdle);
Drain == (~running \/ RenderDMAIdle) /\ MainGoes("drain", "commit")

Commit ==
  /\ MainAt("commit") /\ CommitBuffer
  /\ made' = NextSerial(made) /\ mpc' = "check"
  /\ UNCHANGED <<running, sigint, hpc, res, midx, mtodo, geom, screens, overlayVars,
                 left, txVars, restarts, pic, shown>>

\* Mutant of CheckResolution: the resolution register is never looked at again.
MutCheckResolution == MainGoes("check", "ringwait")

\* if(ResolutionChanged()) render_running = 0;
CheckResolution ==
  /\ MainAt("check")
  /\ running' = (running /\ ~ResolutionChanged) /\ mpc' = "ringwait"
  /\ UNCHANGED <<ringVars, sigint, hpc, res, midx, mtodo, geom, screens, overlayVars,
                 left, txVars, restarts, pic, made, shown>>

\* render_running = 0 at the end of Render.
StopRendering ==
  /\ MainAt("stop") /\ running' = FALSE /\ mpc' = "join"
  /\ UNCHANGED <<ringVars, sigint, hpc, res, midx, mtodo, geom, screens, overlayVars,
                 left, txVars, restarts, pic, made, shown>>

\* pthread_join(overlay_thread)
Join ==
  /\ MainAt("join") /\ opc = "done"
  /\ opc' = "none" /\ oidx' = -1 /\ mpc' = "loop"
  /\ UNCHANGED <<ringVars, running, sigint, hpc, res, midx, mtodo, geom, screens, left, txVars, restarts, pic, made, shown>>

Main ==
  \/ MainLoop \/ Exit \/ UnsupportedSize \/ InitBlankScreen \/ OutOfScreens
  \/ CreateOverlay \/ InstallHandler \/ ClearScreens \/ WaitIdle \/ StartRendering
  \/ RingWait \/ LeaveLoop \/ GetEmpty \/ Submit \/ SkipRest \/ Drain \/ Commit
  \/ CheckResolution \/ StopRendering \/ Join

-----------------------------------------------------------------------------
(* Thread4Overlay. *)

OverlayGoes(from, to) ==
  /\ opc = from /\ opc' = to
  /\ UNCHANGED <<ringVars, running, sigint, hpc, res, mainVars, oidx, left, txVars,
                 restarts, pic, made, shown>>

\* while(!render_running) { if(sigint) return 0; ... }: two separate reads.
AwaitRunning == OverlayGoes("await", IF running THEN "first" ELSE "awaitsig")

\* Mutant of AwaitSigint: the start wait does not look at sigint.
MutAwaitSigint == OverlayGoes("awaitsig", "await")

AwaitSigint == OverlayGoes("awaitsig", IF sigint THEN "done" ELSE "await")

\* Mutant of FirstFilled: the wait does not look at render_running.
MutFirstFilled ==
  /\ opc = "first" /\ GetFilledBuffer # -1
  /\ oidx' = GetFilledBuffer /\ opc' = "loop"
  /\ UNCHANGED <<ringVars, running, sigint, hpc, res, mainVars, left, txVars,
                 restarts, pic, made, shown>>

\* while(render_running && (idx = GetFilledBuffer()) == -1);
FirstFilled ==
  /\ opc = "first" /\ (~running \/ GetFilledBuffer # -1)
  /\ oidx' = IF running THEN GetFilledBuffer ELSE oidx
  /\ opc' = "loop"
  /\ UNCHANGED <<ringVars, running, sigint, hpc, res, mainVars, left, txVars,
                 restarts, pic, made, shown>>

\* for(;render_running;)
OverlayLoop == OverlayGoes("loop", IF running THEN "txmit" ELSE "done")

\* FrameBufferTxmit(idx): the descriptor is queued...
Txmit ==
  /\ opc = "txmit" /\ Len(txq) < TxDepth
  /\ txq' = Append(txq, [slot |-> oidx, own |-> TRUE])
  /\ shown' = pic[oidx].serial
  /\ handed' = "queued" /\ opc' = "pending"
  /\ UNCHANGED <<ringVars, running, sigint, hpc, res, mainVars, oidx, left, txcur,
                 restarts, pic, made>>

\* ...or dropped when the FIFO is full: the caller ignores the -1.
TxmitFull ==
  /\ opc = "txmit" /\ Len(txq) >= TxDepth
  /\ handed' = "dropped" /\ opc' = "pending"
  /\ UNCHANGED <<ringVars, running, sigint, hpc, res, mainVars, oidx, left, txq, txcur,
                 restarts, pic, made, shown>>

\* Mutant of WaitPending: the descriptor is not waited for.
MutWaitPending == OverlayGoes("pending", "size")

\* while(render_running && PendingTxmit());
WaitPending == (~running \/ ~PendingTxmit) /\ OverlayGoes("pending", "size")

\* Mutants of KeepFilled: other thresholds.
MutKeepFilled(keep) == OverlayGoes("size", IF RingSize > keep THEN "release" ELSE "loop")
MutKeepNone == MutKeepFilled(0)
MutKeepOne == MutKeepFilled(1)
MutKeepThree == MutKeepFilled(3)

\* if(RingSize() > 2)
KeepFilled == OverlayGoes("size", IF RingSize > 2 THEN "release" ELSE "loop")

Release ==
  /\ opc = "release" /\ ReleaseBuffer /\ opc' = "next"
  /\ UNCHANGED <<running, sigint, hpc, res, mainVars, oidx, left, txVars,
                 restarts, pic, made, shown>>

\* Mutant of NextFilled: releases go on while more than two buffers are filled.
MutNextFilled ==
  /\ opc = "next" /\ oidx' = GetFilledBuffer /\ opc' = "size"
  /\ UNCHANGED <<ringVars, running, sigint, hpc, res, mainVars, left, txVars,
                 restarts, pic, made, shown>>

NextFilled ==
  /\ opc = "next" /\ oidx' = GetFilledBuffer /\ opc' = "loop"
  /\ UNCHANGED <<ringVars, running, sigint, hpc, res, mainVars, left, txVars,
                 restarts, pic, made, shown>>

Overlay ==
  \/ AwaitRunning \/ AwaitSigint \/ FirstFilled \/ OverlayLoop \/ Txmit \/ TxmitFull
  \/ WaitPending \/ KeepFilled \/ Release \/ NextFilled

-----------------------------------------------------------------------------
(* intHandler, and the death and restart of the process. *)

SigStop ==
  /\ hpc = "idle" /\ SigintTo # "none"
  /\ running' = FALSE /\ hpc' = "half"
  /\ UNCHANGED <<ringVars, sigint, res, mainVars, overlayVars, left, txVars,
                 restarts, pic, made, shown>>

SigFlag ==
  /\ hpc = "half" /\ sigint' = TRUE /\ hpc' = "idle"
  /\ UNCHANGED <<ringVars, running, res, mainVars, overlayVars, left, txVars,
                 restarts, pic, made, shown>>

\* Killed, aborted, or interrupted before signal(): the DMA engines go on.
Crash == mpc \notin {"exited", "dead"} /\ ProcessEnds("dead")

\* Restart=always: a new process, with the hardware as the old one left it.
Restart ==
  /\ mpc \in {"exited", "dead"} /\ restarts < MaxRestarts
  /\ restarts' = restarts + 1 /\ mpc' = "loop"
  /\ UNCHANGED <<ringVars, running, sigint, hpc, res, midx, mtodo, geom, screens,
                 overlayVars, left, txVars, pic, made, shown>>

Signal == SigStop \/ SigFlag

Next ==
  \/ Main \/ Overlay \/ Signal
  \/ RenderDone \/ TxStart \/ TxDone \/ VideoChange
  \/ Crash \/ Restart

Spec == Init /\ [][Next]_vars

\* The scheduler runs every thread that can run, and the DMA engines make
\* progress; nothing obliges the video source, a SIGINT, a crash or a restart.
\* Only finitely many SIGINTs arrive.
Fairness ==
  /\ WF_vars(Main) /\ WF_vars(Overlay) /\ WF_vars(SigFlag)
  /\ WF_vars(RenderDone) /\ WF_vars(TxStart) /\ WF_vars(TxDone)
  /\ <>[][~SigStop]_vars

FairSpec == Spec /\ Fairness
=============================================================================
