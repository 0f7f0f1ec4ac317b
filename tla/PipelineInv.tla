----------------------------- MODULE PipelineInv -----------------------------
(***************************************************************************)
(* The inductive invariant behind the pipeline's safety properties, as a   *)
(* conjunction of named parts.  TLC checks it here on small instances;     *)
(* module PipelineProofs proves it for every value of the constants.       *)
(***************************************************************************)
EXTENDS PipelineProperties

\* The slot released before rdptr.
Before(slot) == (slot + N - 1) % N

\* pcs of the main thread: between sessions, setting one up, rendering.
BetweenSessions == {"loop", "submain", "exited", "dead"}
SettingUp == {"create", "signal", "clear", "waitidle", "start"}
Rendering == {"ringwait", "getempty", "render", "drain", "commit", "check", "stop"}

\* pcs of the overlay thread before it has a buffer, and while it passes them on.
NotStarted == {"none", "await", "awaitsig", "first"}
Working == {"first", "loop", "txmit", "pending", "size", "release", "next"}

NothingOwn == OwnIn(txq) = {} /\ OwnIn(txcur) = {}

\* render_running is 1 only inside Render; the overlay thread exists from
\* pthread_create to pthread_join and works only once Render has begun.
Phases ==
  /\ running => mpc \in Rendering
  /\ opc # "none" => mpc \in SettingUp \cup Rendering \cup {"join"}
  /\ opc \in Working => mpc \in Rendering \cup {"join"}
  /\ mpc = "create" => opc = "none"
  /\ mpc = "join" => ~running

\* While the main thread holds a buffer, it is slot wrptr and the ring has room.
Room ==
  /\ mpc \in {"getempty", "render", "drain", "commit"} => RingSize <= N-2
  /\ Drawing => midx = wrptr
  /\ mpc = "render" => mtodo \in 1 .. MaxDma

\* While the overlay thread holds a buffer, it is the oldest filled one.
Hold ==
  /\ opc \in NotStarted => oidx = -1
  /\ opc \in {"txmit", "pending", "size", "release"} => oidx = rdptr /\ rdptr # wrptr
  /\ opc = "loop" /\ oidx # -1 => oidx = rdptr /\ rdptr # wrptr
  /\ opc = "loop" /\ running => oidx # -1
  /\ opc = "release" => RingSize >= 3
  /\ opc = "next" => rdptr # wrptr

\* What is in the ring, or about to be committed or transmitted, is complete.
Complete ==
  /\ mpc = "start" => RenderDMAIdle
  /\ mpc = "commit" /\ running => RenderDMAIdle
  /\ mpc \in SettingUp => \A f \in Slots : ~pic[f].own
  /\ mpc \in {"drain", "commit"} /\ running => pic[midx].whole
  /\ running => \A f \in FilledSlots : left[f] = 0 /\ (pic[f].own => pic[f].whole)
  /\ opc = "txmit" => left[rdptr] = 0 /\ (pic[rdptr].own => pic[rdptr].whole)

\* Which buffers this session's descriptors in the overlay DMA can name, from what
\* the overlay thread knows about its FIFO.
Window ==
  /\ mpc \in SettingUp \cup {"exited", "dead"} => NothingOwn
  /\ mpc \notin BetweenSessions /\ opc \in NotStarted => NothingOwn
  /\ running /\ opc = "done" => NothingOwn
  /\ opc = "txmit" => OwnIn(txq) = {} /\ OwnIn(txcur) \subseteq {rdptr, Before(rdptr)}
  /\ running /\ opc = "loop" =>
       OwnIn(txq) = {} /\ OwnIn(txcur) \subseteq {rdptr, Before(rdptr)}
  /\ opc = "pending" =>
       /\ OwnIn(txq) \subseteq {rdptr}
       /\ OwnIn(txcur) \subseteq {rdptr, Before(rdptr)}
       /\ txq = <<>> => OwnIn(txcur) \subseteq {rdptr}
  /\ running /\ opc \in {"size", "release"} =>
       OwnIn(txq) = {} /\ OwnIn(txcur) \subseteq {rdptr}
  /\ running /\ opc = "next" =>
       OwnIn(txq) = {} /\ OwnIn(txcur) \subseteq {Before(rdptr)}

\* What a session knows of the FIFO of the overlay DMA: nothing before its first
\* descriptor; that it is empty after each wait that render_running has not cut short.
Flushed ==
  /\ mpc = "create" \/ opc \in {"await", "awaitsig", "first"} => handed = "none"
  /\ opc = "txmit" /\ handed # "none" => txq = <<>>
  /\ running /\ opc = "loop" /\ handed # "none" => txq = <<>>
  /\ running /\ opc \in {"size", "release", "next"} => txq = <<>>

\* When the buffer handed over was queued, the last descriptor in the FIFO is this
\* session's, and its picture is the one shown last.
AllOwn(descs) == \A i \in DOMAIN descs : descs[i].own
Accepted ==
  /\ opc \in {"pending", "size", "release", "next"} => handed # "none"
  /\ opc = "pending" /\ handed = "queued" =>
       IF txq # <<>> THEN txq[Len(txq)].own ELSE AllOwn(txcur)
  /\ running /\ opc \in {"size", "release", "next"} /\ handed = "queued" => AllOwn(txcur)
  /\ opc \in {"pending", "size", "release"} /\ handed = "queued" => shown = pic[rdptr].serial

\* Sessions begun so far, at most: a process that ended may have begun all it could.
Sessions ==
  PoolScreens * restarts + IF mpc \in {"exited", "dead"} THEN PoolScreens ELSE screens

\* Each session leaves at most one descriptor in the FIFO, and the current one has left
\* none while it can still queue another: no buffer was dropped while there was room.
Queued ==
  /\ Len(txq) <= Sessions
  /\ mpc \notin BetweenSessions => screens >= 1
  /\ mpc \notin BetweenSessions /\ opc \in NotStarted => Len(txq) < Sessions
  /\ opc = "txmit" => Len(txq) < Sessions
  /\ running /\ opc = "loop" => Len(txq) < Sessions
  /\ running /\ opc \in {"size", "release", "next"} => txq = <<>>
NoneDropped == Sessions <= TxDepth => handed # "dropped"

PipelineInvariant ==
  TypeOK /\ Phases /\ Room /\ Hold /\ Complete /\ Window /\ NoTear /\ ShownWhole
=============================================================================
