------------------------------ MODULE Fetcher ------------------------------
(***************************************************************************)
(* fetcher.coffee, which asks a server for new posts again and again and   *)
(* writes them as lines into a named pipe; the pipe; fgets of the renderer *)
(* at its other end; and systemd, which starts each of the two again.      *)
(*                                                                         *)
(* The server is external.  It stamps a post with its clock, may publish   *)
(* it a little later, and answers a request for posts from id s on with    *)
(* any number of them, the oldest first.                                   *)
(***************************************************************************)
EXTENDS Naturals, Sequences, FiniteSets

CONSTANTS
  MaxPosts, MaxClock, MaxCrashes,  \* bounds
  PipeSize,    \* messages the pipe holds
  Lags,        \* milliseconds the clock of the board may be behind the server's
  ValidFrom    \* the fetcher waits until the clock of the board shows this

ASSUME FetcherAssumption ==
  /\ MaxPosts \in Nat /\ MaxClock \in Nat /\ MaxCrashes \in Nat /\ PipeSize \in Nat \ {0}
  /\ Lags \subseteq Nat /\ ValidFrom \in Nat

VARIABLES
  clock,        \* of the server, in milliseconds
  lag,
  posts,
  fetcher,      \* "down", "opening" the pipe, "booting", then "getOne", "waiting", "printing"
  nowId,
  body,         \* posts of the answer that have not been printed
  pipe,
  renderer,     \* "down", "opening", "up"
  buffer,       \* the renderer's stdin: read from the pipe, not yet returned by fgets
  sticky, eof,  \* the C library keeps an end of file; it has seen one
  crashes,
  printed, seen,\* history: posts written to the pipe; returned by fgets, in order
  missed, lost  \* history: passed over by the fetcher; dropped by a crash after printing

serverVars == <<clock, lag, posts>>
fetcherVars == <<fetcher, nowId, body, printed>>
rendererVars == <<renderer, buffer, eof, seen>>
vars == <<serverVars, fetcherVars, pipe, rendererVars, sticky, crashes, missed, lost>>

Posts == [id : Nat, n : Nat]
Before(p, q) == p.id < q.id \/ (p.id = q.id /\ p.n < q.n)
Oldest(S) == CHOOSE p \in S : \A q \in S : p = q \/ Before(p, q)
Elements(seq) == {seq[i] : i \in DOMAIN seq}

\* A process that waits for the other one to open the pipe holds its end already.
WriteEnd == fetcher # "down"
ReadEnd == renderer # "down"

-----------------------------------------------------------------------------
(* The server. *)

Tick ==
  /\ clock < MaxClock /\ clock' = clock + 1
  /\ UNCHANGED <<lag, posts, fetcherVars, pipe, rendererVars, sticky, crashes, missed, lost>>

\* A post with an id that has been answered comes too late for the next request.
Answered(id) == id < nowId \/ \E q \in body : id <= q.id
Post ==
  /\ Cardinality(posts) < MaxPosts
  /\ \E id \in {clock, clock - 1} :
       LET p == [id |-> id, n |-> Cardinality(posts) + 1] IN
       /\ id \in Nat /\ posts' = posts \cup {p}
       /\ missed' = IF Answered(id) THEN missed \cup {p} ELSE missed
  /\ UNCHANGED <<clock, lag, fetcherVars, pipe, rendererVars, sticky, crashes, lost>>

-----------------------------------------------------------------------------
(* The fetcher. *)

Request ==
  /\ fetcher = "getOne" /\ fetcher' = "waiting"
  /\ UNCHANGED <<serverVars, nowId, body, printed, pipe, rendererVars, sticky, crashes,
                 missed, lost>>

Asked == {p \in posts : p.id >= nowId}

\* Of posts with one id the answer may hold a part: the next request is for later ids.
Answer(some) ==
  /\ fetcher = "waiting" /\ fetcher' = "printing"
  /\ \E answer \in SUBSET Asked :
       /\ some => answer # {}
       /\ \A p \in answer, q \in Asked \ answer : Before(p, q)
       /\ body' = answer
       /\ missed' = missed \cup {q \in Asked \ answer : \E p \in answer : p.id = q.id}
  /\ UNCHANGED <<serverVars, nowId, printed, pipe, rendererVars, sticky, crashes, lost>>

\* Mutant of AnswerError: nothing is asked for again.
MutAnswerError ==
  /\ fetcher = "waiting" /\ fetcher' = "stopped"
  /\ UNCHANGED <<serverVars, nowId, body, printed, pipe, rendererVars, sticky, crashes,
                 missed, lost>>

\* The same request is made again.
AnswerError ==
  /\ fetcher = "waiting" /\ fetcher' = "getOne"
  /\ UNCHANGED <<serverVars, nowId, body, printed, pipe, rendererVars, sticky, crashes,
                 missed, lost>>

\* Mutant of NextId: the next request is for what is posted from now on.
MutNextId(p) == clock - lag + 1

\* Mutant of NextId: the next request is for the last post again.
MutNextIdSame(p) == IF p.id > nowId THEN p.id ELSE nowId

NextId(p) == IF p.id + 1 > nowId THEN p.id + 1 ELSE nowId

\* A message is written to the pipe, which blocks while the pipe is full...
PrintPost ==
  /\ fetcher = "printing" /\ body # {} /\ ReadEnd /\ Len(pipe) < PipeSize
  /\ LET p == Oldest(body) IN
     /\ nowId' = NextId(p) /\ body' = body \ {p}
     /\ pipe' = Append(pipe, p) /\ printed' = printed \cup {p}
  /\ UNCHANGED <<serverVars, fetcher, rendererVars, sticky, crashes, missed, lost>>

PrintDone ==
  /\ fetcher = "printing" /\ body = {} /\ fetcher' = "getOne"
  /\ UNCHANGED <<serverVars, nowId, body, printed, pipe, rendererVars, sticky, crashes,
                 missed, lost>>

\* What is in the pipe goes when both its ends are closed.
FetcherDies ==
  /\ fetcher' = "down" /\ body' = {}
  /\ pipe' = IF ReadEnd THEN pipe ELSE <<>>
  /\ lost' = IF ReadEnd THEN lost ELSE lost \cup Elements(pipe)
  /\ UNCHANGED <<serverVars, nowId, printed, rendererVars, sticky, missed>>

\* ...and fails when there is no reader: the error of the stream is not handled.
BrokenPipe ==
  /\ fetcher = "printing" /\ body # {} /\ ~ReadEnd
  /\ FetcherDies /\ UNCHANGED crashes

\* An answer without a list is one way to die.
FetcherCrash ==
  /\ WriteEnd /\ crashes < MaxCrashes /\ crashes' = crashes + 1
  /\ FetcherDies

\* systemd starts it again, at least a millisecond later.
FetcherRestart ==
  /\ fetcher = "down" /\ fetcher' = "opening" /\ clock' = clock + 1
  /\ UNCHANGED <<lag, posts, nowId, body, printed, pipe, rendererVars, sticky, crashes,
                 missed, lost>>

\* The shell opens the pipe for writing, which waits for a reader.
FetcherOpen ==
  /\ fetcher = "opening" /\ ReadEnd /\ fetcher' = "booting"
  /\ UNCHANGED <<serverVars, nowId, body, printed, pipe, rendererVars, sticky, crashes,
                 missed, lost>>

\* nowId starts as the time of the board, once that is set.
FetcherBoot ==
  /\ fetcher = "booting" /\ clock >= ValidFrom + lag
  /\ fetcher' = "getOne" /\ nowId' = clock - lag
  /\ missed' = missed \cup {p \in posts \ printed : p.id < nowId'}
  /\ UNCHANGED <<serverVars, body, printed, pipe, rendererVars, sticky, crashes, lost>>

-----------------------------------------------------------------------------
(* The renderer. *)

\* fgets returns a line; stdio reads any number of them from the pipe at a time.
Fgets ==
  /\ renderer = "up" /\ ~eof
  /\ IF buffer # <<>>
     THEN /\ seen' = Append(seen, Head(buffer)) /\ buffer' = Tail(buffer)
          /\ UNCHANGED pipe
     ELSE /\ pipe # <<>>
          /\ \E k \in DOMAIN pipe :
               /\ seen' = Append(seen, Head(pipe))
               /\ buffer' = Tail(SubSeq(pipe, 1, k))
               /\ pipe' = SubSeq(pipe, k+1, Len(pipe))
  /\ UNCHANGED <<serverVars, fetcherVars, renderer, eof, sticky, crashes, missed, lost>>

\* Without a writer an empty pipe is at its end; it matters if the library keeps that.
FgetsEof ==
  /\ renderer = "up" /\ ~eof /\ buffer = <<>> /\ pipe = <<>> /\ ~WriteEnd
  /\ sticky /\ eof' = TRUE
  /\ UNCHANGED <<serverVars, fetcherVars, pipe, renderer, buffer, seen, sticky, crashes,
                 missed, lost>>

RendererCrash ==
  /\ ReadEnd /\ crashes < MaxCrashes /\ crashes' = crashes + 1
  /\ renderer' = "down" /\ buffer' = <<>> /\ eof' = FALSE
  /\ pipe' = IF WriteEnd THEN pipe ELSE <<>>
  /\ lost' = lost \cup Elements(buffer) \cup (IF WriteEnd THEN {} ELSE Elements(pipe))
  /\ UNCHANGED <<serverVars, fetcherVars, seen, sticky, missed>>

RendererRestart ==
  /\ renderer = "down" /\ renderer' = "opening"
  /\ UNCHANGED <<serverVars, fetcherVars, pipe, buffer, eof, seen, sticky, crashes, missed,
                 lost>>

RendererOpen ==
  /\ renderer = "opening" /\ WriteEnd /\ renderer' = "up"
  /\ UNCHANGED <<serverVars, fetcherVars, pipe, buffer, eof, seen, sticky, crashes, missed,
                 lost>>

-----------------------------------------------------------------------------

Init ==
  /\ clock = 0 /\ lag \in Lags /\ posts = {}
  /\ fetcher = "down" /\ nowId = 0 /\ body = {} /\ printed = {}
  /\ pipe = <<>>
  /\ renderer = "down" /\ buffer = <<>> /\ eof = FALSE /\ seen = <<>>
  /\ sticky \in BOOLEAN
  /\ crashes = 0 /\ missed = {} /\ lost = {}

Starting ==
  FetcherRestart \/ FetcherOpen \/ FetcherBoot \/ RendererRestart \/ RendererOpen

Next ==
  \/ Tick \/ Post
  \/ Request \/ Answer(FALSE) \/ AnswerError \/ PrintPost \/ PrintDone
  \/ BrokenPipe \/ FetcherCrash
  \/ Fgets \/ FgetsEof \/ RendererCrash
  \/ Starting

Spec == Init /\ [][Next]_vars

\* Both processes run, systemd starts them again, time passes, and the server comes to
\* give an answer with something in it.
FairSpec ==
  /\ Spec
  /\ WF_vars(Tick) /\ WF_vars(FetcherRestart \/ FetcherOpen \/ FetcherBoot)
  /\ WF_vars(RendererRestart \/ RendererOpen)
  /\ WF_vars(Request) /\ SF_vars(Answer(TRUE)) /\ WF_vars(PrintPost) /\ WF_vars(PrintDone)
  /\ WF_vars(BrokenPipe) /\ WF_vars(Fgets)
=============================================================================
