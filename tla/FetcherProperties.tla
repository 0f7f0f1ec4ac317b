-------------------------- MODULE FetcherProperties --------------------------
(***************************************************************************)
(* What becomes of the posts.                                              *)
(***************************************************************************)
EXTENDS Fetcher

TypeOK ==
  /\ clock \in Nat /\ lag \in Lags /\ posts \subseteq Posts
  /\ fetcher \in {"down", "opening", "booting", "getOne", "waiting", "printing"}
  /\ nowId \in Nat /\ body \subseteq posts /\ printed \subseteq posts
  /\ pipe \in Seq(printed) /\ buffer \in Seq(printed) /\ seen \in Seq(printed)
  /\ renderer \in {"down", "opening", "up"}
  /\ sticky \in BOOLEAN /\ eof \in BOOLEAN /\ crashes \in 0 .. MaxCrashes
  /\ missed \subseteq posts /\ lost \subseteq printed

\* The fetcher has set its nowId.
Running == fetcher \in {"getOne", "waiting", "printing"}

\* However the answers are cut and however often a request is repeated, nowId passes no
\* post but those published late, those with the id of one that was answered, and those
\* of the time before this start of the fetcher.
NothingSkipped ==
  Running => \A p \in posts : p.id < nowId => p \in printed \cup body \cup missed

\* With a clock that is not behind the server's, fgets returns the posts in their
\* order and none twice, over every crash of the two processes.
InOrder ==
  [][lag = 0 /\ seen # <<>> /\ seen' # seen =>
       Before(seen[Len(seen)], seen'[Len(seen')])]_vars

\* Every post comes to the renderer, unless the fetcher has passed it over or a crash
\* dropped it, or the C library holds on to an end of file that a start of the fetcher
\* has left.
Delivered ==
  \A n \in 1 .. MaxPosts :
    (\E p \in posts : p.n = n)
      ~> eof \/ \E p \in missed \cup lost \cup Elements(seen) : p.n = n
=============================================================================
