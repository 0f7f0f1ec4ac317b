--------------------------- MODULE FetcherProofs ---------------------------
(***************************************************************************)
(* Nothing is skipped and everything is in order, for any number of posts, *)
(* crashes and messages in the pipe.                                       *)
(***************************************************************************)
EXTENDS FetcherProperties, FiniteSetTheorems, WellFoundedInduction, TLAPS

-----------------------------------------------------------------------------
(* Sequences and the oldest of a set of posts. *)

LEMMA SeqMono ==
  ASSUME NEW S, NEW T, S \subseteq T, NEW s \in Seq(S)
  PROVE  s \in Seq(T)
  OBVIOUS

LEMMA SubSeqOf ==
  ASSUME NEW S, NEW s \in Seq(S), NEW m \in Nat \ {0}, NEW n \in 0 .. Len(s)
  PROVE  /\ SubSeq(s, m, n) \in Seq(S)
         /\ \A i \in DOMAIN SubSeq(s, m, n) :
              i + m - 1 \in DOMAIN s /\ SubSeq(s, m, n)[i] = s[i + m - 1]
  OBVIOUS

LEMMA TailOf ==
  ASSUME NEW S, NEW s \in Seq(S), s # <<>>
  PROVE  /\ Head(s) \in S /\ Head(s) = s[1] /\ 1 \in DOMAIN s
         /\ Tail(s) \in Seq(S)
         /\ \A i \in DOMAIN Tail(s) : i + 1 \in DOMAIN s /\ Tail(s)[i] = s[i + 1]
  OBVIOUS

LEMMA AppendOf ==
  ASSUME NEW S, NEW s \in Seq(S), NEW e \in S
  PROVE  /\ Append(s, e) \in Seq(S)
         /\ DOMAIN Append(s, e) = DOMAIN s \cup {Len(s) + 1}
         /\ Append(s, e)[Len(s) + 1] = e
         /\ \A i \in DOMAIN s : Append(s, e)[i] = s[i]
  OBVIOUS

LEMMA ElementsOf ==
  ASSUME NEW S, NEW s \in Seq(S)
  PROVE  Elements(s) \subseteq S
  BY DEF Elements

LEMMA LeastNat ==
  ASSUME NEW T, T \subseteq Nat, T # {}
  PROVE  \E m \in T : \A k \in T : m <= k
<1>1. PICK m \in T : \A k \in T : ~(<<k, m>> \in OpToRel(<, Nat))
  BY NatLessThanWellFounded, WFMin
<1>2. ASSUME NEW k \in T PROVE m <= k
  <2>1. m \in Nat /\ k \in Nat /\ <<k, m>> \in Nat \X Nat
    BY <1>2
  <2>2. ~(k < m)
    BY <1>1, <1>2, <2>1, Zenon DEF OpToRel
  <2> QED
    BY <2>1, <2>2
<1> QED
  BY <1>2

\* Posts are compared by their ids and, of one id, by their numbers.
LEMMA OldestIsFirst ==
  ASSUME NEW S, S \subseteq Posts, S # {}
  PROVE  Oldest(S) \in S /\ \A q \in S : Oldest(S) = q \/ Before(Oldest(S), q)
<1> DEFINE Ids == {p.id : p \in S}
<1>1. Ids \subseteq Nat /\ Ids # {}
  BY DEF Posts
<1>2. PICK m \in Ids : \A k \in Ids : m <= k
  BY <1>1, LeastNat
<1> DEFINE Ns == {p.n : p \in {r \in S : r.id = m}}
<1>3. Ns \subseteq Nat /\ Ns # {}
  BY <1>2 DEF Posts
<1>4. PICK n \in Ns : \A k \in Ns : n <= k
  BY <1>3, LeastNat
<1>5. PICK p \in S : p.id = m /\ p.n = n
  BY <1>4
<1>6. ASSUME NEW q \in S PROVE p = q \/ Before(p, q)
  <2>1. p \in Posts /\ q \in Posts /\ q.id \in Ids
    OBVIOUS
  <2>2. CASE q.id # m
    BY <1>2, <1>5, <2>1, <2>2 DEF Before, Posts
  <2>3. CASE q.id = m
    <3>1. q.n \in Ns
      BY <2>3
    <3>2. n <= q.n
      BY <3>1, <1>4
    <3>3. CASE q.n = n
      BY <1>5, <2>1, <2>3, <3>3 DEF Posts
    <3>4. CASE q.n # n
      BY <1>5, <2>1, <2>3, <3>2, <3>4 DEF Before, Posts
    <3> QED
      BY <3>3, <3>4
  <2> QED
    BY <2>2, <2>3
<1> QED
  BY <1>6 DEF Oldest

-----------------------------------------------------------------------------
(* Types. *)

Typed ==
  /\ TypeOK /\ IsFiniteSet(posts)
  /\ fetcher # "printing" => body = {}

LEMMA InitTyped == Init => Typed
<1> SUFFICES ASSUME Init PROVE Typed
  OBVIOUS
<1>1. IsFiniteSet(posts)
  BY FS_EmptySet DEF Init
<1>2. clock \in Nat /\ nowId \in Nat /\ crashes \in 0 .. MaxCrashes
  BY FetcherAssumption DEF Init
<1>3. pipe \in Seq(printed) /\ buffer \in Seq(printed) /\ seen \in Seq(printed)
  BY DEF Init
<1>4. posts \subseteq Posts /\ body \subseteq posts /\ printed \subseteq posts
  BY DEF Init
<1>5. lag \in Lags /\ sticky \in BOOLEAN /\ eof \in BOOLEAN
  BY Zenon DEF Init
<1> QED
  BY <1>1, <1>2, <1>3, <1>4, <1>5 DEF Init, Typed, TypeOK

LEMMA NextTyped ==
  ASSUME Typed, [Next]_vars
  PROVE  Typed'
<1> USE FetcherAssumption
<1> USE DEF Typed, TypeOK
<1>1. CASE Tick
  BY <1>1 DEF Tick, fetcherVars, rendererVars
<1>2. CASE Post
  <2>1. PICK id \in {clock, clock - 1} :
          /\ id \in Nat
          /\ posts' = posts \cup {[id |-> id, n |-> Cardinality(posts) + 1]}
          /\ missed' \subseteq missed \cup {[id |-> id, n |-> Cardinality(posts) + 1]}
    BY <1>2 DEF Post
  <2>2. [id |-> id, n |-> Cardinality(posts) + 1] \in Posts
    BY <2>1, FS_CardinalityType DEF Posts
  <2>3. IsFiniteSet(posts')
    <3> HIDE DEF TypeOK
    <3>1. IsFiniteSet(posts)
      OBVIOUS
    <3>2. IsFiniteSet(posts \cup {[id |-> id, n |-> Cardinality(posts) + 1]})
      BY <3>1, FS_AddElement
    <3> QED
      BY <2>1, <3>2
  <2> QED
    BY <1>2, <2>1, <2>2, <2>3 DEF Post, fetcherVars, rendererVars
<1>3. CASE Request
  BY <1>3 DEF Request, serverVars, rendererVars
<1>4. CASE Answer(FALSE)
  BY <1>4 DEF Answer, Asked, serverVars, rendererVars
<1>5. CASE AnswerError
  BY <1>5 DEF AnswerError, serverVars, rendererVars
<1>6. CASE PrintPost
  <2> DEFINE p == Oldest(body)
  <2>1. p \in body /\ p \in posts /\ p \in Posts
    BY <1>6, OldestIsFirst DEF PrintPost
  <2>2. nowId' \in Nat
    BY <1>6, <2>1 DEF PrintPost, NextId, Posts
  <2>3. printed' \subseteq posts /\ printed \subseteq printed' /\ p \in printed'
    BY <1>6, <2>1 DEF PrintPost
  <2>4. pipe' \in Seq(printed')
    <3>1. pipe \in Seq(printed') /\ pipe' = Append(pipe, p)
      BY <1>6, <2>3, SeqMono DEF PrintPost
    <3> QED
      BY <3>1, <2>3, AppendOf
  <2>5. buffer' \in Seq(printed') /\ seen' \in Seq(printed')
    BY <1>6, <2>3, SeqMono DEF PrintPost, rendererVars
  <2> QED
    BY <1>6, <2>2, <2>3, <2>4, <2>5 DEF PrintPost, serverVars, rendererVars
<1>7. CASE PrintDone
  BY <1>7 DEF PrintDone, serverVars, rendererVars
<1>8. ASSUME FetcherDies, crashes' \in 0 .. MaxCrashes PROVE Typed'
  <2>1. pipe' \in Seq(printed) /\ lost' \subseteq printed
    BY <1>8, ElementsOf DEF FetcherDies
  <2> QED
    BY <1>8, <2>1 DEF FetcherDies, serverVars, rendererVars
<1>9. CASE BrokenPipe
  BY <1>8, <1>9 DEF BrokenPipe
<1>10. CASE FetcherCrash
  BY <1>8, <1>10 DEF FetcherCrash
<1>11. CASE Fgets
  <2>1. buffer' \in Seq(printed) /\ pipe' \in Seq(printed) /\ seen' \in Seq(printed)
    <3>1. CASE buffer # <<>>
      <4>1. Head(buffer) \in printed /\ Tail(buffer) \in Seq(printed)
        BY <3>1, TailOf, Zenon
      <4>2. Append(seen, Head(buffer)) \in Seq(printed)
        BY <4>1, AppendOf, Zenon
      <4> QED
        BY <1>11, <3>1, <4>1, <4>2 DEF Fgets
    <3>2. CASE buffer = <<>>
      <4>1. PICK k \in DOMAIN pipe :
              /\ seen' = Append(seen, Head(pipe))
              /\ buffer' = Tail(SubSeq(pipe, 1, k))
              /\ pipe' = SubSeq(pipe, k+1, Len(pipe))
        BY <1>11, <3>2 DEF Fgets
      <4>2. pipe # <<>> /\ k \in 1 .. Len(pipe)
        BY <1>11, <3>2 DEF Fgets
      <4>3. SubSeq(pipe, 1, k) \in Seq(printed) /\ SubSeq(pipe, 1, k) # <<>>
        BY <4>2, SubSeqOf
      <4> QED
        <5>1. Head(pipe) \in printed /\ Tail(SubSeq(pipe, 1, k)) \in Seq(printed)
          BY <4>2, <4>3, TailOf, Zenon
        <5>2. Append(seen, Head(pipe)) \in Seq(printed)
          BY <5>1, AppendOf, Zenon
        <5>3. SubSeq(pipe, k+1, Len(pipe)) \in Seq(printed)
          BY <4>2, k+1 \in Nat \ {0}, Len(pipe) \in 0 .. Len(pipe), SubSeqOf
        <5> QED
          BY <4>1, <5>1, <5>2, <5>3
    <3> QED
      BY <3>1, <3>2
  <2> QED
    BY <1>11, <2>1 DEF Fgets, serverVars, fetcherVars
<1>12. CASE FgetsEof
  BY <1>12 DEF FgetsEof, serverVars, fetcherVars
<1>13. CASE RendererCrash
  <2>1. /\ pipe' \in Seq(printed) /\ lost' \subseteq printed
        /\ buffer' \in Seq(printed) /\ crashes' \in 0 .. MaxCrashes
    BY <1>13, ElementsOf DEF RendererCrash
  <2> QED
    BY <1>13, <2>1 DEF RendererCrash, serverVars, fetcherVars
<1>14. CASE FetcherRestart
  BY <1>14 DEF FetcherRestart, rendererVars
<1>15. CASE FetcherOpen
  BY <1>15 DEF FetcherOpen, serverVars, rendererVars
<1>16. CASE FetcherBoot
  <2>1. nowId' \in Nat /\ missed' \subseteq posts
    BY <1>16 DEF FetcherBoot
  <2> QED
    BY <1>16, <2>1 DEF FetcherBoot, serverVars, rendererVars
<1>17. CASE RendererRestart
  BY <1>17 DEF RendererRestart, serverVars, fetcherVars
<1>18. CASE RendererOpen
  BY <1>18 DEF RendererOpen, serverVars, fetcherVars
<1>19. CASE UNCHANGED vars
  BY <1>19 DEF vars, serverVars, fetcherVars, rendererVars
<1> QED
  BY <1>1, <1>2, <1>3, <1>4, <1>5, <1>6, <1>7, <1>9, <1>10, <1>11, <1>12, <1>13, <1>14,
     <1>15, <1>16, <1>17, <1>18, <1>19 DEF Next, Starting

\* The variables of server, fetcher, pipe and renderer keep their types.
THEOREM TypeCorrect == Spec => []TypeOK
<1>1. Spec => []Typed
  BY InitTyped, NextTyped, PTL DEF Spec
<1> QED
  BY <1>1, PTL DEF Typed
-----------------------------------------------------------------------------
(* Nothing is skipped. *)

Accounted(p) == p \in printed \cup body \cup missed

NoGap ==
  /\ NothingSkipped
  /\ \A p \in body, q \in posts : q.id <= p.id => Accounted(q)

LEMMA NextNoGap ==
  ASSUME Typed, NoGap, [Next]_vars
  PROVE  NoGap'
<1> USE DEF NoGap, NothingSkipped, Running, Accounted
<1>0. /\ body \subseteq posts /\ posts \subseteq Posts /\ nowId \in Nat
      /\ fetcher # "printing" => body = {}
  BY DEF Typed, TypeOK
<1>1. CASE Tick
  BY <1>1 DEF Tick, fetcherVars
<1>2. CASE Post
  <2>1. PICK p :
          /\ posts' = posts \cup {p}
          /\ missed' = IF Answered(p.id) THEN missed \cup {p} ELSE missed
    <3>1. PICK id \in {clock, clock - 1} :
            LET p == [id |-> id, n |-> Cardinality(posts) + 1] IN
            /\ id \in Nat /\ posts' = posts \cup {p}
            /\ missed' = IF Answered(id) THEN missed \cup {p} ELSE missed
      BY <1>2, Zenon DEF Post
    <3> DEFINE p == [id |-> id, n |-> Cardinality(posts) + 1]
    <3>2. p.id = id
      OBVIOUS
    <3> QED
      BY <3>1, <3>2
  <2>2. UNCHANGED <<fetcher, nowId, body, printed>>
    BY <1>2 DEF Post, fetcherVars
  <2>3. missed \subseteq missed'
    BY <2>1
  <2>4. p.id < nowId \/ (\E r \in body : p.id <= r.id) => p \in missed'
    BY <2>1 DEF Answered
  <2> QED
    BY <2>1, <2>2, <2>3, <2>4
<1>3. CASE Request
  BY <1>3 DEF Request, serverVars
<1>4. CASE Answer(FALSE)
  <2>1. PICK answer \in SUBSET Asked :
          /\ \A p \in answer, q \in Asked \ answer : Before(p, q)
          /\ body' = answer
          /\ missed' = missed \cup {q \in Asked \ answer : \E p \in answer : p.id = q.id}
    BY <1>4 DEF Answer
  <2>2. UNCHANGED <<posts, nowId, printed>> /\ fetcher = "waiting" /\ body = {}
    BY <1>0, <1>4 DEF Answer, serverVars
  <2>3. ASSUME NEW p \in posts, p.id < nowId PROVE Accounted(p)'
    BY <2>1, <2>2, <2>3
  <2>4. ASSUME NEW p \in body', NEW q \in posts, q.id <= p.id PROVE Accounted(q)'
    <3>1. CASE q.id < nowId
      BY <2>3, <3>1
    <3>2. CASE q \in Asked \ answer
      <4>1. Before(p, q) /\ p \in Posts /\ q \in Posts
        BY <1>0, <2>1, <2>4, <3>2 DEF Asked
      <4>2. p.id = q.id
        BY <2>4, <4>1 DEF Before, Posts
      <4> QED
        BY <2>1, <2>4, <3>2, <4>2
    <3>3. CASE q \in answer
      BY <2>1, <3>3
    <3> QED
      BY <1>0, <3>1, <3>2, <3>3 DEF Asked, Posts
  <2> QED
    BY <2>2, <2>3, <2>4
<1>5. CASE AnswerError
  BY <1>5 DEF AnswerError, serverVars
<1>6. CASE PrintPost
  <2> DEFINE p == Oldest(body)
  <2>1. p \in body /\ p \in posts /\ p \in Posts
    BY <1>0, <1>6, OldestIsFirst DEF PrintPost
  <2>2. /\ nowId' = NextId(p) /\ body' = body \ {p} /\ printed' = printed \cup {p}
        /\ UNCHANGED <<posts, missed, fetcher>> /\ fetcher = "printing"
    BY <1>6 DEF PrintPost, serverVars
  <2>3. ASSUME NEW q \in posts, q.id < nowId' PROVE Accounted(q)'
    <3>1. q.id < nowId \/ q.id <= p.id
      BY <1>0, <2>1, <2>2, <2>3 DEF NextId, Posts
    <3>2. Accounted(q)
      BY <2>1, <2>2, <3>1
    <3> QED
      BY <2>1, <2>2, <3>2
  <2>4. ASSUME NEW r \in body', NEW q \in posts, q.id <= r.id PROVE Accounted(q)'
    BY <2>2, <2>4
  <2> QED
    BY <2>2, <2>3, <2>4
<1>7. CASE PrintDone
  BY <1>7 DEF PrintDone, serverVars
<1>8. CASE BrokenPipe
  BY <1>8 DEF BrokenPipe, FetcherDies
<1>9. CASE FetcherCrash
  BY <1>9 DEF FetcherCrash, FetcherDies
<1>10. CASE Fgets \/ FgetsEof \/ RendererCrash \/ RendererRestart \/ RendererOpen
  BY <1>10 DEF Fgets, FgetsEof, RendererCrash, RendererRestart, RendererOpen, serverVars,
               fetcherVars
<1>11. CASE FetcherRestart
  BY <1>0, <1>11 DEF FetcherRestart
<1>12. CASE FetcherOpen
  BY <1>0, <1>12 DEF FetcherOpen, serverVars
<1>13. CASE FetcherBoot
  BY <1>0, <1>13 DEF FetcherBoot, serverVars
<1>14. CASE UNCHANGED vars
  BY <1>14 DEF vars, serverVars, fetcherVars
<1> QED
  BY <1>1, <1>2, <1>3, <1>4, <1>5, <1>6, <1>7, <1>8, <1>9, <1>10, <1>11, <1>12, <1>13,
     <1>14 DEF Next, Starting

\* What nowId passes has been printed, is about to be, or is one of the posts that the
\* fetcher cannot see: whatever the answers are and wherever the processes crash.
THEOREM NeverSkipped == Spec => []NothingSkipped
<1>1. Init => NoGap
  BY DEF Init, NoGap, NothingSkipped, Running
<1>2. Spec => [](Typed /\ NoGap)
  BY <1>1, InitTyped, NextTyped, NextNoGap, PTL DEF Spec
<1> QED
  BY <1>2, PTL DEF NoGap
-----------------------------------------------------------------------------
(* Everything is in order, if the clock of the board is not behind. *)

Sorted(s) == \A i, j \in DOMAIN s : i < j => Before(s[i], s[j])
AllBefore(s, t) == \A i \in DOMAIN s, j \in DOMAIN t : Before(s[i], t[j])

\* What has been printed comes before what will be.
Progress ==
  /\ \A p \in printed, q \in body : Before(p, q)
  /\ Running => \A p \in printed : p.id < nowId
  /\ \A p \in posts : p.id <= clock
  /\ fetcher \in {"opening", "booting"} => \A p \in printed : p.id < clock

\* On their way through the pipe the posts are in order.
Way ==
  /\ Sorted(seen) /\ Sorted(buffer) /\ Sorted(pipe)
  /\ AllBefore(seen, buffer) /\ AllBefore(seen, pipe) /\ AllBefore(buffer, pipe)

\* A part of a sequence in order.
LEMMA PartInOrder ==
  ASSUME NEW S, NEW t \in Seq(S), NEW m \in Nat \ {0}, NEW n \in 0 .. Len(t), Sorted(t)
  PROVE  /\ Sorted(SubSeq(t, m, n))
         /\ \A s : AllBefore(s, t) => AllBefore(s, SubSeq(t, m, n))
<1> DEFINE u == SubSeq(t, m, n)
<1>1. /\ u \in Seq(S)
      /\ \A i \in DOMAIN u : i + m - 1 \in DOMAIN t /\ u[i] = t[i + m - 1]
  BY SubSeqOf
<1>2. ASSUME NEW i \in DOMAIN u, NEW j \in DOMAIN u, i < j PROVE Before(u[i], u[j])
  <2>1. i \in Nat /\ j \in Nat /\ i + m - 1 < j + m - 1
    BY <1>1, <1>2
  <2> QED
    BY <1>1, <2>1 DEF Sorted
<1>3. ASSUME NEW s, AllBefore(s, t) PROVE AllBefore(s, u)
  BY <1>1, <1>3 DEF AllBefore
<1> HIDE DEF u
<1> QED
  BY <1>2, <1>3 DEF Sorted, u

\* The two parts of a sequence in order.
LEMMA SplitInOrder ==
  ASSUME NEW S, NEW t \in Seq(S), NEW k \in 1 .. Len(t), Sorted(t)
  PROVE  AllBefore(SubSeq(t, 1, k), SubSeq(t, k+1, Len(t)))
<1> DEFINE u == SubSeq(t, 1, k)  v == SubSeq(t, k+1, Len(t))
<1>1. /\ DOMAIN u = 1 .. k /\ \A i \in DOMAIN u : u[i] = t[i] /\ i \in DOMAIN t
  OBVIOUS
<1>2. \A j \in DOMAIN v : j \in Nat \ {0} /\ v[j] = t[j + k] /\ j + k \in DOMAIN t
  OBVIOUS
<1>3. ASSUME NEW i \in DOMAIN u, NEW j \in DOMAIN v PROVE Before(u[i], v[j])
  <2>1. i < j + k
    BY <1>1, <1>2
  <2> QED
    BY <1>1, <1>2, <2>1 DEF Sorted
<1> HIDE DEF u, v
<1> QED
  BY <1>3 DEF AllBefore, u, v

\* The first post of what is between moves to the end of what comes first.
LEMMA HeadMoves ==
  ASSUME NEW S, NEW s \in Seq(S), NEW t \in Seq(S), NEW r \in Seq(S), t # <<>>,
         Sorted(s), Sorted(t), AllBefore(s, t), AllBefore(s, r), AllBefore(t, r)
  PROVE  /\ Sorted(Append(s, Head(t))) /\ Sorted(Tail(t))
         /\ AllBefore(Append(s, Head(t)), Tail(t)) /\ AllBefore(Append(s, Head(t)), r)
         /\ AllBefore(Tail(t), r)
         /\ s # <<>> => Before(s[Len(s)], Head(t))
<1> DEFINE a == Append(s, Head(t))  u == Tail(t)
<1>1. /\ Head(t) \in S /\ Head(t) = t[1] /\ 1 \in DOMAIN t /\ u \in Seq(S)
      /\ \A i \in DOMAIN u : i + 1 \in DOMAIN t /\ u[i] = t[i + 1]
  BY TailOf
<1>2. /\ DOMAIN a = DOMAIN s \cup {Len(s) + 1} /\ a[Len(s) + 1] = t[1]
      /\ \A i \in DOMAIN s : a[i] = s[i]
  BY <1>1, AppendOf
<1>3. DOMAIN s = 1 .. Len(s) /\ Len(s) \in Nat /\ \A i \in DOMAIN u : i \in Nat \ {0}
  BY <1>1
<1> HIDE DEF a, u
<1>4. ASSUME NEW i \in DOMAIN a, NEW j \in DOMAIN a, i < j PROVE Before(a[i], a[j])
  <2>1. i \in DOMAIN s
    BY <1>2, <1>3, <1>4
  <2>2. CASE j \in DOMAIN s
    BY <1>2, <1>4, <2>1, <2>2 DEF Sorted
  <2>3. CASE j = Len(s) + 1
    BY <1>1, <1>2, <2>1, <2>3 DEF AllBefore
  <2> QED
    BY <1>2, <2>2, <2>3
<1>5. ASSUME NEW i \in DOMAIN u, NEW j \in DOMAIN u, i < j PROVE Before(u[i], u[j])
  <2>1. i + 1 < j + 1
    BY <1>3, <1>5
  <2> QED
    BY <1>1, <2>1 DEF Sorted
<1>6. ASSUME NEW i \in DOMAIN a, NEW j \in DOMAIN u PROVE Before(a[i], u[j])
  <2>1. CASE i \in DOMAIN s
    BY <1>1, <1>2, <2>1 DEF AllBefore
  <2>2. CASE i = Len(s) + 1
    <3>1. 1 < j + 1
      BY <1>3
    <3> QED
      BY <1>1, <1>2, <2>2, <3>1 DEF Sorted
  <2> QED
    BY <1>2, <2>1, <2>2
<1>7. AllBefore(a, r)
  BY <1>1, <1>2 DEF AllBefore
<1>8. AllBefore(u, r)
  BY <1>1 DEF AllBefore
<1>9. s # <<>> => Before(s[Len(s)], Head(t))
  <2>1. s # <<>> => Len(s) \in DOMAIN s
    OBVIOUS
  <2> QED
    BY <1>1, <2>1 DEF AllBefore
<1> QED
  BY <1>4, <1>5, <1>6, <1>7, <1>8, <1>9 DEF Sorted, AllBefore, a, u

\* A fetcher that boots takes the server's time for its nowId.
NowIdIsClock == FetcherBoot => nowId' = clock

LEMMA BootTime ==
  ASSUME Typed, lag = 0
  PROVE  NowIdIsClock
  BY DEF Typed, TypeOK, NowIdIsClock, FetcherBoot

LEMMA NextProgress ==
  ASSUME Typed, Progress, [Next]_vars, NowIdIsClock
  PROVE  Progress'
<1> USE DEF Progress, Running
<1>0. /\ body \subseteq posts /\ printed \subseteq posts /\ posts \subseteq Posts
      /\ clock \in Nat /\ nowId \in Nat
      /\ fetcher # "printing" => body = {}
  BY DEF Typed, TypeOK
<1>00. \A p \in posts : p.id \in Nat /\ p.n \in Nat /\ p.id <= clock
  BY <1>0 DEF Posts
<1>1. CASE Tick
  <2>1. UNCHANGED <<posts, fetcher, nowId, body, printed>> /\ clock' = clock + 1
    BY <1>1 DEF Tick, fetcherVars
  <2>2. ASSUME NEW p \in posts PROVE p.id <= clock' /\ (p.id < clock => p.id < clock')
    <3>1. p.id \in Nat /\ p.id <= clock
      BY <1>00
    <3> QED
      BY <1>0, <2>1, <3>1
  <2> QED
    BY <1>0, <2>1, <2>2
<1>2. CASE Post
  <2>1. PICK id \in {clock, clock - 1} :
          posts' = posts \cup {[id |-> id, n |-> Cardinality(posts) + 1]}
    BY <1>2, Zenon DEF Post
  <2>2. UNCHANGED <<clock, fetcher, nowId, body, printed>>
    BY <1>2 DEF Post, fetcherVars
  <2>3. ASSUME NEW p \in posts' PROVE p.id <= clock
    <3>1. CASE p \in posts
      BY <1>00, <3>1
    <3>2. CASE p = [id |-> id, n |-> Cardinality(posts) + 1]
      <4>1. p.id = id
        BY <3>2
      <4> QED
        BY <1>0, <4>1
    <3> QED
      BY <2>1, <3>1, <3>2
  <2> QED
    BY <2>2, <2>3
<1>3. CASE Request
  BY <1>0, <1>3 DEF Request, serverVars
<1>4. CASE Answer(FALSE)
  <2>1. UNCHANGED <<clock, posts, nowId, printed>> /\ fetcher = "waiting" /\ fetcher' = "printing"
    BY <1>4 DEF Answer, serverVars
  <2>2. body' \subseteq Asked
    BY <1>4 DEF Answer
  <2>3. ASSUME NEW p \in printed, NEW q \in body' PROVE Before(p, q)
    <3>1. p.id < nowId
      BY <2>1
    <3>2. q \in posts /\ q.id >= nowId
      BY <2>2 DEF Asked
    <3>3. p.id \in Nat /\ q.id \in Nat
      BY <1>0, <1>00, <3>2
    <3> QED
      BY <1>0, <3>1, <3>2, <3>3 DEF Before
  <2> QED
    BY <2>1, <2>3
<1>5. CASE AnswerError
  BY <1>0, <1>5 DEF AnswerError, serverVars
<1>6. CASE PrintPost
  <2> DEFINE p == Oldest(body)
  <2>1. p \in body /\ p \in Posts /\ \A q \in body : p = q \/ Before(p, q)
    BY <1>0, <1>6, OldestIsFirst DEF PrintPost
  <2>2. /\ nowId' = NextId(p) /\ body' = body \ {p} /\ printed' = printed \cup {p}
        /\ UNCHANGED <<posts, clock, fetcher>> /\ fetcher = "printing"
    BY <1>6 DEF PrintPost, serverVars
  <2>3. \A r \in printed', q \in body' : Before(r, q)
    BY <2>1, <2>2
  <2>4. ASSUME NEW r \in printed' PROVE r.id < nowId'
    <3>1. CASE r = p
      <4> QED
        BY <1>0, <2>1, <2>2, <3>1 DEF NextId, Posts
    <3>2. CASE r \in printed
      <4>1. r.id < nowId
        BY <2>2, <3>2
      <4>2. r.id \in Nat /\ p.id \in Nat
        BY <1>0, <1>00, <2>1, <3>2
      <4> QED
        BY <1>0, <2>2, <4>1, <4>2 DEF NextId
    <3> QED
      BY <2>2, <3>1, <3>2
  <2> QED
    BY <2>2, <2>3, <2>4
<1>7. CASE PrintDone
  BY <1>0, <1>7 DEF PrintDone, serverVars
<1>8. CASE BrokenPipe
  BY <1>8 DEF BrokenPipe, FetcherDies, serverVars
<1>9. CASE FetcherCrash
  BY <1>9 DEF FetcherCrash, FetcherDies, serverVars
<1>10. CASE Fgets \/ FgetsEof \/ RendererCrash \/ RendererRestart \/ RendererOpen
  BY <1>10 DEF Fgets, FgetsEof, RendererCrash, RendererRestart, RendererOpen, serverVars,
               fetcherVars
<1>11. CASE FetcherRestart
  <2>1. UNCHANGED <<posts, nowId, body, printed>> /\ clock' = clock + 1 /\ fetcher' = "opening"
    BY <1>11 DEF FetcherRestart
  <2>2. ASSUME NEW p \in posts PROVE p.id <= clock' /\ p.id < clock'
    <3>1. p.id \in Nat /\ p.id <= clock
      BY <1>00
    <3> QED
      BY <1>0, <2>1, <3>1
  <2> QED
    BY <1>0, <2>1, <2>2
<1>12. CASE FetcherOpen
  BY <1>0, <1>12 DEF FetcherOpen, serverVars
<1>13. CASE FetcherBoot
  <2>1. /\ UNCHANGED <<clock, posts, body, printed>> /\ fetcher' = "getOne" /\ fetcher = "booting"
        /\ nowId' = clock
    BY <1>0, <1>13 DEF NowIdIsClock, FetcherBoot, serverVars
  <2> QED
    BY <2>1
<1>14. CASE UNCHANGED vars
  BY <1>14 DEF vars, serverVars, fetcherVars
<1> QED
  BY <1>1, <1>2, <1>3, <1>4, <1>5, <1>6, <1>7, <1>8, <1>9, <1>10, <1>11, <1>12, <1>13,
     <1>14 DEF Next, Starting

LEMMA LagStays ==
  ASSUME [Next]_vars
  PROVE  lag' = lag
  BY DEF Next, Starting, Tick, Post, Request, Answer, AnswerError, PrintPost, PrintDone,
         BrokenPipe, FetcherCrash, FetcherDies, Fgets, FgetsEof, RendererCrash,
         FetcherRestart, FetcherOpen, FetcherBoot, RendererRestart, RendererOpen, vars,
         serverVars

LEMMA SeenByFgets ==
  ASSUME [Next]_vars, seen' # seen
  PROVE  Fgets
  BY DEF Next, Starting, Tick, Post, Request, Answer, AnswerError, PrintPost, PrintDone,
         BrokenPipe, FetcherCrash, FetcherDies, FgetsEof, RendererCrash,
         FetcherRestart, FetcherOpen, FetcherBoot, RendererRestart, RendererOpen, vars,
         rendererVars

LEMMA FgetsMoves ==
  ASSUME pipe \in Seq(printed), buffer \in Seq(printed), seen \in Seq(printed), Way, Fgets
  PROVE  Way' /\ (seen # <<>> => Before(seen[Len(seen)], seen'[Len(seen')]))
<1> USE DEF Way
<1>1. ASSUME NEW first \in Seq(printed), NEW rest \in Seq(printed), first # <<>>,
             Sorted(first), Sorted(rest),
             AllBefore(seen, first), AllBefore(seen, rest), AllBefore(first, rest),
             seen' = Append(seen, Head(first)), buffer' = Tail(first), pipe' = rest
      PROVE  Way' /\ (seen # <<>> => Before(seen[Len(seen)], seen'[Len(seen')]))
  <2>1. seen'[Len(seen')] = Head(first)
    <3>1. Head(first) \in printed
      BY <1>1, TailOf
    <3> QED
      BY <1>1, <3>1
  <2> QED
    BY <1>1, <2>1, HeadMoves
<1>2. CASE buffer # <<>>
  BY <1>1, <1>2 DEF Fgets
<1>3. CASE buffer = <<>>
  <2>1. PICK k \in DOMAIN pipe :
          /\ seen' = Append(seen, Head(pipe))
          /\ buffer' = Tail(SubSeq(pipe, 1, k))
          /\ pipe' = SubSeq(pipe, k+1, Len(pipe))
    BY <1>3 DEF Fgets
  <2> DEFINE first == SubSeq(pipe, 1, k)  rest == SubSeq(pipe, k+1, Len(pipe))
  <2>2. k \in 1 .. Len(pipe) /\ k + 1 \in Nat \ {0} /\ Len(pipe) \in 0 .. Len(pipe)
    OBVIOUS
  <2>3. first \in Seq(printed) /\ first # <<>> /\ Head(first) = Head(pipe)
    BY <2>2
  <2>4. rest \in Seq(printed)
    BY <2>2, SubSeqOf
  <2>5. Sorted(first) /\ AllBefore(seen, first)
    BY <2>2, PartInOrder
  <2>6. Sorted(rest) /\ AllBefore(seen, rest)
    BY <2>2, PartInOrder
  <2>7. AllBefore(first, rest)
    BY <2>2, SplitInOrder
  <2> HIDE DEF first, rest
  <2>8. seen' = Append(seen, Head(first)) /\ buffer' = Tail(first) /\ pipe' = rest
    BY <2>1, <2>3 DEF first, rest
  <2> QED
    BY <1>1, <2>3, <2>4, <2>5, <2>6, <2>7, <2>8
<1> QED
  BY <1>2, <1>3

LEMMA NextWay ==
  ASSUME Typed, Progress, Way, [Next]_vars
  PROVE  Way'
<1> USE DEF Way
<1>0. /\ body \subseteq posts /\ posts \subseteq Posts
      /\ pipe \in Seq(printed) /\ buffer \in Seq(printed) /\ seen \in Seq(printed)
  BY DEF Typed, TypeOK
<1>1. CASE PrintPost
  <2> DEFINE p == Oldest(body)
  <2>1. p \in body
    BY <1>0, <1>1, OldestIsFirst DEF PrintPost
  <2>2. pipe' = Append(pipe, p) /\ UNCHANGED <<buffer, seen>>
    BY <1>1 DEF PrintPost, rendererVars
  <2>3. ASSUME NEW s \in Seq(printed), NEW i \in DOMAIN s PROVE Before(s[i], p)
    BY <2>1 DEF Progress
  <2>4. /\ DOMAIN pipe' = DOMAIN pipe \cup {Len(pipe) + 1} /\ pipe'[Len(pipe) + 1] = p
        /\ \A i \in DOMAIN pipe : pipe'[i] = pipe[i]
    <3>1. pipe \in Seq(printed \cup {p})
      BY <1>0, SeqMono
    <3> QED
      BY <2>2, <3>1, AppendOf
  <2>5. Sorted(pipe')
    <3> SUFFICES ASSUME NEW i \in DOMAIN pipe', NEW j \in DOMAIN pipe', i < j
        PROVE  Before(pipe'[i], pipe'[j])
      BY DEF Sorted
    <3>1. i \in DOMAIN pipe
      BY <1>0, <2>4
    <3> QED
      BY <1>0, <2>3, <2>4, <3>1 DEF Sorted
  <2>6. AllBefore(seen, pipe') /\ AllBefore(buffer, pipe')
    BY <1>0, <2>3, <2>4 DEF AllBefore
  <2> QED
    BY <2>2, <2>5, <2>6
<1>2. CASE Fgets
  BY <1>0, <1>2, FgetsMoves
<1>3. ASSUME FetcherDies PROVE Way'
  BY <1>3 DEF FetcherDies, rendererVars, Sorted, AllBefore
<1>4. CASE BrokenPipe \/ FetcherCrash
  BY <1>3, <1>4 DEF BrokenPipe, FetcherCrash
<1>5. CASE RendererCrash
  BY <1>5 DEF RendererCrash, Sorted, AllBefore
<1>6. CASE Tick \/ Post \/ FetcherRestart
  BY <1>6 DEF Tick, Post, FetcherRestart, rendererVars
<1>7. CASE Request \/ Answer(FALSE) \/ AnswerError \/ PrintDone
  BY <1>7 DEF Request, Answer, AnswerError, PrintDone, rendererVars
<1>8. CASE FetcherOpen \/ FetcherBoot
  BY <1>8 DEF FetcherOpen, FetcherBoot, rendererVars
<1>9. CASE FgetsEof \/ RendererRestart \/ RendererOpen
  BY <1>9 DEF FgetsEof, RendererRestart, RendererOpen
<1>10. CASE UNCHANGED vars
  BY <1>10 DEF vars, rendererVars
<1> QED
  BY <1>1, <1>2, <1>4, <1>5, <1>6, <1>7, <1>8, <1>9, <1>10 DEF Next, Starting

InOrderInv == Typed /\ (lag = 0 => Progress /\ Way)

\* With a clock that is not behind, fgets returns the posts in their order, none twice,
\* for any number of crashes and restarts of both processes.
THEOREM AlwaysInOrder == Spec => InOrder
<1>1. Init => InOrderInv
  <2> SUFFICES ASSUME Init PROVE Progress /\ Way
    BY InitTyped DEF InOrderInv
  <2> QED
    BY DEF Init, Progress, Way, Running, Sorted, AllBefore
<1>2. InOrderInv /\ [Next]_vars => InOrderInv'
  <2> SUFFICES ASSUME InOrderInv, [Next]_vars PROVE InOrderInv'
    OBVIOUS
  <2>1. lag' = lag
    BY LagStays
  <2>2. Typed' /\ (lag = 0 => NowIdIsClock)
    BY NextTyped, BootTime DEF InOrderInv
  <2>3. lag = 0 => Progress' /\ Way'
    BY <2>2, NextProgress, NextWay DEF InOrderInv
  <2> QED
    BY <2>1, <2>2, <2>3 DEF InOrderInv
<1> DEFINE Step ==
      lag = 0 /\ seen # <<>> /\ seen' # seen => Before(seen[Len(seen)], seen'[Len(seen')])
<1>3. InOrderInv /\ [Next]_vars => [Step]_vars
  <2> SUFFICES ASSUME InOrderInv, [Next]_vars, lag = 0, seen # <<>>, seen' # seen
      PROVE  Before(seen[Len(seen)], seen'[Len(seen')])
    OBVIOUS
  <2>1. Fgets
    BY SeenByFgets
  <2> QED
    BY <2>1, FgetsMoves DEF InOrderInv, Typed, TypeOK
<1>4. Spec => [][Step]_vars
  BY <1>1, <1>2, <1>3, PTL DEF Spec
<1> QED
  BY <1>4 DEF InOrder
=============================================================================
