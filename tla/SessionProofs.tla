--------------------------- MODULE SessionProofs ---------------------------
(***************************************************************************)
(* Proofs about pausing, failing and leaving a song, for layers that fade  *)
(* as slowly and countdowns that are as long as one likes.                 *)
(*                                                                         *)
(* A handler is a composition of calls on a world, a view with a game, and *)
(* so is its proof: each call makes a good world of a good one.  A world   *)
(* is good if no layer or listener is twice in its list (list.remove takes *)
(* out the first only, and the menu would go on hearing keys or fade for   *)
(* ever), if a menu that is up is among the listeners, and if the song     *)
(* sounds as the game says.  The last is inductive only with what is never *)
(* said in the code: the fail message is counted only after failing.       *)
(***************************************************************************)
EXTENDS Session, SequenceTheorems, WellFoundedInduction, TLAPS

\* A view whose lists are in order.
Shaped(v) == v \in View /\ Listed(v) /\ \A l \in Layers : v.visibility[l] <= settings.transition

Hears(v) == \A m \in Menus : Up(v, m) => Contains(v.listeners, m)

\* A game whose song sounds as it should; only who has failed sees the message.
Sound(g) ==
  /\ g \in Game
  /\ ~g.failed => g.failTimer = 0
  /\ g.song =>
       /\ g.audio = "playing" => ~g.pause /\ ~(g.failed /\ g.failTimer > 0)
       /\ g.audio = "paused" => g.pause \/ g.failed \/ g.resumeCountdown > 0

Worlds == [view: View, game: Game]
Good(w) == w \in Worlds /\ Shaped(w.view) /\ Hears(w.view) /\ Sound(w.game)

\* The settings do not change: they are part of the invariant for the proofs of
\* the operators that read them.
Set == settings \in [resumeCountdown: BOOLEAN, lostFocusPause: BOOLEAN, transition: Transitions]

IInv ==
  /\ stage \in {"input", "view", "scene", "render"}
  /\ Set /\ Shaped(view) /\ Hears(view) /\ Sound(game)

-----------------------------------------------------------------------------
\* Lists without repetitions

LessThan == {ss \in Nat \X Nat : ss[1] < ss[2]}

\* There is no infinite descent among the natural numbers.
LEMMA NaturalsWellFounded == IsWellFoundedOn(LessThan, Nat)
  BY NatLessThanWellFounded DEF OpToRel, LessThan

\* The least number of a set.
LEMMA LeastNatural ==
  ASSUME NEW T, T \subseteq Nat, T # {}
  PROVE  Min(T) \in T
<1>1. PICK y \in T : \A z \in T : ~ (<<z, y>> \in LessThan)
  BY NaturalsWellFounded, WFMin, Zenon
<1>2. \A z \in T : ~ (z < y)
  BY <1>1 DEF LessThan
<1>3. \A z \in T : y <= z
  BY <1>2
<1> QED  BY <1>3 DEF Min

\* What is in a list.
LEMMA InList ==
  ASSUME NEW S, NEW s \in Seq(S)
  PROVE  /\ Range(s) = {s[i] : i \in 1 .. Len(s)} /\ Range(s) \subseteq S
         /\ \A e : Contains(s, e) <=> e \in Range(s)
  BY RangeEquality, RangeOfSeq DEF Contains

\* Where list.remove finds its element.
LEMMA RemovedAt ==
  ASSUME NEW S, NEW s \in Seq(S), NEW e, Contains(s, e)
  PROVE  \E k \in 1 .. Len(s) :
           s[k] = e /\ RemoveFirst(s, e) = SubSeq(s, 1, k - 1) \o SubSeq(s, k + 1, Len(s))
<1> DEFINE k == SelectInSeq(s, LAMBDA v : v = e)
           I == {i \in 1 .. Len(s) : s[i] = e}
<1>1. k = IF I # {} THEN Min(I) ELSE 0
  BY DEF SelectInSeq
<1>2. I # {} /\ I \subseteq Nat
  BY DEF Contains
<1>3. Min(I) \in I
  BY <1>2, LeastNatural
<1>4. RemoveFirst(s, e) = SubSeq(s, 1, k - 1) \o SubSeq(s, k + 1, Len(s))
  BY DEF RemoveFirst, RemoveAt, Contains
<1> HIDE DEF k
<1> QED  BY <1>1, <1>2, <1>3, <1>4

\* A list from which an element was removed.
LEMMA RemoveProperties ==
  ASSUME NEW S, NEW s \in Seq(S), NEW e, IsInjective(s)
  PROVE  /\ RemoveFirst(s, e) \in Seq(S) /\ IsInjective(RemoveFirst(s, e))
         /\ Range(RemoveFirst(s, e)) = Range(s) \ {e}
<1>1. CASE ~Contains(s, e)
  <2>1. RemoveFirst(s, e) = s
    BY <1>1 DEF RemoveFirst, Contains
  <2>2. e \notin Range(s)
    BY <1>1, InList
  <2> QED  BY <2>1, <2>2
<1>2. CASE Contains(s, e)
  <2> DEFINE n == Len(s)
  <2>1. PICK k \in 1 .. n : s[k] = e
                 /\ RemoveFirst(s, e) = SubSeq(s, 1, k - 1) \o SubSeq(s, k + 1, n)
    BY <1>2, RemovedAt
  <2>2. n \in Nat /\ DOMAIN s = 1 .. n /\ \A i \in 1 .. n : s[i] \in S
    BY LenProperties, ElementOfSeq
  <2> DEFINE a == SubSeq(s, 1, k - 1)
             b == SubSeq(s, k + 1, n)
             r == a \o b
  <2>3. /\ a \in Seq(S) /\ Len(a) = k - 1 /\ \A i \in 1 .. k - 1 : a[i] = s[i]
    <3>1. \A i \in 1 .. k - 1 : s[i] \in S
      BY <2>1, <2>2
    <3>2. /\ a \in Seq(S) /\ Len(a) = IF 1 <= k - 1 THEN (k - 1) - 1 + 1 ELSE 0
          /\ \A i \in 1 .. (k - 1) - 1 + 1 : a[i] = s[1 + i - 1]
      BY <2>1, <2>2, <3>1, SubSeqProperties
    <3> HIDE DEF a
    <3> QED  BY <2>1, <2>2, <3>2
  <2>4. /\ b \in Seq(S) /\ Len(b) = n - k /\ \A i \in 1 .. n - k : b[i] = s[k + i]
    <3>1. \A i \in k + 1 .. n : s[i] \in S
      BY <2>1, <2>2
    <3>2. /\ b \in Seq(S) /\ Len(b) = IF k + 1 <= n THEN n - (k + 1) + 1 ELSE 0
          /\ \A i \in 1 .. n - (k + 1) + 1 : b[i] = s[(k + 1) + i - 1]
      BY <2>1, <2>2, <3>1, SubSeqProperties
    <3> HIDE DEF b
    <3>3. n - (k + 1) + 1 = n - k /\ (~ (k + 1 <= n) => n - k = 0)
      <4>1. n \in Int /\ k \in Int /\ k <= n
        BY <2>2
      <4> HIDE DEF n
      <4> QED  BY <4>1
    <3>4. \A i \in 1 .. n - k : (k + 1) + i - 1 = k + i
      BY <2>1, <2>2
    <3> QED  BY <3>2, <3>3, <3>4
  <2> HIDE DEF a, b
  <2>5. /\ r \in Seq(S) /\ Len(r) = n - 1
        /\ \A i \in 1 .. n - 1 : r[i] = IF i < k THEN s[i] ELSE s[i + 1]
    <3>0. /\ r \in Seq(S) /\ Len(r) = Len(a) + Len(b)
          /\ \A i \in 1 .. Len(a) + Len(b) : r[i] = IF i <= Len(a) THEN a[i] ELSE b[i - Len(a)]
      BY <2>3, <2>4, ConcatProperties
    <3> HIDE DEF r
    <3>1. /\ r \in Seq(S) /\ Len(r) = (k - 1) + (n - k)
          /\ \A i \in 1 .. (k - 1) + (n - k) : r[i] = IF i <= k - 1 THEN a[i] ELSE b[i - (k - 1)]
      BY <2>3, <2>4, <3>0
    <3>2. ASSUME NEW i \in 1 .. n - 1 PROVE r[i] = IF i < k THEN s[i] ELSE s[i + 1]
      <4>1. CASE i < k
        BY <2>1, <2>2, <2>3, <3>1, <4>1
      <4>2. CASE ~ (i < k)
        <5>1. i - (k - 1) \in 1 .. n - k /\ k + (i - (k - 1)) = i + 1
          BY <2>1, <2>2, <4>2
        <5>2. b[i - (k - 1)] = s[i + 1]
          BY <2>4, <5>1
        <5>3. r[i] = b[i - (k - 1)]
          BY <2>1, <2>2, <3>1, <4>2
        <5> QED  BY <4>2, <5>2, <5>3
      <4> QED  BY <4>1, <4>2
    <3> QED  BY <2>1, <2>2, <3>1, <3>2
  <2>6. RemoveFirst(s, e) = r
    BY <2>1 DEF a, b
  <2> HIDE DEF r
  <2>7. DOMAIN r = 1 .. n - 1
    BY <2>5, LenProperties
  <2>8. \A i, j \in 1 .. n : s[i] = s[j] => i = j
    BY <2>2 DEF IsInjective
  <2>9. IsInjective(r)
    BY <2>1, <2>2, <2>5, <2>7, <2>8 DEF IsInjective
  <2>10. Range(r) \subseteq Range(s) \ {e}
    <3> SUFFICES ASSUME NEW i \in 1 .. n - 1 PROVE r[i] \in Range(s) \ {e}
      BY <2>7 DEF Range
    <3>1. PICK j \in 1 .. n : r[i] = s[j] /\ j # k
      BY <2>1, <2>2, <2>5
    <3> QED  BY <2>1, <2>2, <2>8, <3>1 DEF Range
  <2>11. Range(s) \ {e} \subseteq Range(r)
    <3> SUFFICES ASSUME NEW j \in 1 .. n, s[j] # e PROVE s[j] \in Range(r)
      BY <2>2 DEF Range
    <3>1. j # k
      BY <2>1
    <3>2. CASE j < k
      <4>1. j \in 1 .. n - 1 /\ r[j] = s[j]
        BY <2>1, <2>2, <2>5, <3>2
      <4> QED  BY <2>7, <4>1 DEF Range
    <3>3. CASE j > k
      <4>1. j - 1 \in 1 .. n - 1 /\ ~ (j - 1 < k) /\ (j - 1) + 1 = j
        BY <2>1, <2>2, <3>3
      <4>2. r[j - 1] = s[j]
        BY <2>5, <4>1
      <4> QED  BY <2>7, <4>1, <4>2 DEF Range
    <3> QED  BY <2>1, <2>2, <3>1, <3>2, <3>3
  <2> QED  BY <2>5, <2>6, <2>9, <2>10, <2>11
<1> QED  BY <1>1, <1>2

\* A list to which a new element was added.
LEMMA AddProperties ==
  ASSUME NEW S, NEW s \in Seq(S), NEW e \in S, IsInjective(s), e \notin Range(s)
  PROVE  /\ Append(s, e) \in Seq(S) /\ IsInjective(Append(s, e))
         /\ Range(Append(s, e)) = Range(s) \cup {e}
<1> DEFINE n == Len(s)
           r == Append(s, e)
<1>1. /\ r \in Seq(S) /\ Len(r) = n + 1 /\ r[n + 1] = e
      /\ \A i \in 1 .. n : r[i] = s[i]
  BY AppendProperties
<1>2. n \in Nat /\ DOMAIN s = 1 .. n /\ DOMAIN r = 1 .. n + 1
  BY <1>1, LenProperties
<1> HIDE DEF r, n
<1>3. 1 .. n + 1 = (1 .. n) \cup {n + 1}
  BY <1>2
<1>4. \A i \in 1 .. n : r[i] \in Range(s) /\ r[i] # e
  BY <1>1, <1>2 DEF Range
<1>5. IsInjective(r)
  BY <1>1, <1>2, <1>3, <1>4 DEF IsInjective
<1>6. Range(r) = Range(s) \cup {e}
  <2>1. \A i \in 1 .. n : s[i] \in Range(r)
    BY <1>1, <1>2, <1>3 DEF Range
  <2>2. e \in Range(r)
    BY <1>1, <1>2, <1>3 DEF Range
  <2>3. Range(s) \subseteq Range(r)
    BY <1>2, <2>1 DEF Range
  <2>4. Range(r) \subseteq Range(s) \cup {e}
    <3> SUFFICES ASSUME NEW i \in 1 .. n + 1 PROVE r[i] \in Range(s) \cup {e}
      BY <1>2 DEF Range
    <3> QED  BY <1>1, <1>3, <1>4
  <2> QED  BY <2>2, <2>3, <2>4
<1> QED  BY <1>1, <1>5, <1>6 DEF r

-----------------------------------------------------------------------------
\* Views

\* A listener is added.
LEMMA ListenKeeps ==
  ASSUME NEW v, Shaped(v), NEW l \in Layers
  PROVE  LET r == addKeyListener(v, l)
         IN  /\ Shaped(r) /\ r.layers = v.layers /\ r.outgoing = v.outgoing
             /\ \A m : Contains(r.listeners, m) <=> Contains(v.listeners, m) \/ m = l
<1>1. v \in View /\ v.listeners \in Seq(Layers) /\ IsInjective(v.listeners)
  BY DEF Shaped, Listed, View
<1>2. CASE Contains(v.listeners, l)
  <2>1. addKeyListener(v, l) = v
    BY <1>1, <1>2 DEF addKeyListener, View
  <2> QED  BY <1>2, <2>1
<1>3. CASE ~Contains(v.listeners, l)
  <2> DEFINE s == Append(v.listeners, l)
             r == addKeyListener(v, l)
  <2>1. l \notin Range(v.listeners)
    BY <1>1, <1>3, InList
  <2>2. s \in Seq(Layers) /\ IsInjective(s) /\ Range(s) = Range(v.listeners) \cup {l}
    BY <1>1, <2>1, AddProperties
  <2>3. ASSUME NEW m PROVE Contains(s, m) <=> Contains(v.listeners, m) \/ m = l
    <3>1. Contains(s, m) <=> m \in Range(s)
      BY <2>2, InList
    <3>2. Contains(v.listeners, m) <=> m \in Range(v.listeners)
      BY <1>1, InList
    <3> QED  BY <2>2, <3>1, <3>2
  <2>4. r = [v EXCEPT !.listeners = s]
    BY <1>1, <1>3 DEF addKeyListener, View
  <2> HIDE DEF s, r
  <2>5. r \in View /\ r.listeners = s /\ r.layers = v.layers /\ r.outgoing = v.outgoing
        /\ r.visibility = v.visibility
    BY <1>1, <2>2, <2>4 DEF View
  <2>6. Shaped(r)
    BY <2>2, <2>5 DEF Shaped, Listed
  <2> QED  BY <2>3, <2>5, <2>6 DEF r
<1> QED  BY <1>2, <1>3

\* A listener is removed.
LEMMA UnlistenKeeps ==
  ASSUME NEW v, Shaped(v), NEW l \in Layers
  PROVE  LET r == removeKeyListener(v, l)
         IN  /\ Shaped(r) /\ r.layers = v.layers /\ r.outgoing = v.outgoing
             /\ \A m : Contains(r.listeners, m) <=> Contains(v.listeners, m) /\ m # l
<1> DEFINE s == RemoveFirst(v.listeners, l)
           r == removeKeyListener(v, l)
<1>1. v \in View /\ v.listeners \in Seq(Layers) /\ IsInjective(v.listeners)
  BY DEF Shaped, Listed, View
<1>2. s \in Seq(Layers) /\ IsInjective(s) /\ Range(s) = Range(v.listeners) \ {l}
  BY <1>1, RemoveProperties
<1>3. \A m : Contains(s, m) <=> Contains(v.listeners, m) /\ m # l
  BY <1>1, <1>2, InList
<1>4. r = [v EXCEPT !.listeners = s]
  BY <1>1 DEF removeKeyListener, View
<1> HIDE DEF s, r
<1>5. r \in View /\ r.listeners = s /\ r.layers = v.layers /\ r.outgoing = v.outgoing
      /\ r.visibility = v.visibility
  BY <1>1, <1>2, <1>4 DEF View
<1>6. Shaped(r)
  BY <1>2, <1>5 DEF Shaped, Listed
<1> QED  BY <1>3, <1>5, <1>6 DEF r

\* The listener of a menu that is not up is not missed.
LEMMA UnlistenHears ==
  ASSUME NEW v, Shaped(v), Hears(v), NEW l \in Layers, ~ Up(v, l)
  PROVE  Shaped(removeKeyListener(v, l)) /\ Hears(removeKeyListener(v, l))
<1> DEFINE r == removeKeyListener(v, l)
<1>1. /\ Shaped(r) /\ r.layers = v.layers /\ r.outgoing = v.outgoing
      /\ \A m : Contains(r.listeners, m) <=> Contains(v.listeners, m) /\ m # l
  BY UnlistenKeeps
<1> HIDE DEF r
<1>2. Hears(r)
  BY <1>1 DEF Hears, Up
<1> QED  BY <1>1, <1>2 DEF r

-----------------------------------------------------------------------------
\* Games

\* What the pause menu's end or the start of its song does.
LEMMA ResumeSound ==
  ASSUME Set, NEW g, Sound(g)
  PROVE  Sound(resumeGame(g))
<1>1. ResumeTurns \in Nat /\ ResumeTurns > 0
  <2>1. settings.transition \in Transitions
    BY DEF Set
  <2>2. settings.transition \in Nat /\ settings.transition + 1 < ResumeTurns /\ ResumeTurns \in Nat
    BY <2>1, SessionAssumption
  <2> QED  BY <2>2
<1>2. g \in Game /\ ResumeTurns \in UpTo(ResumeTurns)
  BY <1>1 DEF Sound, UpTo
<1> DEFINE counts == settings.resumeCountdown /\ ~g.failed /\ g.countdown = 0
           h == [g EXCEPT !.resumeCountdown = ResumeTurns, !.pause = FALSE]
           u == songUnpause(g)
           k == [u EXCEPT !.pause = FALSE]
           f == [g EXCEPT !.pause = FALSE]
<1>3. CASE counts
  <2>1. resumeGame(g) = h
    BY <1>3 DEF resumeGame
  <2>2. h \in Game
    BY <1>1, <1>2 DEF Game
  <2>3. h.resumeCountdown > 0 /\ ~h.pause /\ h.audio = g.audio /\ h.failed = g.failed
        /\ h.failTimer = g.failTimer /\ h.song = g.song
    BY <1>1, <1>2 DEF Game
  <2> HIDE DEF h
  <2>4. Sound(h)
    BY <1>3, <2>2, <2>3 DEF Sound
  <2> QED  BY <2>1, <2>4
<1>4. CASE ~counts /\ g.song /\ g.failed
  <2>1. resumeGame(g) = f
    BY <1>4 DEF resumeGame
  <2>2. f \in Game
    BY <1>2 DEF Game
  <2>3. Sound(f)
    BY <1>2, <1>4, <2>2 DEF Sound, Game
  <2> QED  BY <2>1, <2>3
<1>5. CASE ~counts /\ g.song /\ ~g.failed
  <2>1. resumeGame(g) = k
    BY <1>5 DEF resumeGame
  <2>2. k \in Game
    BY <1>2 DEF Game, songUnpause
  <2>3. Sound(k)
    BY <1>2, <1>5, <2>2 DEF Sound, Game, songUnpause
  <2> QED  BY <2>1, <2>3
<1>6. CASE ~counts /\ ~g.song
  <2>1. resumeGame(g) = g
    BY <1>6 DEF resumeGame
  <2> QED  BY <2>1
<1> QED  BY <1>3, <1>4, <1>5, <1>6

\* The game is paused.
LEMMA PauseSound ==
  ASSUME NEW g, Sound(g)
  PROVE  Sound(pauseGame(g))
<1>1. g \in Game
  BY DEF Sound
<1> DEFINE h == [songPause(g) EXCEPT !.pause = TRUE]
<1>2. h \in Game
  BY <1>1 DEF Game, songPause
<1>3. Sound(h)
  BY <1>1, <1>2 DEF Sound, Game, songPause
<1> QED  BY <1>3 DEF pauseGame

\* The song is stopped and its game begins anew, in either order.
LEMMA ResetSound ==
  ASSUME NEW g, Sound(g)
  PROVE  /\ Sound(resetVariablesToDefaults(songStop(g)))
         /\ Sound(songStop(resetVariablesToDefaults(g)))
<1>1. /\ g \in Game /\ Countdown \in UpTo(Countdown) /\ 0 \in UpTo(ResumeTurns)
      /\ 0 \in UpTo(FailTurns) /\ 0 \in UpTo(RockTurns)
  BY SessionAssumption DEF Sound, UpTo
<1> DEFINE a == [g EXCEPT !.audio = "stopped"]
           b == [a EXCEPT !.countdown = Countdown, !.countdownOK = FALSE, !.resumeCountdown = 0]
           c == [b EXCEPT !.failed = FALSE, !.failTimer = 0, !.failEnd = FALSE]
           d == [c EXCEPT !.youRock = FALSE, !.rockTimer = 0]
<1>2. resetVariablesToDefaults(songStop(g)) = d /\ songStop(resetVariablesToDefaults(g)) = d
  BY <1>1 DEF resetVariablesToDefaults, songStop, Game
<1>3. a \in Game /\ a.audio = "stopped"
  BY <1>1 DEF Game
<1> HIDE DEF a
<1>4. b \in Game /\ b.audio = "stopped"
  BY <1>1, <1>3 DEF Game
<1> HIDE DEF b
<1>5. c \in Game /\ c.audio = "stopped" /\ ~c.failed /\ c.failTimer = 0
  BY <1>1, <1>4 DEF Game
<1> HIDE DEF c
<1>6. d \in Game /\ d.audio = "stopped" /\ ~d.failed /\ d.failTimer = 0
  BY <1>1, <1>5 DEF Game
<1> QED  BY <1>2, <1>6 DEF Sound

\* The song is over.
LEMMA StopSound ==
  ASSUME NEW g, Sound(g)
  PROVE  /\ Sound([songStop(g) EXCEPT !.ending = TRUE])
         /\ Sound([g EXCEPT !.song = FALSE])
<1>1. g \in Game
  BY DEF Sound
<1>2. [songStop(g) EXCEPT !.ending = TRUE] \in Game
  BY <1>1 DEF Game, songStop
<1>3. Sound([songStop(g) EXCEPT !.ending = TRUE])
  BY <1>1, <1>2 DEF Sound, Game, songStop
<1>4. [g EXCEPT !.song = FALSE] \in Game
  BY <1>1 DEF Game
<1>5. Sound([g EXCEPT !.song = FALSE])
  BY <1>1, <1>4 DEF Sound, Game
<1> QED  BY <1>3, <1>5

-----------------------------------------------------------------------------
\* Views and games together

\* A view or a game is replaced by another.
LEMMA Replaced ==
  ASSUME NEW w, Good(w)
  PROVE  /\ \A v : Shaped(v) /\ Hears(v) => Good([w EXCEPT !.view = v])
         /\ \A g : Sound(g) => Good([w EXCEPT !.game = g])
<1>1. w \in Worlds /\ Shaped(w.view) /\ Hears(w.view) /\ Sound(w.game)
  BY DEF Good
<1>2. ASSUME NEW v, Shaped(v), Hears(v) PROVE Good([w EXCEPT !.view = v])
  <2> DEFINE u == [w EXCEPT !.view = v]
  <2>1. u \in Worlds /\ u.view = v /\ u.game = w.game
    BY <1>1, <1>2 DEF Worlds, Shaped
  <2> HIDE DEF u
  <2>2. Good(u)
    BY <1>1, <1>2, <2>1 DEF Good
  <2> QED  BY <2>2 DEF u
<1>3. ASSUME NEW g, Sound(g) PROVE Good([w EXCEPT !.game = g])
  <2> DEFINE u == [w EXCEPT !.game = g]
  <2>1. u \in Worlds /\ u.view = w.view /\ u.game = g
    BY <1>1, <1>3 DEF Worlds, Sound
  <2> HIDE DEF u
  <2>2. Good(u)
    BY <1>1, <1>3, <2>1 DEF Good
  <2> QED  BY <2>2 DEF u
<1> QED  BY <1>2, <1>3

\* A layer that is not up is told that it has gone.
LEMMA HiddenGood ==
  ASSUME Set, NEW w, Good(w), NEW l \in Layers, ~ Up(w.view, l)
  PROVE  /\ Good(hidden(w, l))
         /\ hidden(w, l).view = removeKeyListener(w.view, l)
<1>1. w \in Worlds /\ Shaped(w.view) /\ Hears(w.view) /\ Sound(w.game)
  BY DEF Good
<1> DEFINE v == removeKeyListener(w.view, l)
           g == IF l = "menu" THEN resumeGame(w.game) ELSE w.game
           h == hidden(w, l)
<1>2. Shaped(v) /\ Hears(v)
  BY <1>1, UnlistenHears
<1>3. Sound(g)
  BY <1>1, ResumeSound
<1>4. h = [w EXCEPT !.view = v, !.game = g]
  BY <1>1 DEF hidden, Worlds
<1> HIDE DEF v, g, h
<1>5. h \in Worlds /\ h.view = v /\ h.game = g
  BY <1>1, <1>2, <1>3, <1>4 DEF Worlds, Shaped, Sound
<1>6. Good(h)
  BY <1>2, <1>3, <1>5 DEF Good
<1> QED  BY <1>5, <1>6 DEF h, v

\* A layer begins to fade away.
LEMMA PopGood ==
  ASSUME NEW w, Good(w), NEW l \in Layers
  PROVE  /\ Good(popLayer(w, l)) /\ ~ Up(popLayer(w, l).view, l)
         /\ \A m : Up(popLayer(w, l).view, m) => Up(w.view, m)
         /\ popLayer(w, l).game = w.game
<1>1. w \in Worlds /\ Shaped(w.view) /\ Hears(w.view) /\ w.view \in View
  BY DEF Good, Shaped
<1> DEFINE o == IF l \in Range(w.view.layers) THEN w.view.outgoing \cup {l} ELSE w.view.outgoing
           v == [w.view EXCEPT !.outgoing = o]
           p == popLayer(w, l)
<1>2. o \subseteq Layers
  BY <1>1 DEF View
<1>3. v \in View /\ v.layers = w.view.layers /\ v.listeners = w.view.listeners
      /\ v.visibility = w.view.visibility /\ v.outgoing = o
  BY <1>1, <1>2 DEF View
<1>4. p = [w EXCEPT !.view = v]
  BY <1>1 DEF popLayer, Worlds, View
<1> HIDE DEF v, p
<1>5. Shaped(v)
  BY <1>1, <1>3 DEF Shaped, Listed
<1>6. Hears(v)
  BY <1>1, <1>3 DEF Hears, Up
<1>7. p.view = v /\ p.game = w.game
  BY <1>1, <1>4 DEF Worlds
<1>8. Good(p)
  BY <1>4, <1>5, <1>6, Replaced
<1>9. ~ Up(v, l) /\ \A m : Up(v, m) => Up(w.view, m)
  BY <1>3 DEF Up
<1> QED  BY <1>7, <1>8, <1>9 DEF p

\* A layer is shown, or shown again while it fades away.
LEMMA PushGood ==
  ASSUME Set, NEW w, Good(w), NEW l \in Layers
  PROVE  Good(pushLayer(w, l)) /\ \A m : m # l /\ Up(pushLayer(w, l).view, m) => Up(w.view, m)
<1>1. w \in Worlds /\ Shaped(w.view) /\ Hears(w.view) /\ w.view \in View /\ Listed(w.view)
  BY DEF Good, Shaped
<1>2. CASE l \notin Range(w.view.layers)
  <2> DEFINE s == Append(w.view.layers, l)
             d == [w.view.visibility EXCEPT ![l] = 0]
             v == [w.view EXCEPT !.layers = s, !.visibility = d]
             k == [w EXCEPT !.view = v]
             r == addKeyListener(v, l)
             p == pushLayer(w, l)
  <2>0. l \notin w.view.outgoing
    BY <1>1, <1>2 DEF Listed
  <2>1. p = shown(k, l)
    <3>1. p = shown([w EXCEPT !.view.layers = Append(@, l), !.view.visibility[l] = 0], l)
      BY <1>2, <2>0 DEF pushLayer
    <3>2. [w EXCEPT !.view.layers = Append(@, l), !.view.visibility[l] = 0] = k
      BY <1>1 DEF Worlds, View
    <3> QED  BY <3>1, <3>2
  <2>2. s \in Seq(Layers) /\ IsInjective(s) /\ Range(s) = Range(w.view.layers) \cup {l}
    BY <1>1, <1>2, AddProperties DEF Listed, View
  <2>3. d \in [Layers -> Nat] /\ \A m \in Layers : d[m] = IF m = l THEN 0 ELSE w.view.visibility[m]
    BY <1>1 DEF View
  <2> HIDE DEF s, d
  <2>4. v \in View /\ v.layers = s /\ v.listeners = w.view.listeners
        /\ v.visibility = d /\ v.outgoing = w.view.outgoing
    BY <1>1, <2>2, <2>3 DEF View
  <2> HIDE DEF v
  <2>5. Shaped(v)
    <3>1. \A m \in Layers : d[m] <= settings.transition
      <4>1. settings.transition \in Nat
        BY SessionAssumption DEF Set
      <4> QED  BY <1>1, <2>3, <4>1 DEF Shaped
    <3> QED  BY <1>1, <2>2, <2>4, <3>1 DEF Shaped, Listed
  <2>6. /\ Shaped(r) /\ r.layers = v.layers /\ r.outgoing = v.outgoing
        /\ \A m : Contains(r.listeners, m) <=> Contains(v.listeners, m) \/ m = l
    BY <2>5, ListenKeeps
  <2> HIDE DEF r
  <2>7. \A m : m # l /\ Up(r, m) => Up(w.view, m)
    BY <2>2, <2>4, <2>6 DEF Up
  <2>8. Hears(r)
    BY <1>1, <2>4, <2>6, <2>7 DEF Hears
  <2>9. shown(k, l) = [w EXCEPT !.view = r]
    BY <1>1 DEF shown, Worlds, r
  <2>10. p.view = r
    BY <1>1, <2>1, <2>9 DEF Worlds
  <2> HIDE DEF p, k
  <2>11. Good(p)
    BY <2>1, <2>6, <2>8, <2>9, Replaced
  <2> QED  BY <2>7, <2>10, <2>11 DEF p
<1>3. CASE l \in w.view.outgoing
  <2> DEFINE h == hidden(w, l)
             r == addKeyListener(h.view, l)
             k == shown(h, l)
             o == w.view.outgoing \ {l}
             v == [r EXCEPT !.outgoing = o]
             p == pushLayer(w, l)
  <2>0. l \in Range(w.view.layers)
    BY <1>1, <1>3 DEF Listed
  <2>1. p = [k EXCEPT !.view.outgoing = @ \ {l}]
    BY <1>3, <2>0 DEF pushLayer
  <2>2. ~ Up(w.view, l)
    BY <1>3 DEF Up
  <2>3. Good(h) /\ h.view = removeKeyListener(w.view, l)
    BY <2>2, HiddenGood
  <2>4. h.view.layers = w.view.layers /\ h.view.outgoing = w.view.outgoing
    BY <1>1, <2>3, UnlistenKeeps
  <2> HIDE DEF h
  <2>5. h \in Worlds /\ Shaped(h.view) /\ Hears(h.view)
    BY <2>3 DEF Good
  <2>6. /\ Shaped(r) /\ r.layers = h.view.layers /\ r.outgoing = h.view.outgoing
        /\ \A m : Contains(r.listeners, m) <=> Contains(h.view.listeners, m) \/ m = l
    BY <2>5, ListenKeeps
  <2>7. k = [h EXCEPT !.view = r]
    BY <2>5 DEF shown, Worlds
  <2> HIDE DEF r, k
  <2>8. r \in View /\ Listed(r) /\ o \subseteq Layers
    BY <1>1, <2>6 DEF Shaped, View
  <2>9. v \in View /\ v.layers = r.layers /\ v.listeners = r.listeners
        /\ v.visibility = r.visibility /\ v.outgoing = o
    BY <2>8 DEF View
  <2>10. p = [h EXCEPT !.view = v]
    BY <2>1, <2>4, <2>5, <2>6, <2>7, <2>8 DEF Worlds, View
  <2> HIDE DEF v, p
  <2>11. Shaped(v)
    BY <2>4, <2>6, <2>8, <2>9 DEF Shaped, Listed
  <2>12. \A m : m # l /\ Up(v, m) => Up(h.view, m) /\ Up(w.view, m)
    BY <2>4, <2>6, <2>9 DEF Up
  <2>13. Hears(v)
    BY <2>5, <2>6, <2>9, <2>12 DEF Hears
  <2>14. p.view = v
    BY <2>5, <2>10 DEF Worlds
  <2>15. Good(p)
    BY <2>3, <2>10, <2>11, <2>13, Replaced
  <2> QED  BY <2>12, <2>14, <2>15 DEF p
<1>4. CASE l \in Range(w.view.layers) /\ l \notin w.view.outgoing
  BY <1>4 DEF pushLayer
<1> QED  BY <1>2, <1>3, <1>4

\* A layer that has faded out leaves.
LEMMA LeaveGood ==
  ASSUME Set, NEW w, Good(w), NEW l \in Layers, NEW gone
  PROVE  Good(leaveIf(w, l, gone))
<1>1. w \in Worlds /\ Shaped(w.view) /\ Hears(w.view) /\ w.view \in View /\ Listed(w.view)
  BY DEF Good, Shaped
<1> DEFINE s == RemoveFirst(w.view.layers, l)
           o == w.view.outgoing \ {l}
           v == [w.view EXCEPT !.layers = s, !.outgoing = o]
           k == [w EXCEPT !.view = v]
<1>2. leave(w, l) = hidden(k, l)
  BY <1>1 DEF leave, Worlds, View
<1>3. s \in Seq(Layers) /\ IsInjective(s) /\ Range(s) = Range(w.view.layers) \ {l}
  BY <1>1, RemoveProperties DEF Listed, View
<1>4. o \subseteq Layers
  BY <1>1 DEF View
<1> HIDE DEF s
<1>5. v \in View /\ v.layers = s /\ v.listeners = w.view.listeners
      /\ v.visibility = w.view.visibility /\ v.outgoing = o
  BY <1>1, <1>3, <1>4 DEF View
<1> HIDE DEF v
<1>6. Shaped(v)
  BY <1>1, <1>3, <1>5 DEF Shaped, Listed
<1>7. Hears(v) /\ ~ Up(v, l)
  BY <1>1, <1>3, <1>5 DEF Hears, Up
<1>8. Good(k) /\ k.view = v
  BY <1>1, <1>6, <1>7, Replaced DEF Worlds
<1> HIDE DEF k
<1>9. Good(hidden(k, l))
  BY <1>7, <1>8, HiddenGood
<1> QED  BY <1>2, <1>9 DEF leaveIf

-----------------------------------------------------------------------------
\* What the menus' choices do

\* The song is freed, and the next scene takes the place of this one.
LEMMA LeavingGood ==
  ASSUME Set, NEW w, Good(w)
  PROVE  /\ Good(createScene(freeResources(w)))
         /\ \A m : m # "next" /\ Up(createScene(freeResources(w)).view, m) => Up(w.view, m)
<1> DEFINE g == [w.game EXCEPT !.song = FALSE]
           f == freeResources(w)
<1>1. f = [w EXCEPT !.game = g]
  BY DEF freeResources, Good, Worlds
<1>2. Sound(g)
  BY StopSound DEF Good
<1> HIDE DEF g
<1>3. Good(f) /\ f.view = w.view
  BY <1>1, <1>2, Replaced DEF Good, Worlds
<1> HIDE DEF f
<1>4. "scene" \in Layers /\ "next" \in Layers
  BY DEF Layers
<1>5. Good(popLayer(f, "scene")) /\ \A m : Up(popLayer(f, "scene").view, m) => Up(w.view, m)
  BY <1>3, <1>4, PopGood
<1> DEFINE q == popLayer(f, "scene")
           r == pushLayer(q, "next")
<1> HIDE DEF q
<1>6. Good(r) /\ \A m : m # "next" /\ Up(r.view, m) => Up(q.view, m)
  BY <1>4, <1>5, PushGood DEF q
<1>7. createScene(f) = r
  BY DEF createScene, q
<1> QED  BY <1>5, <1>6, <1>7 DEF f, q

\* Another song is chosen.
LEMMA ChangeGood ==
  ASSUME Set, NEW w, Good(w)
  PROVE  Good(changeSong(w)) /\ Good(changeAfterFail(w)) /\ ~ Up(changeAfterFail(w).view, "failMenu")
<1> DEFINE g == resetVariablesToDefaults(songStop(w.game))
           k == [w EXCEPT !.game = g]
<1>1. Good(k)
  <2>1. Sound(g)
    BY ResetSound DEF Good
  <2> HIDE DEF g
  <2> QED  BY <2>1, Replaced
<1>2. "menu" \in Layers /\ "failMenu" \in Layers
  BY DEF Layers, Menus
<1>3. /\ changeSong(w) = createScene(freeResources(popLayer(popLayer(k, "menu"), "failMenu")))
      /\ changeAfterFail(w) = createScene(freeResources(popLayer(k, "failMenu")))
  BY DEF changeSong, changeAfterFail
<1> HIDE DEF k
<1>4. /\ Good(popLayer(k, "menu")) /\ Good(popLayer(k, "failMenu"))
      /\ ~ Up(popLayer(k, "failMenu").view, "failMenu")
  BY <1>1, <1>2, PopGood
<1>5. Good(popLayer(popLayer(k, "menu"), "failMenu"))
  BY <1>2, <1>4, PopGood
<1> QED  BY <1>3, <1>4, <1>5, LeavingGood

\* The song is over.
LEMMA ResultsGood ==
  ASSUME Set, NEW w, Good(w), NEW score \in BOOLEAN
  PROVE  Good(goToResults(w, score)) /\ Good(endSong(w, score))
<1>1. ASSUME NEW u, Good(u), NEW b \in BOOLEAN PROVE Good(goToResults(u, b))
  <2> DEFINE g == [songStop(u.game) EXCEPT !.ending = TRUE]
             k == [u EXCEPT !.game = g]
  <2>1. Good(k)
    <3>1. Sound(g)
      BY <1>1, StopSound DEF Good
    <3> HIDE DEF g
    <3> QED  BY <1>1, <3>1, Replaced
  <2>2. goToResults(u, b) = IF b THEN createScene(freeResources(k)) ELSE changeSong(k)
    BY DEF goToResults
  <2> HIDE DEF k
  <2> QED  BY <2>1, <2>2, LeavingGood, ChangeGood
<1>2. Good(popLayer(w, "menu"))
  BY PopGood DEF Layers, Menus
<1>3. Good(changeSong(popLayer(w, "menu")))
  BY <1>2, ChangeGood
<1>4. Good(goToResults(popLayer(w, "menu"), TRUE))
  BY <1>1, <1>2
<1>5. Good(goToResults(w, score))
  BY <1>1
<1> QED  BY <1>3, <1>4, <1>5 DEF endSong

\* The song goes on, or begins anew.
LEMMA GoOnGood ==
  ASSUME Set, NEW w, Good(w), NEW m \in Menus
  PROVE  Good(resumeSong(w)) /\ Good(restart(w, m))
<1>1. "menu" \in Layers /\ m \in Layers
  BY DEF Layers, Menus
<1>2. Good(popLayer(w, "menu")) /\ Good(popLayer(w, m))
  BY <1>1, PopGood
<1>3. ASSUME NEW k, Good(k)
      PROVE  /\ Good([k EXCEPT !.game = resumeGame(@)])
             /\ Good([k EXCEPT !.game = songStop(resetVariablesToDefaults(@))])
  <2>1. Sound(k.game)
    BY <1>3 DEF Good
  <2>2. Sound(resumeGame(k.game)) /\ Sound(songStop(resetVariablesToDefaults(k.game)))
    BY <2>1, ResumeSound, ResetSound
  <2> DEFINE g == resumeGame(k.game)
             h == songStop(resetVariablesToDefaults(k.game))
  <2> HIDE DEF g, h
  <2>3. Good([k EXCEPT !.game = g]) /\ Good([k EXCEPT !.game = h])
    BY <1>3, <2>2, Replaced DEF g, h
  <2> QED  BY <2>3 DEF g, h
<1> QED  BY <1>2, <1>3 DEF resumeSong, restart

\* Only the pause menu does something to the game when it is hidden.
LEMMA PushKeepsGame ==
  ASSUME NEW w, Good(w), NEW l \in Layers, l # "menu"
  PROVE  pushLayer(w, l).game = w.game
<1>1. w \in Worlds /\ w.view \in View /\ Listed(w.view)
  BY DEF Good, Shaped
<1>2. CASE l \notin Range(w.view.layers)
  <2> DEFINE u == [w EXCEPT !.view.layers = Append(@, l), !.view.visibility[l] = 0]
  <2>1. l \notin w.view.outgoing
    BY <1>1, <1>2 DEF Listed
  <2>2. pushLayer(w, l) = shown(u, l)
    BY <1>2, <2>1 DEF pushLayer
  <2>3. u.game = w.game /\ DOMAIN u = {"view", "game"}
    BY <1>1 DEF Worlds
  <2> HIDE DEF u
  <2>4. shown(u, l).game = u.game
    BY <2>3 DEF shown
  <2> QED  BY <2>2, <2>3, <2>4
<1>3. CASE l \in w.view.outgoing
  <2>1. l \in Range(w.view.layers)
    BY <1>1, <1>3 DEF Listed
  <2>2. pushLayer(w, l) = [shown(hidden(w, l), l) EXCEPT !.view.outgoing = @ \ {l}]
    BY <1>3, <2>1 DEF pushLayer
  <2>3. hidden(w, l).game = w.game /\ DOMAIN hidden(w, l) = {"view", "game"}
    BY <1>1 DEF hidden, Worlds
  <2> DEFINE h == hidden(w, l)
             k == shown(h, l)
  <2> HIDE DEF h
  <2>4. k.game = h.game /\ DOMAIN k = {"view", "game"}
    BY <2>3 DEF shown, h
  <2> HIDE DEF k
  <2>5. [k EXCEPT !.view.outgoing = @ \ {l}].game = k.game
    BY <2>4
  <2> QED  BY <2>2, <2>3, <2>4, <2>5 DEF h, k
<1>4. CASE l \in Range(w.view.layers) /\ l \notin w.view.outgoing
  BY <1>4 DEF pushLayer
<1> QED  BY <1>2, <1>3, <1>4

\* Who has seen the message that he failed has a silent song, whatever is paused.
LEMMA FailedIsSilent ==
  ASSUME NEW g, Sound(g), g.failed, g.failTimer > 0
  PROVE  /\ Sound([g EXCEPT !.pause = FALSE]) /\ Sound([g EXCEPT !.failEnd = TRUE])
         /\ [g EXCEPT !.pause = FALSE].failed /\ [g EXCEPT !.pause = FALSE].failTimer > 0
<1>1. g \in Game
  BY DEF Sound
<1> DEFINE a == [g EXCEPT !.pause = FALSE]
           b == [g EXCEPT !.failEnd = TRUE]
<1>2. a \in Game /\ b \in Game
  BY <1>1 DEF Game
<1>3. /\ a.song = g.song /\ a.audio = g.audio /\ a.failed = g.failed /\ a.failTimer = g.failTimer
      /\ b.song = g.song /\ b.audio = g.audio /\ b.failed = g.failed /\ b.failTimer = g.failTimer
  BY <1>1 DEF Game
<1> HIDE DEF a, b
<1>4. Sound(a) /\ Sound(b)
  BY <1>2, <1>3 DEF Sound
<1> QED  BY <1>3, <1>4 DEF a, b

\* The fail menu takes the place of the pause menu.
LEMMA FailGood ==
  ASSUME Set, NEW w, Good(w), w.game.failed, w.game.failTimer = FailTurns
  PROVE  Good(failGame(w))
<1> DEFINE k == pushLayer(w, "failMenu")
           q == popLayer(k, "menu")
           g == [q.game EXCEPT !.pause = FALSE]
           r == [q EXCEPT !.game = g]
           p == IF k.game.pause THEN r ELSE k
<1>0. "menu" \in Layers /\ "failMenu" \in Layers
  BY DEF Layers, Menus
<1>1. Good(k) /\ k.game.failed /\ k.game.failTimer > 0
  <2>1. Good(k)
    BY <1>0, PushGood
  <2>2. k.game = w.game
    BY <1>0, PushKeepsGame
  <2>3. FailTurns > 0
    BY SessionAssumption
  <2> HIDE DEF k
  <2> QED  BY <2>1, <2>2, <2>3
<1>2. failGame(w) = [p EXCEPT !.game.failEnd = TRUE]
  BY DEF failGame
<1> HIDE DEF k
<1>3. Good(q) /\ q.game = k.game
  BY <1>0, <1>1, PopGood
<1> HIDE DEF q
<1>4. Sound(g) /\ g.failed /\ g.failTimer > 0
  <2>1. Sound(q.game)
    BY <1>3 DEF Good
  <2> QED  BY <1>1, <1>3, <2>1, FailedIsSilent
<1> HIDE DEF g
<1>5. Good(r) /\ r.game = g
  BY <1>3, <1>4, Replaced DEF Good, Worlds
<1> HIDE DEF r
<1>6. Good(p) /\ p.game.failed /\ p.game.failTimer > 0
  BY <1>1, <1>4, <1>5
<1> HIDE DEF p
<1> DEFINE f == [p.game EXCEPT !.failEnd = TRUE]
<1>7. Sound(f)
  BY <1>6, FailedIsSilent DEF Good
<1>8. [p EXCEPT !.game.failEnd = TRUE] = [p EXCEPT !.game = f]
  BY <1>6 DEF Good, Worlds
<1> HIDE DEF f
<1> QED  BY <1>2, <1>6, <1>7, <1>8, Replaced

-----------------------------------------------------------------------------
\* The turns of the scene

\* A turn of the game that runs keeps it sounding as it should.
LEMMA TurnSound ==
  ASSUME NEW g, Sound(g), ~g.pause, g.failTimer = 0
  PROVE  Sound(RockAtEnd(ResumeCountDown(CountDown(g))))
<1>1. ASSUME NEW h, Sound(h), ~h.pause, h.failTimer = 0
      PROVE  LET c == CountDown(h) IN Sound(c) /\ ~c.pause /\ c.failTimer = 0
  <2>1. h \in Game /\ h.countdown \in UpTo(Countdown)
    BY <1>1 DEF Sound, Game
  <2> DEFINE n == h.countdown - 1
             b == IF h.countdown = 1 THEN "playing" ELSE h.audio
             c == [h EXCEPT !.countdown = n, !.audio = b]
  <2>2. CASE h.countdown > 0 /\ h.countdownOK
    <3>1. CountDown(h) = c
      BY <2>1, <2>2 DEF CountDown, Game
    <3>2. n \in UpTo(Countdown)
      BY <2>1, <2>2, SessionAssumption DEF UpTo
    <3>3. b \in {"stopped", "playing", "paused", "ended"}
      BY <2>1 DEF Game
    <3>4. b = "paused" => h.audio = "paused"
      OBVIOUS
    <3> HIDE DEF n, b
    <3>5. c \in Game
      BY <2>1, <3>2, <3>3 DEF Game
    <3>6. c.song = h.song /\ c.audio = b /\ c.pause = h.pause /\ c.failed = h.failed
          /\ c.failTimer = h.failTimer /\ c.resumeCountdown = h.resumeCountdown
      BY <2>1 DEF Game
    <3> HIDE DEF c
    <3>7. Sound(c)
      BY <1>1, <3>4, <3>5, <3>6 DEF Sound
    <3> QED  BY <1>1, <3>1, <3>6, <3>7
  <2>3. CASE ~ (h.countdown > 0 /\ h.countdownOK)
    BY <1>1, <2>3 DEF CountDown
  <2> QED  BY <2>2, <2>3
<1>2. ASSUME NEW h, Sound(h), ~h.pause, h.failTimer = 0
      PROVE  Sound(ResumeCountDown(h))
  <2>1. h \in Game /\ h.resumeCountdown \in UpTo(ResumeTurns)
    BY <1>2 DEF Sound, Game
  <2> DEFINE n == h.resumeCountdown - 1
             k == [h EXCEPT !.resumeCountdown = n]
             b == IF k.audio = "paused" THEN "playing" ELSE k.audio
             u == [k EXCEPT !.audio = b, !.pause = FALSE]
  <2>2. CASE h.resumeCountdown > 0
    <3>1. n \in UpTo(ResumeTurns) /\ (n # 0 => n > 0)
      BY <2>1, <2>2, SessionAssumption DEF UpTo
    <3>2. ResumeCountDown(h) = IF k.resumeCountdown = 0 THEN [songUnpause(k) EXCEPT !.pause = FALSE] ELSE k
      BY <2>2 DEF ResumeCountDown
    <3> HIDE DEF n
    <3>3. k \in Game
      BY <2>1, <3>1 DEF Game
    <3>4. k.song = h.song /\ k.audio = h.audio /\ k.pause = h.pause /\ k.failed = h.failed
          /\ k.failTimer = h.failTimer /\ k.resumeCountdown = n
      BY <2>1 DEF Game
    <3> HIDE DEF k
    <3>5. [songUnpause(k) EXCEPT !.pause = FALSE] = u
      BY <3>3 DEF songUnpause, Game
    <3>6. b \in {"stopped", "playing", "paused", "ended"} /\ b # "paused"
      BY <3>3 DEF Game
    <3> HIDE DEF b
    <3>7. u \in Game
      BY <3>3, <3>6 DEF Game
    <3>8. u.song = h.song /\ u.audio = b /\ u.pause = FALSE /\ u.failed = h.failed
          /\ u.failTimer = h.failTimer
      BY <3>3, <3>4 DEF Game
    <3> HIDE DEF u
    <3>9. Sound(u)
      BY <1>2, <3>6, <3>7, <3>8 DEF Sound
    <3>10. n # 0 => Sound(k)
      BY <1>2, <3>1, <3>3, <3>4 DEF Sound
    <3> QED  BY <3>2, <3>4, <3>5, <3>9, <3>10
  <2>3. CASE ~ (h.resumeCountdown > 0)
    BY <1>2, <2>3 DEF ResumeCountDown
  <2> QED  BY <2>2, <2>3
<1>3. ASSUME NEW h, Sound(h) PROVE Sound(RockAtEnd(h))
  <2> DEFINE r == [h EXCEPT !.youRock = TRUE]
  <2>1. h \in Game
    BY <1>3 DEF Sound
  <2>2. r \in Game /\ r.song = h.song /\ r.audio = h.audio /\ r.pause = h.pause
        /\ r.failed = h.failed /\ r.failTimer = h.failTimer
        /\ r.resumeCountdown = h.resumeCountdown
    BY <2>1 DEF Game
  <2> HIDE DEF r
  <2>3. Sound(r)
    BY <1>3, <2>2 DEF Sound
  <2> QED  BY <1>3, <2>3 DEF RockAtEnd, r
<1> DEFINE c == CountDown(g)
<1>4. Sound(c) /\ ~c.pause /\ c.failTimer = 0
  BY <1>1
<1> HIDE DEF c
<1>5. Sound(ResumeCountDown(c))
  BY <1>2, <1>4
<1> QED  BY <1>3, <1>5 DEF c

\* The message that the player has failed, and what follows it.
LEMMA MessageGood ==
  ASSUME Set, NEW w, Good(w), w.game.failed
  PROVE  Good(FailMessage(w))
<1>1. w \in Worlds /\ Sound(w.game) /\ w.game \in Game /\ w.game.failTimer \in UpTo(FailTurns)
  BY DEF Good, Sound, Game
<1>2. CASE w.game.failTimer < FailTurns
  <2> DEFINE h == w.game
             n == h.failTimer + 1
             b == IF h.failTimer = 0 /\ h.audio = "playing" THEN "paused" ELSE h.audio
             a == [h EXCEPT !.audio = b]
             g == [a EXCEPT !.failTimer = n]
  <2>1. FailMessage(w) = [w EXCEPT !.game = g]
    <3>1. a = IF h.failTimer = 0 THEN songPause(h) ELSE h
      BY <1>1 DEF songPause, Game
    <3>2. FailMessage(w) = LET k == IF h.failTimer = 0 THEN songPause(h) ELSE h
                           IN  [w EXCEPT !.game = [k EXCEPT !.failTimer = k.failTimer + 1]]
      <4>1. ~ (w.game.failTimer = FailTurns)
        BY <1>2, SessionAssumption
      <4> QED  BY <1>2, <4>1, Zenon DEF FailMessage
    <3>3. a.failTimer = h.failTimer
      BY <1>1 DEF Game
    <3> HIDE DEF a
    <3> QED  BY <3>1, <3>2, <3>3
  <2>2. n \in UpTo(FailTurns) /\ n > 0
    BY <1>1, <1>2, SessionAssumption DEF UpTo
  <2>3. b \in {"stopped", "playing", "paused", "ended"}
    BY <1>1 DEF Game
  <2>4. ~ (h.song /\ b = "playing")
    <3>1. h.failTimer = 0 \/ h.failTimer > 0
      BY <1>1, SessionAssumption DEF UpTo
    <3> QED  BY <1>1, <3>1 DEF Sound
  <2> HIDE DEF n, b
  <2>5. a \in Game /\ a.audio = b /\ a.song = h.song /\ a.failed = h.failed
    BY <1>1, <2>3 DEF Game
  <2> HIDE DEF a
  <2>6. g \in Game /\ g.audio = b /\ g.song = h.song /\ g.failed = h.failed
    BY <2>2, <2>5 DEF Game
  <2> HIDE DEF g
  <2>7. Sound(g)
    BY <2>4, <2>6 DEF Sound
  <2> QED  BY <2>1, <2>7, Replaced
<1>3. CASE w.game.failTimer = FailTurns
  <2>1. ~ (w.game.failTimer < FailTurns)
    BY <1>3, SessionAssumption
  <2>2. FailMessage(w) = IF ~w.game.failEnd THEN failGame(w) ELSE w
    BY <1>3, <2>1 DEF FailMessage
  <2> QED  BY <1>3, <2>2, FailGood
<1>4. w.game.failTimer < FailTurns \/ w.game.failTimer = FailTurns
  BY <1>1, SessionAssumption DEF UpTo
<1> QED  BY <1>2, <1>3, <1>4

-----------------------------------------------------------------------------
\* The actions

\* The invariant says that what is here is good.
LEMMA HereIsGood ==
  ASSUME IInv
  PROVE  Good(Here) /\ Here.view = view /\ Here.game = game
<1>1. view \in View /\ game \in Game /\ Shaped(view) /\ Hears(view) /\ Sound(game)
  BY DEF IInv, Shaped, Sound
<1>2. Here \in Worlds /\ Here.view = view /\ Here.game = game
  BY <1>1 DEF Here, Worlds
<1> QED  BY <1>1, <1>2 DEF Good

\* A good view and a good game are what the invariant asks of the next state.
LEMMA GoodBecomesInv ==
  ASSUME IInv, UNCHANGED settings, NEW w, Good(w), Become(w),
         stage' \in {"input", "view", "scene", "render"}
  PROVE  IInv'
<1>1. Set' /\ Transitions' = Transitions
  BY DEF IInv, Set
<1>2. Shaped(w.view) /\ Hears(w.view) /\ Sound(w.game) /\ view' = w.view /\ game' = w.game
  BY DEF Good, Become
<1>3. Shaped(view)'
  BY <1>2 DEF Shaped
<1>4. Hears(view)' /\ Sound(game)'
  BY <1>2 DEF Hears, Sound
<1> QED  BY <1>1, <1>3, <1>4 DEF IInv

\* A start key pauses the game and shows the menu.
LEMMA StartPressedKeeps ==
  ASSUME IInv, StartPressed
  PROVE  IInv'
<1> DEFINE g == pauseGame(Here.game)
           k == [Here EXCEPT !.game = g]
           w == pushLayer(k, "menu")
<1>1. Set /\ Good(Here) /\ Sound(Here.game)
  BY HereIsGood DEF IInv, Good
<1>2. Sound(g)
  BY <1>1, PauseSound
<1>3. Become(w) /\ UNCHANGED <<stage, settings>>
  BY DEF StartPressed
<1> HIDE DEF g
<1>4. Good(k)
  BY <1>1, <1>2, Replaced
<1> HIDE DEF k
<1>5. Good(w)
  BY <1>1, <1>4, PushGood DEF Layers, Menus
<1> HIDE DEF w
<1> QED  BY <1>3, <1>5, GoodBecomesInv DEF IInv

\* A choice of the pause menu.
LEMMA MenuChosenKeeps ==
  ASSUME IInv, MenuChosen
  PROVE  IInv'
<1>1. Set /\ Good(Here) /\ UNCHANGED <<stage, settings>>
  BY HereIsGood DEF IInv, MenuChosen
<1>2. PICK w : Become(w) /\ \/ w = resumeSong(Here) \/ w = restart(Here, "menu")
                            \/ \E score \in BOOLEAN : w = endSong(Here, score)
                            \/ w = changeSong(Here)
  BY DEF MenuChosen
<1>3. Good(resumeSong(Here)) /\ Good(restart(Here, "menu")) /\ Good(changeSong(Here))
  BY <1>1, GoOnGood, ChangeGood DEF Menus
<1>4. \A score \in BOOLEAN : Good(endSong(Here, score))
  BY <1>1, ResultsGood
<1>5. Good(w)
  BY <1>2, <1>3, <1>4
<1> QED  BY <1>1, <1>2, <1>5, GoodBecomesInv DEF IInv

\* The pause menu is left by its cancel key: it hears no more, and fades.
LEMMA MenuCancelledKeeps ==
  ASSUME IInv, MenuCancelled
  PROVE  IInv'
<1> DEFINE p == popLayer(Here, "menu")
           v == removeKeyListener(p.view, "menu")
           w == [p EXCEPT !.view = v]
<1>1. /\ Good(Here) /\ Here.game = game /\ UNCHANGED <<stage, settings, game>>
      /\ view' = v /\ "menu" \in Layers
  BY HereIsGood DEF MenuCancelled, Layers, Menus
<1>2. Good(p) /\ ~ Up(p.view, "menu") /\ p.game = game
  BY <1>1, PopGood
<1> HIDE DEF p
<1>3. Shaped(v) /\ Hears(v)
  BY <1>1, <1>2, UnlistenHears DEF Good
<1> HIDE DEF v
<1>4. Good(w) /\ w.view = v /\ w.game = game
  BY <1>2, <1>3, Replaced DEF Good, Worlds
<1> HIDE DEF w
<1> QED  BY <1>1, <1>4, GoodBecomesInv DEF Become, IInv

\* A choice of the fail menu.
LEMMA FailMenuChosenKeeps ==
  ASSUME IInv, FailMenuChosen
  PROVE  IInv'
<1>1. Set /\ Good(Here) /\ UNCHANGED <<stage, settings>>
  BY HereIsGood DEF IInv, FailMenuChosen
<1>2. PICK w : Become(w) /\ \/ w = restart(Here, "failMenu")
                            \/ w = changeAfterFail(Here) \/ w = changeSong(Here)
  BY DEF FailMenuChosen
<1>3. Good(restart(Here, "failMenu")) /\ Good(changeAfterFail(Here)) /\ Good(changeSong(Here))
  BY <1>1, GoOnGood, ChangeGood DEF Menus
<1>4. Good(w)
  BY <1>2, <1>3
<1> QED  BY <1>1, <1>2, <1>4, GoodBecomesInv DEF IInv

\* The fail menu is left by its cancel key, after it was popped.
LEMMA FailMenuCancelledKeeps ==
  ASSUME IInv, FailMenuCancelled
  PROVE  IInv'
<1> DEFINE c == changeAfterFail(Here)
           v == removeKeyListener(c.view, "failMenu")
           w == [c EXCEPT !.view = v]
<1>1. /\ Set /\ Good(Here) /\ UNCHANGED <<stage, settings>>
      /\ view' = v /\ game' = c.game
  BY HereIsGood DEF FailMenuCancelled, IInv
<1>2. Good(c) /\ ~ Up(c.view, "failMenu") /\ "failMenu" \in Layers
  BY <1>1, ChangeGood DEF Layers, Menus
<1> HIDE DEF c
<1>3. Shaped(v) /\ Hears(v)
  BY <1>2, UnlistenHears DEF Good
<1> HIDE DEF v
<1>4. Good(w) /\ w.view = v /\ w.game = c.game
  BY <1>2, <1>3, Replaced DEF Good, Worlds
<1> HIDE DEF w
<1> QED  BY <1>1, <1>4, GoodBecomesInv DEF Become, IInv

\* The program lost the focus: the menu is shown and the game paused.
LEMMA LostFocusKeeps ==
  ASSUME IInv, lostFocus
  PROVE  IInv'
<1> DEFINE k == pushLayer(Here, "menu")
           g == pauseGame(k.game)
           w == [k EXCEPT !.game = g]
<1>1. Set /\ Good(Here) /\ Become(w) /\ UNCHANGED <<stage, settings>>
  BY HereIsGood DEF IInv, lostFocus
<1>2. Good(k)
  BY <1>1, PushGood DEF Layers, Menus
<1> HIDE DEF k
<1>3. Sound(g)
  BY <1>2, PauseSound DEF Good
<1> HIDE DEF g
<1>4. Good(w)
  BY <1>2, <1>3, Replaced
<1> HIDE DEF w
<1> QED  BY <1>1, <1>4, GoodBecomesInv DEF IInv

\* The layers fade by a turn, and those that are gone leave.
LEMMA ViewRunKeeps ==
  ASSUME IInv, ViewRun
  PROVE  IInv'
<1> DEFINE gone == Gone(view)
           d == Visibility(view)
           v == [view EXCEPT !.visibility = d]
           w == [Here EXCEPT !.view = v]
           a == leaveIf(w, "scene", gone)
           b == leaveIf(a, "next", gone)
           c == leaveIf(b, "menu", gone)
           e == leaveIf(c, "failMenu", gone)
<1>1. /\ Set /\ Good(Here) /\ Here.view = view /\ Shaped(view) /\ Hears(view)
      /\ view \in View /\ Listed(view)
  BY HereIsGood DEF IInv, Shaped
<1>2. Become(e) /\ stage' = "scene" /\ UNCHANGED settings
  <2>1. w = [Here EXCEPT !.view.visibility = Visibility(view)]
    BY <1>1 DEF Good, Worlds
  <2> QED  BY <2>1 DEF ViewRun
<1>3. d \in [Layers -> Nat] /\ \A l \in Layers : d[l] <= settings.transition
  <2>1. settings.transition \in Nat /\ settings.transition > 0
    <3>1. settings.transition \in Transitions
      BY <1>1 DEF Set
    <3>2. Transitions \subseteq Nat /\ 0 \notin Transitions
      BY SessionAssumption
    <3>3. settings.transition \in Nat /\ settings.transition # 0
      BY <3>1, <3>2
    <3> QED  BY <3>3
  <2>2. ASSUME NEW l \in Layers PROVE d[l] \in Nat /\ d[l] <= settings.transition
    <3>1. view.visibility[l] \in Nat /\ view.visibility[l] <= settings.transition
      BY <1>1 DEF Shaped, View
    <3>2. d[l] = CASE l \notin Range(view.layers) -> 0
                   [] l \in Range(view.layers) /\ Fades(view, l) ->
                        IF view.visibility[l] > 0 THEN view.visibility[l] - 1 ELSE 0
                   [] OTHER -> IF view.visibility[l] < settings.transition
                               THEN view.visibility[l] + 1 ELSE settings.transition
      BY DEF Visibility
    <3> HIDE DEF d
    <3> QED  BY <2>1, <3>1, <3>2
  <2> QED  BY <2>2 DEF Visibility
<1> HIDE DEF d, gone
<1>4. v \in View /\ v.layers = view.layers /\ v.outgoing = view.outgoing
      /\ v.listeners = view.listeners /\ v.visibility = d
  BY <1>1, <1>3 DEF View
<1> HIDE DEF v
<1>5. Shaped(v) /\ Hears(v)
  BY <1>1, <1>3, <1>4 DEF Shaped, Listed, Hears, Up
<1>6. Good(w)
  BY <1>1, <1>5, Replaced
<1> HIDE DEF w
<1>7. {"scene", "next", "menu", "failMenu"} \subseteq Layers
  BY DEF Layers, Menus
<1>8. Good(a)
  BY <1>1, <1>6, <1>7, LeaveGood
<1> HIDE DEF a
<1>9. Good(b)
  BY <1>1, <1>7, <1>8, LeaveGood
<1> HIDE DEF b
<1>10. Good(c)
  BY <1>1, <1>7, <1>9, LeaveGood
<1> HIDE DEF c
<1>11. Good(e)
  BY <1>1, <1>7, <1>10, LeaveGood
<1> HIDE DEF e
<1> QED  BY <1>2, <1>11, GoodBecomesInv

\* A turn of the scene: the song may end, the player may fail, the results may follow.
LEMMA SceneRunKeeps ==
  ASSUME IInv, SceneRun
  PROVE  IInv'
<1>1. Set /\ stage' = "render" /\ UNCHANGED settings /\ Good(Here)
      /\ Here.view = view /\ Here.game = game /\ Sound(game) /\ game \in Game
  BY HereIsGood DEF IInv, SceneRun, Sound
<1>2. CASE game.song /\ ~game.pause /\ ~game.failed
  <2> DEFINE gg(ended, failed) ==
               [game EXCEPT !.audio = IF ended THEN "ended" ELSE @, !.failed = failed]
             kk(ended, failed) == RockAtEnd(ResumeCountDown(CountDown(gg(ended, failed))))
  <2>1. PICK ended \in BOOLEAN, failed \in BOOLEAN, score \in BOOLEAN :
          LET k == kk(ended, failed)
              w == [view |-> view, game |-> k]
          IN  Become(IF k.rockTimer = RockTurns /\ ~k.pause THEN goToResults(w, score) ELSE w)
    BY <1>2 DEF SceneRun
  <2> DEFINE a == IF ended THEN "ended" ELSE game.audio
             h == [game EXCEPT !.audio = a]
             g == [h EXCEPT !.failed = failed]
             k == kk(ended, failed)
             w == [view |-> view, game |-> k]
             r == IF k.rockTimer = RockTurns /\ ~k.pause THEN goToResults(w, score) ELSE w
  <2>2. g = gg(ended, failed)
    BY <1>1 DEF Game
  <2>3. a \in {"stopped", "playing", "paused", "ended"} /\ (a = "paused" => game.audio = "paused")
    BY <1>1 DEF Game
  <2> HIDE DEF a
  <2>4. /\ h \in Game /\ h.audio = a /\ h.song = game.song /\ h.pause = game.pause
        /\ h.failTimer = game.failTimer /\ h.resumeCountdown = game.resumeCountdown
    BY <1>1, <2>3 DEF Game
  <2> HIDE DEF h
  <2>5. /\ g \in Game /\ g.audio = a /\ g.song = game.song /\ g.pause = game.pause
        /\ g.failTimer = game.failTimer /\ g.resumeCountdown = game.resumeCountdown
    BY <2>4 DEF Game
  <2> HIDE DEF g, gg
  <2>6. Sound(g) /\ ~g.pause /\ g.failTimer = 0
    BY <1>1, <1>2, <2>3, <2>5 DEF Sound
  <2>7. Sound(k)
    BY <2>2, <2>6, TurnSound
  <2>8. Become(r)
    BY <2>1
  <2> HIDE DEF kk, k
  <2>9. Good(w)
    <3>1. w = [Here EXCEPT !.game = k]
      BY DEF Here
    <3> QED  BY <1>1, <2>7, <3>1, Replaced
  <2> HIDE DEF w
  <2>10. Good(r)
    BY <1>1, <2>9, ResultsGood
  <2> HIDE DEF r
  <2> QED  BY <1>1, <2>8, <2>10, GoodBecomesInv
<1>3. CASE ~ (game.song /\ ~game.pause /\ ~game.failed)
  <2>1. Become(Here)
    BY <1>1, <1>3 DEF SceneRun, Become
  <2> QED  BY <1>1, <2>1, GoodBecomesInv
<1> QED  BY <1>2, <1>3

\* What is shown in a turn, and counted while it is shown.
LEMMA RenderKeeps ==
  ASSUME IInv, Render
  PROVE  IInv'
<1>1. Set /\ stage' = "input" /\ UNCHANGED settings /\ Good(Here)
      /\ Here.view = view /\ Here.game = game /\ Sound(game) /\ game \in Game
  BY HereIsGood DEF IInv, Render, Sound
<1>2. CASE game.song
  <2> DEFINE b == game.countdownOK \/ game.countdown > 0
             n == IF game.youRock /\ game.rockTimer < RockTurns THEN game.rockTimer + 1
                                                                ELSE game.rockTimer
             h == [game EXCEPT !.countdownOK = b]
             g == [h EXCEPT !.rockTimer = n]
             w == [view |-> view, game |-> g]
             r == IF g.failed THEN FailMessage(w) ELSE w
  <2>1. Become(r)
    <3>1. g = [game EXCEPT !.countdownOK = @ \/ game.countdown > 0,
                           !.rockTimer = IF game.youRock /\ @ < RockTurns THEN @ + 1 ELSE @]
      BY <1>1 DEF Game
    <3> HIDE DEF g
    <3> QED  BY <1>2, <3>1 DEF Render
  <2>2. b \in BOOLEAN
    BY <1>1 DEF Game
  <2>3. n \in UpTo(RockTurns)
    <3>1. game.rockTimer \in UpTo(RockTurns)
      BY <1>1 DEF Game
    <3> QED  BY <3>1, SessionAssumption DEF UpTo
  <2> HIDE DEF b, n
  <2>4. /\ h \in Game /\ h.audio = game.audio /\ h.song = game.song /\ h.pause = game.pause
        /\ h.failed = game.failed /\ h.failTimer = game.failTimer
        /\ h.resumeCountdown = game.resumeCountdown
    BY <1>1, <2>2 DEF Game
  <2> HIDE DEF h
  <2>5. /\ g \in Game /\ g.audio = game.audio /\ g.song = game.song /\ g.pause = game.pause
        /\ g.failed = game.failed /\ g.failTimer = game.failTimer
        /\ g.resumeCountdown = game.resumeCountdown
    BY <2>3, <2>4 DEF Game
  <2> HIDE DEF g
  <2>6. Sound(g)
    BY <1>1, <2>5 DEF Sound
  <2>7. Good(w) /\ w.game = g
    <3>1. w = [Here EXCEPT !.game = g]
      BY DEF Here
    <3> QED  BY <1>1, <2>6, <3>1, Replaced
  <2> HIDE DEF w
  <2>8. Good(r)
    BY <1>1, <2>7, MessageGood
  <2> HIDE DEF r
  <2> QED  BY <1>1, <2>1, <2>8, GoodBecomesInv
<1>3. CASE ~game.song
  <2>1. Become(Here)
    BY <1>1, <1>3 DEF Render, Become
  <2> QED  BY <1>1, <2>1, GoodBecomesInv
<1> QED  BY <1>2, <1>3

-----------------------------------------------------------------------------
\* The invariant holds when the scene has just been opened.
LEMMA InitEstablishes == Init => IInv
<1> SUFFICES ASSUME Init PROVE IInv
  OBVIOUS
<1>1. stage = "input" /\ Set
  BY DEF Init, Set
<1> DEFINE s == <<"scene">>
<1>2. "scene" \in Layers /\ s \in Seq(Layers) /\ Len(s) = 1 /\ s[1] = "scene" /\ DOMAIN s = 1 .. 1
  BY DEF Layers
<1>3. Range(s) = {"scene"} /\ IsInjective(s)
  BY <1>2 DEF Range, IsInjective
<1>4. /\ view.layers = s /\ view.listeners = s /\ view.outgoing = {}
      /\ view.visibility = [l \in Layers |-> 0] /\ view \in View
  BY <1>2 DEF Init, View
<1>5. Shaped(view)
  <2>1. settings.transition \in Nat
    BY <1>1, SessionAssumption DEF Set
  <2> HIDE DEF s
  <2> QED  BY <1>3, <1>4, <2>1 DEF Shaped, Listed
<1>6. Hears(view)
  BY <1>3, <1>4 DEF Hears, Up, Menus
<1>7. game \in Game /\ game.audio = "stopped" /\ ~game.failed /\ game.failTimer = 0
  <2>1. Countdown \in UpTo(Countdown) /\ 0 \in UpTo(ResumeTurns) /\ 0 \in UpTo(FailTurns)
        /\ 0 \in UpTo(RockTurns)
    BY SessionAssumption DEF UpTo
  <2> QED  BY <2>1 DEF Init, Game
<1>8. Sound(game)
  BY <1>7 DEF Sound
<1> QED  BY <1>1, <1>5, <1>6, <1>8 DEF IInv

\* Every step of the loop, and every key, preserves it.
LEMMA NextKeeps == IInv /\ [Next]_vars => IInv'
<1> SUFFICES ASSUME IInv, [Next]_vars PROVE IInv'
  OBVIOUS
<1>1. CASE StartPressed \/ MenuChosen \/ MenuCancelled
  BY <1>1, StartPressedKeeps, MenuChosenKeeps, MenuCancelledKeeps
<1>2. CASE FailMenuChosen \/ FailMenuCancelled \/ lostFocus
  BY <1>2, FailMenuChosenKeeps, FailMenuCancelledKeeps, LostFocusKeeps
<1>3. CASE InputDone
  <2>1. Become(Here) /\ Good(Here) /\ stage' = "view" /\ UNCHANGED settings
    BY <1>3, HereIsGood DEF InputDone, Become
  <2> QED  BY <2>1, GoodBecomesInv
<1>4. CASE ViewRun \/ SceneRun \/ Render
  BY <1>4, ViewRunKeeps, SceneRunKeeps, RenderKeeps
<1>5. CASE UNCHANGED vars
  BY <1>5 DEF vars, IInv, Set, Shaped, Hears, Sound, Listed, View, Up
<1> QED  BY <1>1, <1>2, <1>3, <1>4, <1>5 DEF Next

\* What is always so while FoFiX runs a song, with its menus.
THEOREM Invariance == Spec => []IInv
<1>1. Init => IInv
  BY InitEstablishes
<1>2. IInv /\ [Next]_vars => IInv'
  BY NextKeeps
<1> QED  BY <1>1, <1>2, PTL DEF Spec

\* The layers and the listeners of Input are lists without repetitions, only a
\* layer that is in its list fades, and no countdown goes beyond its end.
THEOREM TypeCorrect == Spec => []TypeOK
<1>1. IInv => TypeOK
  BY DEF IInv, Set, Shaped, Sound, TypeOK
<1> QED  BY <1>1, Invariance, PTL

\* The song sounds only while the game runs, and does not wait while it runs,
\* whichever menus were shown and closed, in whichever turns.
THEOREM SoundFollows == Spec => []SoundFollowsGame
<1>1. IInv => SoundFollowsGame
  BY DEF IInv, Sound, SoundFollowsGame
<1> QED  BY <1>1, Invariance, PTL

\* A menu that is up hears the keys, also when it was shown again as it faded.
THEOREM MenusListen == Spec => []MenusHearKeys
<1>1. IInv => MenusHearKeys
  BY DEF IInv, Hears, MenusHearKeys
<1> QED  BY <1>1, Invariance, PTL

=============================================================================
