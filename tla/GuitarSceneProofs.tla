------------------------- MODULE GuitarSceneProofs -------------------------
(***************************************************************************)
(* Proofs about the guitarist's game, for any songs, frets and windows.    *)
(*                                                                         *)
(* What a pick can do is said once, by the relations Misses and Hits; that *)
(* each handler is one of the two, and what the invariant makes of them,   *)
(* is shown apart.                                                         *)
(***************************************************************************)
EXTENDS GuitarScene, FiniteSetTheorems, WellFoundedInduction, TLAPS

HitChords(g) == g.played \cup g.hopod

\* A press of a fret is taken for a hammer-on.
HopoExpected(g) == g.hopoActive > 0 \/ (g.wasLastNoteHopod /\ g.hopoActive = 0)

\* From g to h nothing is hit.
Misses(g, h) ==
  /\ h.played = g.played /\ h.hopod = g.hopod /\ h.matchingNotes = g.matchingNotes
  /\ h.notesHit = g.notesHit /\ h.totalStreakNotes = g.totalStreakNotes
  /\ h.noteHit = g.noteHit
  /\ g.skipped \subseteq h.skipped
  /\ HopoExpected(h) => HopoExpected(g)

\* From g to h the chord c is hit, and those before it are skipped.
HitsChord(g, h, hopo, c) ==
  /\ h.played = g.played \cup {c}
  /\ h.hopod = IF hopo THEN g.hopod \cup {c} ELSE g.hopod
  /\ h.matchingNotes = g.matchingNotes
  /\ h.notesHit = g.notesHit + 1
  /\ h.totalStreakNotes = Max({g.totalStreakNotes, g.notesHit + 1})
  /\ g.skipped \cup {b \in g.matchingNotes : b < c} \subseteq h.skipped
  /\ HopoExpected(h) => Tappable(c) \in {1, 2}

Hits(g, h, hopo) == \E c \in g.matchingNotes : HitsChord(g, h, hopo, c)

\* What every pick does, also one that is matched with chords already judged.
Judges(g, h) ==
  h.matchingNotes = g.matchingNotes /\ Judged(g) \subseteq Judged(h)

\* And what it counts: at most one more chord is hit than before, and then the
\* count goes up, whether or not that chord had been hit before.
CountKept(g, h) ==
  /\ h.notesHit = g.notesHit /\ h.totalStreakNotes = g.totalStreakNotes
  /\ HitChords(h) \subseteq HitChords(g)
CountGrows(g, h) ==
  /\ h.notesHit = g.notesHit + 1
  /\ h.totalStreakNotes = Max({g.totalStreakNotes, g.notesHit + 1})
  /\ \E c : HitChords(h) \subseteq HitChords(g) \cup {c}
Counted(g, h) == CountKept(g, h) \/ CountGrows(g, h)

-----------------------------------------------------------------------------
\* A pick is matched with chords that are not too late, and with every one of
\* them that is before another.
Offered ==
  \A c \in game.matchingNotes :
    /\ Time(c) >= songTime - Margin
    /\ \A b \in Chords \ Judged(game) :
         b < c /\ Time(b) >= songTime - Margin => b \in game.matchingNotes

\* A chord that is too late, by its bucket too, is judged or was reported.
Passed ==
  \A c \in Chords : Time(c) + Margin + Bucket <= songTime /\ ~NearEnding(c)
                      => c \in Judged(game) \cup seen

InEnding == freestyleActive => songTime \in song.ending

\* Nothing is hit while the rock meter is empty.
NoHitWhenEmpty == rock = "none" => ~game.noteHit

\* The chords before one that was hit can be hit no more.
HitsGoForward ==
  \A h \in HitChords(game), c \in Chords :
    c < h => c \in Judged(game) \/ Time(c) < songTime - Margin

\* A hammer-on is expected only after a chord that is marked to be followed.
ExpectedFollows ==
  HopoExpected(game) =>
    \E a \in HitChords(game) : /\ \A h \in HitChords(game) : h <= a
                               /\ Tappable(a) \in {1, 2}

\* What the score card says, apart from chords that are not counted twice.
Totals ==
  /\ Cardinality(HitChords(game)) <= game.notesHit
  /\ game.totalStreakNotes = Max({Cardinality(Chords), game.notesHit})

CountsOnce == game.notesHit = Cardinality(HitChords(game))

IInv ==
  /\ TypeOK /\ Offered /\ Passed /\ InEnding /\ NoHitWhenEmpty /\ FailedIsFinal
  /\ TapFollowsHopo /\ Totals
  /\ ~stale => CountsOnce /\ HitsGoForward /\ ExpectedFollows

-----------------------------------------------------------------------------
LessThan == {ss \in Nat \X Nat : ss[1] < ss[2]}

\* There is no infinite descent among the natural numbers.
LEMMA NaturalsWellFounded == IsWellFoundedOn(LessThan, Nat)
  BY NatLessThanWellFounded DEF OpToRel, LessThan

\* The least number of a set.
LEMMA LeastNatural ==
  ASSUME NEW T, T \subseteq Nat, T # {}
  PROVE  \E y \in T : \A z \in T : y <= z
<1>1. PICK y \in T : \A z \in T : ~ (<<z, y>> \in LessThan)
  BY NaturalsWellFounded, WFMin, Zenon
<1>2. \A z \in T : ~ (z < y)
  BY <1>1 DEF LessThan
<1> QED  BY <1>2

\* The greatest number of a bounded set.
LEMMA MaxBounded ==
  ASSUME NEW S \in SUBSET Nat, S # {}, NEW n \in Nat, \A x \in S : x <= n
  PROVE  Max(S) \in S /\ \A x \in S : x <= Max(S)
<1>1. \A x \in S : n - x \in Nat
  OBVIOUS
<1>0. {n - x : x \in S} \subseteq Nat /\ {n - x : x \in S} # {}
  BY <1>1
<1>2. PICK y \in {n - x : x \in S} : \A z \in {n - x : x \in S} : y <= z
  BY <1>0, LeastNatural
<1>3. PICK m \in S : y = n - m
  BY <1>2
<1>4. \A x \in S : m >= x
  BY <1>2, <1>3
<1> QED  BY <1>3, <1>4 DEF Max

\* The greater of two numbers.
LEMMA MaxOfTwo ==
  ASSUME NEW a \in Int, NEW b \in Int
  PROVE  Max({a, b}) = IF a >= b THEN a ELSE b
<1> DEFINE m == IF a >= b THEN a ELSE b
<1>1. m \in {a, b} /\ \A y \in {a, b} : m >= y
  OBVIOUS
<1>2. \A x \in {a, b} : (\A y \in {a, b} : x >= y) => x = m
  OBVIOUS
<1> QED  BY <1>1, <1>2 DEF Max

\* What the assumptions say of the song that is played.
LEMMA SongFacts ==
  ASSUME song \in Songs
  PROVE  /\ IsFiniteSet(Chords) /\ Chords # {} /\ Chords \subseteq Nat
         /\ Cardinality(Chords) \in Nat /\ Chords = 1 .. Cardinality(Chords)
         /\ \A c \in Chords :
              /\ Time(c) \in Nat /\ song.chords[c].length \in Nat /\ EndOf(c) \in Nat
              /\ Strings(c) \in SUBSET Frets /\ Strings(c) # {}
              /\ song.chords[c].lead \in Strings(c)
              /\ Tappable(c) \in 0 .. 3
         /\ \A b, c \in Chords : b < c => Time(b) < Time(c)
         /\ Marked(song.chords)
         /\ Frets \subseteq 0 .. 4 /\ Lead \in Nat /\ Margin \in Nat \ {0}
         /\ Bucket \in Nat \ {0} /\ Step \in Nat \ {0} /\ Inputs \in Nat
         /\ Step + Bucket <= Margin
<1>1. SongType(song)
  BY GuitarSceneAssumption
<1>2. IsFiniteSet(Chords) /\ Chords = 1 .. Cardinality(Chords) /\ Chords # {}
  BY <1>1 DEF SongType, Chords
<1>3. Cardinality(Chords) \in Nat
  BY <1>2, FS_CardinalityType
<1>4. \A c \in Chords : ChordType(song.chords[c])
  BY <1>1 DEF SongType, Chords
<1>5. \A c \in Chords :
        /\ Time(c) \in Nat /\ song.chords[c].length \in Nat /\ EndOf(c) \in Nat
        /\ Strings(c) \in SUBSET Frets /\ Strings(c) # {}
        /\ song.chords[c].lead \in Strings(c)
        /\ Tappable(c) \in 0 .. 3
  BY <1>4 DEF ChordType, Time, EndOf, Strings, Tappable
<1>6. \A b, c \in Chords : b < c => Time(b) < Time(c)
  BY <1>1 DEF SongType, Chords, Time
<1>7. Marked(song.chords)
  BY <1>1 DEF SongType
<1> QED  BY <1>2, <1>3, <1>5, <1>6, <1>7, GuitarSceneAssumption

\* The last of some chords.
LEMMA LastOf ==
  ASSUME song \in Songs, NEW S \in SUBSET Chords, S # {}
  PROVE  Max(S) \in S /\ \A c \in S : c <= Max(S)
<1>1. S \in SUBSET Nat /\ Cardinality(Chords) \in Nat /\ \A c \in S : c <= Cardinality(Chords)
  BY SongFacts
<1> QED  BY <1>1, MaxBounded

\* The song ends after it has begun to be shown.
LEMMA SongEndType ==
  ASSUME song \in Songs PROVE SongEnd \in Nat /\ LastChord \in Chords
<1>1. LastChord \in Chords
  BY SongFacts, LastOf DEF LastChord
<1> QED  BY <1>1, SongFacts DEF SongEnd

-----------------------------------------------------------------------------
\* Where nothing is hit

\* Two moves that hit nothing are one.
LEMMA MissesTwice ==
  ASSUME NEW f, NEW g, NEW h, Misses(f, g), Misses(g, h) PROVE Misses(f, h)
  BY DEF Misses

\* Nor does what hits nothing take a judgement back.
LEMMA MissesJudges ==
  ASSUME NEW g, NEW h, Misses(g, h) PROVE Judges(g, h)
  BY DEF Misses, Judges, Judged

\* A broken streak.
LEMMA ScrewUpMisses ==
  ASSUME NEW C, NEW g \in Game(C)
  PROVE  screwUp(g) \in Game(C) /\ Misses(g, screwUp(g))
<1>1. screwUp(g) \in Game(C)
  BY DEF Game, screwUp
<1>2. Misses(g, screwUp(g))
  BY DEF Game, screwUp, Misses, HopoExpected
<1> QED  BY <1>1, <1>2

\* Chords that are too late.
LEMMA CatchUpMisses ==
  ASSUME NEW g \in Game(Chords), NEW t
  PROVE  CatchUp(g, t) \in Game(Chords) /\ Misses(g, CatchUp(g, t))
<1>1. getMissedNotes(g, t) \subseteq Chords
  BY DEF getMissedNotes, Between
<1>2. CatchUp(g, t) \in Game(Chords)
  BY <1>1 DEF Game, CatchUp
<1>3. Misses(g, CatchUp(g, t))
  BY DEF Game, CatchUp, Misses, HopoExpected
<1> QED  BY <1>2, <1>3

\* A hammer-on that is not expected any more.
LEMMA ForgetMisses ==
  ASSUME NEW C, NEW g \in Game(C)
  PROVE  /\ ForgetHopo(g) \in Game(C) /\ Misses(g, ForgetHopo(g))
         /\ ForgetProblem(g) \in Game(C) /\ Misses(g, ForgetProblem(g))
<1>1. ForgetHopo(g) \in Game(C)
  <2> DEFINE k == [g EXCEPT !.hopoActive = 0]
             l == [k EXCEPT !.wasLastNoteHopod = FALSE, !.LastStrumWasChord = FALSE,
                            !.sameNoteHopoString = FALSE]
  <2>1. k \in Game(C)
    BY DEF Game
  <2> HIDE DEF k
  <2>2. l \in Game(C)
    BY <2>1 DEF Game
  <2> HIDE DEF l
  <2>3. [l EXCEPT !.hopoProblemNoteNum = NoFret, !.hopoLast = NoFret] \in Game(C)
    BY <2>2 DEF Game
  <2>4. ForgetHopo(g) = [l EXCEPT !.hopoProblemNoteNum = NoFret, !.hopoLast = NoFret]
    BY DEF ForgetHopo, k, l
  <2> QED  BY <2>3, <2>4
<1>2. Misses(g, ForgetHopo(g))
  BY DEF Game, ForgetHopo, Misses, HopoExpected
<1>3. ForgetProblem(g) \in Game(C)
  BY DEF Game, ForgetProblem
<1>4. Misses(g, ForgetProblem(g))
  BY DEF Game, ForgetProblem, Misses, HopoExpected
<1> QED  BY <1>1, <1>2, <1>3, <1>4

\* A pick that hit nothing.
LEMMA PenaltyMisses ==
  ASSUME NEW C, NEW g \in Game(C), NEW hopo, NEW last, NEW higher
  PROVE  Penalty(g, hopo, last, higher) \in Game(C) /\ Misses(g, Penalty(g, hopo, last, higher))
<1> DEFINE r == IF hopo /\ ~(g.LastStrumWasChord \/ (g.wasLastNoteHopod /\ last))
                THEN ForgetHopo(g) ELSE g
           q == [r EXCEPT !.playedNotes = r.lastPlayedNotes]
           k == CASE r.sameNoteHopoString /\ last -> ForgetProblem(q)
                  [] r.sameNoteHopoString /\ ~last /\ higher -> ForgetProblem(r)
                  [] OTHER -> r
<1>0. Misses(g, g)
  BY DEF Misses
<1>1. r \in Game(C) /\ Misses(g, r)
  BY <1>0, ForgetMisses
<1> HIDE DEF r
<1>2. q \in Game(C)
  BY <1>1 DEF Game
<1>3. Misses(r, q)
  BY <1>1 DEF Game, Misses, HopoExpected
<1> HIDE DEF q
<1>4. k \in Game(C) /\ Misses(g, k)
  BY <1>1, <1>2, <1>3, ForgetMisses, MissesTwice
<1> HIDE DEF k
<1>5. screwUp(k) \in Game(C) /\ Misses(g, screwUp(k))
  BY <1>4, ScrewUpMisses, MissesTwice
<1>6. Penalty(g, hopo, last, higher) \in {k, screwUp(k)}
  BY DEF Penalty, k, q, r
<1> QED  BY <1>4, <1>5, <1>6

-----------------------------------------------------------------------------
\* Where something may be hit

\* A pick chooses one of the chords it is matched with, or none.
LEMMA ChosenOne ==
  ASSUME song \in Songs, NEW g \in Game(Chords), NEW hopo
  PROVE  Chosen(g, hopo) = {} \/ \E c \in g.matchingNotes : Chosen(g, hopo) = {c}
<1>1. g.matchingNotes \subseteq Nat
  BY SongFacts DEF Game
<1>2. Chosen(g, hopo) \subseteq g.matchingNotes
  BY DEF Chosen
<1>3. \A c, d \in Chosen(g, hopo) : c <= d
  BY DEF Chosen
<1>4. \A c, d \in Chosen(g, hopo) : c = d
  BY <1>1, <1>2, <1>3
<1> QED  BY <1>2, <1>4

\* The fields that matching the chords writes.
LEMMA Matched ==
  ASSUME song \in Songs, NEW g \in Game(Chords), NEW hopo
  PROVE  LET chosen == Chosen(g, hopo)
             missed == {c \in g.matchingNotes : \E d \in chosen : c < d}
             m == controlsMatchNotes3(g, hopo)
         IN  /\ m \in Game(Chords)
             /\ m = [g EXCEPT !.played = m.played, !.skipped = m.skipped]
             /\ m.played = (g.played \cup chosen) \ missed
             /\ m.skipped = g.skipped \cup missed
<1> DEFINE chosen == Chosen(g, hopo)
           missed == {c \in g.matchingNotes : \E d \in chosen : c < d}
           m == controlsMatchNotes3(g, hopo)
<1>1. m = [g EXCEPT !.played = (@ \cup chosen) \ missed, !.skipped = @ \cup missed]
  BY DEF controlsMatchNotes3
<1>2. chosen \subseteq Chords /\ missed \subseteq Chords
  BY ChosenOne DEF Game
<1> HIDE DEF chosen, missed, m
<1>3. m \in Game(Chords)
  BY <1>1, <1>2 DEF Game
<1>4. /\ m = [g EXCEPT !.played = m.played, !.skipped = m.skipped]
      /\ m.played = (g.played \cup chosen) \ missed
      /\ m.skipped = g.skipped \cup missed
  BY <1>1 DEF Game
<1> QED  BY <1>3, <1>4 DEF chosen, missed, m

\* The fields that a pick writes, but for those of the fret marked as a problem.
LEMMA Picked ==
  ASSUME song \in Songs, NEW g \in Game(Chords), NEW hopo \in BOOLEAN
  PROVE  LET m == controlsMatchNotes3(g, hopo)
             playing == m.matchingNotes \cap m.played
             p == startPick3(g, hopo)
         IN  /\ p \in Game(Chords)
             /\ p.playedNotes = playing
             /\ p.played = m.played /\ p.skipped = m.skipped
             /\ p.hopod = IF hopo THEN g.hopod \cup playing ELSE g.hopod
             /\ p.matchingNotes = g.matchingNotes /\ p.noteHit = g.noteHit
             /\ p.notesHit = g.notesHit /\ p.totalStreakNotes = g.totalStreakNotes
             /\ playing = {} => p.hopoActive = g.hopoActive
                                 /\ p.wasLastNoteHopod = g.wasLastNoteHopod
             /\ playing # {} => p.hopoActive = HopoActive(Max(playing))
                                 /\ p.wasLastNoteHopod = (Tappable(Max(playing)) \in 1 .. 3)
<1> DEFINE m == controlsMatchNotes3(g, hopo)
           playing == m.matchingNotes \cap m.played
           c == Max(playing)
           several == Cardinality(playing) > 1 \/ Cardinality(Strings(c)) > 1
           threes == {d \in playing : Tappable(d) = 3}
           q == [m EXCEPT !.lastPlayedNotes = g.playedNotes, !.playedNotes = playing]
           h == IF hopo /\ threes # {}
                THEN [q EXCEPT !.sameNoteHopoString = TRUE,
                               !.hopoProblemNoteNum = song.chords[Max(threes)].lead]
                ELSE q
           strummed == several /\ ChordTaps(playing)
           r == [h EXCEPT
              !.hopod = IF hopo THEN @ \cup playing ELSE @,
              !.hopoActive = HopoActive(c),
              !.wasLastNoteHopod = Tappable(c) \in 1 .. 3,
              !.hopoLast = song.chords[c].lead,
              !.LastStrumWasChord = strummed]
           p == startPick3(g, hopo)
<1>1. p = IF playing = {} THEN q ELSE r
  BY DEF startPick3
<1>2. /\ m \in Game(Chords) /\ m.matchingNotes = g.matchingNotes /\ m.noteHit = g.noteHit
      /\ m.notesHit = g.notesHit /\ m.totalStreakNotes = g.totalStreakNotes
      /\ m.hopod = g.hopod
      /\ m.hopoActive = g.hopoActive /\ m.wasLastNoteHopod = g.wasLastNoteHopod
  <2>1. m \in Game(Chords) /\ m = [g EXCEPT !.played = m.played, !.skipped = m.skipped]
    BY Matched
  <2> HIDE DEF m
  <2> QED  BY <2>1 DEF Game
<1> HIDE DEF m
<1>3. playing \subseteq Chords /\ threes \subseteq playing /\ g.playedNotes \subseteq Chords
  BY <1>2 DEF Game
<1>4. playing # {} => c \in Chords /\ song.chords[c].lead \in Frets
  BY <1>3, LastOf, SongFacts
<1>5. threes # {} => song.chords[Max(threes)].lead \in Frets
  <2> SUFFICES ASSUME threes # {} PROVE song.chords[Max(threes)].lead \in Frets
    OBVIOUS
  <2>1. Max(threes) \in Chords
    BY <1>3, LastOf
  <2> QED  BY <2>1, SongFacts
<1>6. playing # {} => HopoActive(c) \in Int
  <2> SUFFICES ASSUME playing # {} PROVE HopoActive(c) \in Int
    OBVIOUS
  <2>1. Time(c) \in Int
    BY <1>4, SongFacts
  <2> QED  BY <2>1 DEF HopoActive
<1>7. strummed \in BOOLEAN
  BY DEF ChordTaps
<1> HIDE DEF playing, c, several, threes, strummed
<1>8. q \in Game(Chords) /\ q = [m EXCEPT !.lastPlayedNotes = q.lastPlayedNotes, !.playedNotes = playing]
  BY <1>2, <1>3 DEF Game
<1>9. /\ q.playedNotes = playing /\ q.played = m.played /\ q.skipped = m.skipped
      /\ q.hopod = g.hopod
      /\ q.matchingNotes = g.matchingNotes /\ q.noteHit = g.noteHit
      /\ q.notesHit = g.notesHit /\ q.totalStreakNotes = g.totalStreakNotes
      /\ q.hopoActive = g.hopoActive /\ q.wasLastNoteHopod = g.wasLastNoteHopod
  BY <1>2 DEF Game
<1> HIDE DEF q
<1>10. h \in Game(Chords)
  <2> DEFINE fret == song.chords[Max(threes)].lead
  <2>1. ASSUME threes # {}
        PROVE  [q EXCEPT !.sameNoteHopoString = TRUE, !.hopoProblemNoteNum = fret] \in Game(Chords)
    <3>1. fret \in Frets
      BY <2>1, <1>5
    <3> HIDE DEF fret
    <3> QED  BY <1>8, <3>1 DEF Game
  <2> QED  BY <2>1, <1>8
<1>11. /\ h.playedNotes = playing /\ h.played = m.played /\ h.skipped = m.skipped
       /\ h.hopod = g.hopod
       /\ h.matchingNotes = g.matchingNotes /\ h.noteHit = g.noteHit
       /\ h.notesHit = g.notesHit /\ h.totalStreakNotes = g.totalStreakNotes
  BY <1>8, <1>9 DEF Game
<1> HIDE DEF h
<1>12. ASSUME playing # {} PROVE r \in Game(Chords)
  <2> DEFINE r1 == [h EXCEPT !.hopod = IF hopo THEN @ \cup playing ELSE @,
                             !.hopoActive = HopoActive(c)]
             r2 == [r1 EXCEPT !.wasLastNoteHopod = Tappable(c) \in 1 .. 3,
                              !.LastStrumWasChord = strummed]
  <2>1. r1 \in Game(Chords)
    BY <1>12, <1>10, <1>3, <1>6 DEF Game
  <2> HIDE DEF r1
  <2>2. (Tappable(c) \in 1 .. 3) \in BOOLEAN
    OBVIOUS
  <2>3. r2 \in Game(Chords)
    BY <2>1, <2>2, <1>7 DEF Game
  <2> HIDE DEF r2
  <2>4. [r2 EXCEPT !.hopoLast = song.chords[c].lead] \in Game(Chords)
    BY <2>3, <1>12, <1>4 DEF Game
  <2>5. r = [r2 EXCEPT !.hopoLast = song.chords[c].lead]
    BY DEF r1, r2
  <2> QED  BY <2>4, <2>5
<1>13. /\ r.playedNotes = playing /\ r.played = m.played /\ r.skipped = m.skipped
       /\ r.hopod = IF hopo THEN g.hopod \cup playing ELSE g.hopod
       /\ r.matchingNotes = g.matchingNotes /\ r.noteHit = g.noteHit
       /\ r.notesHit = g.notesHit /\ r.totalStreakNotes = g.totalStreakNotes
       /\ r.hopoActive = HopoActive(c)
       /\ r.wasLastNoteHopod = (Tappable(c) \in 1 .. 3)
  BY <1>10, <1>11 DEF Game
<1> HIDE DEF r
<1>14. CASE playing = {}
  BY <1>1, <1>8, <1>9, <1>14 DEF p, m, playing
<1>15. CASE playing # {}
  BY <1>1, <1>12, <1>13, <1>15 DEF p, m, playing, c
<1> QED  BY <1>14, <1>15

\* A pick that plays nothing hits nothing.
LEMMA NothingPlayed ==
  ASSUME song \in Songs, NEW g \in Game(Chords), NEW hopo \in BOOLEAN,
         startPick3(g, hopo).playedNotes = {}
  PROVE  Misses(g, startPick3(g, hopo))
<1> DEFINE chosen == Chosen(g, hopo)
           missed == {c \in g.matchingNotes : \E d \in chosen : c < d}
           m == controlsMatchNotes3(g, hopo)
           p == startPick3(g, hopo)
<1>1. /\ m \in Game(Chords)
      /\ m.played = (g.played \cup chosen) \ missed /\ m.skipped = g.skipped \cup missed
  BY Matched
<1>2. m.matchingNotes = g.matchingNotes
  BY Picked DEF controlsMatchNotes3, Game
<1>3. m.matchingNotes \cap m.played = {}
  BY Picked
<1>4. g.matchingNotes \subseteq Nat
  BY SongFacts DEF Game
<1>5. chosen = {}
  <2> SUFFICES ASSUME NEW c \in g.matchingNotes, chosen = {c} PROVE FALSE
    BY ChosenOne
  <2>1. c \notin missed
    BY <1>4
  <2> QED  BY <1>1, <1>2, <1>3, <2>1
<1>6. m.played = g.played /\ m.skipped = g.skipped
  BY <1>1, <1>5
<1>7. /\ p.played = m.played /\ p.skipped = m.skipped
      /\ p.hopod = g.hopod
      /\ p.matchingNotes = g.matchingNotes /\ p.noteHit = g.noteHit
      /\ p.notesHit = g.notesHit /\ p.totalStreakNotes = g.totalStreakNotes
      /\ p.hopoActive = g.hopoActive /\ p.wasLastNoteHopod = g.wasLastNoteHopod
  BY <1>3, Picked
<1> QED  BY <1>6, <1>7 DEF Misses, HopoExpected

\* A pick that plays something takes no judgement back either.
LEMMA PickJudges ==
  ASSUME song \in Songs, NEW g \in Game(Chords), NEW hopo \in BOOLEAN
  PROVE  Judges(g, startPick3(g, hopo))
<1> DEFINE chosen == Chosen(g, hopo)
           missed == {c \in g.matchingNotes : \E d \in chosen : c < d}
           m == controlsMatchNotes3(g, hopo)
           p == startPick3(g, hopo)
<1>1. m.played = (g.played \cup chosen) \ missed /\ m.skipped = g.skipped \cup missed
  BY Matched
<1>2. p.played = m.played /\ p.skipped = m.skipped /\ p.matchingNotes = g.matchingNotes
  BY Picked
<1>3. g.hopod \subseteq p.hopod
  <2>1. p.hopod = IF hopo THEN g.hopod \cup (m.matchingNotes \cap m.played) ELSE g.hopod
    BY Picked
  <2> QED  BY <2>1
<1> HIDE DEF chosen, missed, m, p
<1>4. Judged(g) \subseteq Judged(p)
  BY <1>1, <1>2, <1>3 DEF Judged
<1> QED  BY <1>2, <1>4 DEF Judges, p

\* A chord that was hit is counted.
LEMMA NoteHitCounts ==
  ASSUME NEW C, NEW g \in Game(C)
  PROVE  /\ noteHit(g) \in Game(C)
         /\ noteHit(g).played = g.played /\ noteHit(g).hopod = g.hopod
         /\ noteHit(g).skipped = g.skipped /\ noteHit(g).matchingNotes = g.matchingNotes
         /\ noteHit(g).notesHit = g.notesHit + 1
         /\ noteHit(g).totalStreakNotes = Max({g.totalStreakNotes, g.notesHit + 1})
         /\ noteHit(g).hopoActive = g.hopoActive
         /\ noteHit(g).wasLastNoteHopod = g.wasLastNoteHopod
<1> DEFINE most == Max({g.totalStreakNotes, g.notesHit + 1})
<1>1. g.streak \in Nat /\ g.notesHit \in Nat /\ g.totalStreakNotes \in Nat
  BY DEF Game
<1>2. most \in Nat
  BY <1>1, MaxOfTwo
<1>3. noteHit(g) = [g EXCEPT !.processedFirstNoteYet = TRUE, !.noteHit = TRUE,
                      !.streak = @ + 1, !.notesHit = @ + 1, !.totalStreakNotes = most]
  BY DEF noteHit, Game
<1> HIDE DEF most
<1>4. [g EXCEPT !.processedFirstNoteYet = TRUE, !.noteHit = TRUE] \in Game(C)
  BY DEF Game
<1>5. noteHit(g) \in Game(C)
  <2> DEFINE k == [g EXCEPT !.processedFirstNoteYet = TRUE, !.noteHit = TRUE]
             streaks == g.streak + 1
             hits == g.notesHit + 1
  <2>1. noteHit(g) = [k EXCEPT !.streak = streaks, !.notesHit = hits, !.totalStreakNotes = most]
    BY <1>3 DEF Game
  <2>2. streaks \in Nat /\ hits \in Nat
    BY <1>1
  <2> HIDE DEF k, streaks, hits
  <2>3. k \in Game(C)
    BY <1>4 DEF k
  <2> QED  BY <1>2, <2>1, <2>2, <2>3 DEF Game
<1>6. /\ noteHit(g).played = g.played /\ noteHit(g).hopod = g.hopod
      /\ noteHit(g).skipped = g.skipped /\ noteHit(g).matchingNotes = g.matchingNotes
      /\ noteHit(g).notesHit = g.notesHit + 1
      /\ noteHit(g).totalStreakNotes = most
      /\ noteHit(g).hopoActive = g.hopoActive
      /\ noteHit(g).wasLastNoteHopod = g.wasLastNoteHopod
  BY <1>3 DEF Game
<1> QED  BY <1>5, <1>6 DEF most

\* A pick that plays something counts, and hits no more than the chord it chose.
LEMMA SomethingCounted ==
  ASSUME song \in Songs, NEW g \in Game(Chords), NEW hopo \in BOOLEAN
  PROVE  CountGrows(g, noteHit(startPick3(g, hopo)))
<1> DEFINE chosen == Chosen(g, hopo)
           missed == {c \in g.matchingNotes : \E d \in chosen : c < d}
           m == controlsMatchNotes3(g, hopo)
           p == startPick3(g, hopo)
           n == noteHit(p)
<1>0. m.played = (g.played \cup chosen) \ missed
  BY Matched
<1>1. m.played \subseteq g.played \cup chosen
  BY <1>0
<1>2. /\ p \in Game(Chords) /\ p.played = m.played
      /\ p.hopod \subseteq g.hopod \cup m.played
      /\ p.notesHit = g.notesHit /\ p.totalStreakNotes = g.totalStreakNotes
  <2>1. p.hopod = IF hopo THEN g.hopod \cup (m.matchingNotes \cap m.played) ELSE g.hopod
    BY Picked
  <2>2. /\ p \in Game(Chords) /\ p.played = m.played
        /\ p.notesHit = g.notesHit /\ p.totalStreakNotes = g.totalStreakNotes
    BY Picked
  <2> HIDE DEF m, p
  <2> QED  BY <2>1, <2>2
<1>3. \E c : chosen \subseteq {c}
  BY ChosenOne
<1> HIDE DEF chosen, missed, m, p
<1>4. /\ n.played = p.played /\ n.hopod = p.hopod
      /\ n.notesHit = p.notesHit + 1
      /\ n.totalStreakNotes = Max({p.totalStreakNotes, p.notesHit + 1})
  BY <1>2, NoteHitCounts
<1> HIDE DEF n
<1>5. \E c : HitChords(n) \subseteq HitChords(g) \cup {c}
  BY <1>1, <1>2, <1>3, <1>4 DEF HitChords
<1>6. CountGrows(g, n)
  BY <1>2, <1>4, <1>5 DEF CountGrows
<1> QED  BY <1>6 DEF n, p

\* What hopoActive and wasLastNoteHopod say of the chord they were set for.
LEMMA ExpectedAfter ==
  ASSUME song \in Songs, NEW c \in Chords, NEW p,
         p.hopoActive = HopoActive(c), p.wasLastNoteHopod = (Tappable(c) \in 1 .. 3),
         HopoExpected(p)
  PROVE  Tappable(c) \in {1, 2}
<1>1. Tappable(c) \in 0 .. 3 /\ Time(c) \in Nat
  BY SongFacts
<1>2. Tappable(c) = 3 => Time(c) > 0
  <2> SUFFICES ASSUME Tappable(c) = 3 PROVE Time(c) > 0
    OBVIOUS
  <2>1. c - 1 \in Chords /\ c \in Nat
    BY SongFacts DEF Marked, Chords, Tappable
  <2>2. c - 1 < c
    BY <2>1
  <2>3. Time(c - 1) \in Nat /\ Time(c - 1) < Time(c)
    BY <2>1, <2>2, SongFacts
  <2> QED  BY <1>1, <2>3
<1>3. p.hopoActive > 0 \/ (Tappable(c) \in 1 .. 3 /\ p.hopoActive = 0)
  BY DEF HopoExpected
<1>4. CASE Tappable(c) = 3
  <2>1. p.hopoActive = -Time(c)
    BY <1>4 DEF HopoActive
  <2> QED  BY <1>1, <1>2, <1>3, <1>4, <2>1
<1>5. CASE Tappable(c) = 0
  <2>1. p.hopoActive = 0
    BY <1>5 DEF HopoActive
  <2> QED  BY <1>3, <1>5, <2>1
<1> QED  BY <1>1, <1>4, <1>5

\* A pick that plays something, and none of it for a second time, hits one chord.
LEMMA SomethingPlayed ==
  ASSUME song \in Songs, NEW g \in Game(Chords), NEW hopo \in BOOLEAN,
         startPick3(g, hopo).playedNotes # {}, g.matchingNotes \cap Judged(g) = {}
  PROVE  Hits(g, noteHit(startPick3(g, hopo)), hopo)
<1> DEFINE chosen == Chosen(g, hopo)
           missed == {c \in g.matchingNotes : \E d \in chosen : c < d}
           m == controlsMatchNotes3(g, hopo)
           p == startPick3(g, hopo)
           playing == m.matchingNotes \cap m.played
           n == noteHit(p)
<1>1. /\ m \in Game(Chords)
      /\ m.played = (g.played \cup chosen) \ missed /\ m.skipped = g.skipped \cup missed
  BY Matched
<1>2. m.matchingNotes = g.matchingNotes
  BY DEF controlsMatchNotes3, Game
<1>3. playing # {}
  BY Picked
<1>4. g.matchingNotes \subseteq Nat /\ g.matchingNotes \subseteq Chords
  BY SongFacts DEF Game
<1>5. g.matchingNotes \cap g.played = {}
  BY DEF Judged
<1>6. PICK c \in g.matchingNotes : chosen = {c}
  <2>1. chosen # {}
    BY <1>1, <1>2, <1>3, <1>5
  <2> QED  BY <2>1, ChosenOne
<1>7. missed = {b \in g.matchingNotes : b < c} /\ c \notin missed
  BY <1>4, <1>6
<1> HIDE DEF missed
<1>8. m.played = g.played \cup {c} /\ playing = {c}
  <2>1. missed \cap g.played = {}
    BY <1>5, <1>7
  <2> QED  BY <1>1, <1>2, <1>5, <1>6, <1>7, <2>1
<1>9. Max(playing) = c
  BY <1>8, <1>4, LastOf
<1>10. /\ p \in Game(Chords)
       /\ p.played = m.played /\ p.skipped = m.skipped
       /\ p.hopod = IF hopo THEN g.hopod \cup playing ELSE g.hopod
       /\ p.matchingNotes = g.matchingNotes
       /\ p.notesHit = g.notesHit /\ p.totalStreakNotes = g.totalStreakNotes
       /\ p.hopoActive = HopoActive(Max(playing))
       /\ p.wasLastNoteHopod = (Tappable(Max(playing)) \in 1 .. 3)
  BY <1>3, Picked
<1> HIDE DEF p, m, playing, chosen
<1>11. /\ n.played = p.played /\ n.hopod = p.hopod
       /\ n.skipped = p.skipped /\ n.matchingNotes = p.matchingNotes
       /\ n.notesHit = p.notesHit + 1
       /\ n.totalStreakNotes = Max({p.totalStreakNotes, p.notesHit + 1})
       /\ n.hopoActive = p.hopoActive /\ n.wasLastNoteHopod = p.wasLastNoteHopod
  BY <1>10, NoteHitCounts
<1> HIDE DEF n
<1>12. HopoExpected(n) => Tappable(c) \in {1, 2}
  BY <1>4, <1>9, <1>10, <1>11, ExpectedAfter
<1>13. g.skipped \cup {b \in g.matchingNotes : b < c} \subseteq n.skipped
  BY <1>1, <1>7, <1>10, <1>11
<1>14. HitsChord(g, n, hopo, c)
  BY <1>8, <1>10, <1>11, <1>12, <1>13 DEF HitsChord
<1> QED  BY <1>14 DEF Hits, n, p

-----------------------------------------------------------------------------
\* What a pick comes to

\* A pick hits nothing, or one chord, if none of those it is matched with is judged.
Outcome(g, h, hopo) ==
  /\ h \in Game(Chords) /\ Judges(g, h) /\ Counted(g, h)
  /\ Misses(g, h) \/ (g.matchingNotes \cap Judged(g) = {} => Hits(g, h, hopo))

\* Judgements that follow each other.
LEMMA JudgesTwice ==
  ASSUME NEW f, NEW g, NEW h, Judges(f, g), Judges(g, h) PROVE Judges(f, h)
  BY DEF Judges

\* What hits nothing counts nothing, also before something that counts.
LEMMA MissesCount ==
  ASSUME NEW f, NEW g, Misses(f, g)
  PROVE  Counted(f, g) /\ \A h : Counted(g, h) => Counted(f, h)
<1>1. /\ HitChords(g) = HitChords(f)
      /\ g.notesHit = f.notesHit /\ g.totalStreakNotes = f.totalStreakNotes
  BY DEF Misses, HitChords
<1> QED  BY <1>1 DEF Counted, CountKept, CountGrows

\* A hit after something that hits nothing.
LEMMA MissesThenHits ==
  ASSUME NEW f, NEW g, NEW h, NEW hopo, Misses(f, g), Hits(g, h, hopo) PROVE Hits(f, h, hopo)
<1>1. PICK c \in g.matchingNotes : HitsChord(g, h, hopo, c)
  BY DEF Hits
<1>2. c \in f.matchingNotes
  BY DEF Misses
<1>3. HitsChord(f, h, hopo, c)
  BY <1>1 DEF Misses, HitsChord
<1> QED  BY <1>2, <1>3 DEF Hits

\* A chord that is too late is not one that a pick is matched with.
LEMMA LateOrOffered ==
  ASSUME song \in Songs, songTime \in Int, NEW g \in Game(Chords),
         \A c \in g.matchingNotes : Time(c) >= songTime - Margin
  PROVE  g.matchingNotes \cap getMissedNotes(g, songTime) = {}
<1> SUFFICES ASSUME NEW c \in g.matchingNotes, c \in getMissedNotes(g, songTime) PROVE FALSE
  OBVIOUS
<1>1. c \in Chords /\ Time(c) <= songTime - Margin
      /\ BucketOf(Time(c)) < BucketOf(songTime - Margin)
  BY DEF getMissedNotes, Between
<1>2. Time(c) \in Nat /\ Margin \in Nat /\ Bucket \in Nat \ {0}
  BY <1>1, SongFacts
<1>3. Time(c) = songTime - Margin
  BY <1>1, <1>2
<1>4. BucketOf(Time(c)) \in Nat
  BY <1>2 DEF BucketOf
<1> QED  BY <1>1, <1>3, <1>4

\* Before a pick is matched, chords that are too late are skipped and the fret
\* that was a problem is forgotten.
LEMMA PickOutcome ==
  ASSUME song \in Songs, songTime \in Int, NEW g \in Game(Chords), NEW hopo \in BOOLEAN,
         \A c \in g.matchingNotes : Time(c) >= songTime - Margin
  PROVE  Outcome(g, doPick3GH2(g, hopo), hopo)
<1> DEFINE late == getMissedNotes(g, songTime) # {}
           u == CatchUp(g, songTime)
           v == [u EXCEPT !.processedFirstNoteYet = TRUE]
           m == IF late THEN screwUp(v) ELSE g
           h == IF m.sameNoteHopoString /\ ~StillHeld(m, m.hopoProblemNoteNum)
                THEN ForgetProblem(m) ELSE m
           p == startPick3(h, hopo)
           e == Penalty(p, hopo, StillHeld(m, m.hopoLast), HigherFretsHeld(m))
           w == [m EXCEPT !.wasLastNoteHopod = FALSE]
           d == doPick3GH2(g, hopo)
<1>1. d = m \/ d = w \/ (p.playedNotes # {} /\ d = noteHit(p)) \/ (p.playedNotes = {} /\ d = e)
  BY DEF doPick3GH2
<1>2. Misses(g, g)
  BY DEF Misses
<1>3. u \in Game(Chords) /\ Misses(g, u) /\ u.skipped = g.skipped \cup getMissedNotes(g, songTime)
  BY CatchUpMisses DEF CatchUp, Game
<1> HIDE DEF u
<1>4. v \in Game(Chords) /\ v.skipped = u.skipped
  BY <1>3 DEF Game
<1>5. Misses(u, v)
  BY <1>3 DEF Game, Misses, HopoExpected
<1> HIDE DEF v
<1>6. screwUp(v).skipped = v.skipped
  BY <1>4 DEF screwUp, Game
<1>7. m \in Game(Chords) /\ Misses(g, m)
  BY <1>2, <1>3, <1>4, <1>5, ScrewUpMisses, MissesTwice
<1>8. m.skipped = g.skipped \cup getMissedNotes(g, songTime)
  BY <1>3, <1>4, <1>6
<1> HIDE DEF m
<1>9. h \in Game(Chords) /\ Misses(m, h) /\ h.skipped = m.skipped
  <2>1. ForgetProblem(m).skipped = m.skipped
    BY <1>7 DEF ForgetProblem, Game
  <2> QED  BY <1>7, <2>1, ForgetMisses DEF Misses
<1> HIDE DEF h
<1>10. Misses(g, h)
  BY <1>7, <1>9, MissesTwice
<1>11. g.matchingNotes \cap Judged(g) = {} => h.matchingNotes \cap Judged(h) = {}
  <2>1. Judged(h) = Judged(g) \cup getMissedNotes(g, songTime) /\ h.matchingNotes = g.matchingNotes
    BY <1>8, <1>9, <1>10 DEF Misses, Judged
  <2> QED  BY <2>1, LateOrOffered
<1>12. p \in Game(Chords)
  BY <1>9, Picked
<1>13. w \in Game(Chords) /\ Misses(m, w)
  <2>1. w \in Game(Chords)
    BY <1>7 DEF Game
  <2>2. Misses(m, w)
    BY <1>7 DEF Game, Misses, HopoExpected
  <2> QED  BY <2>1, <2>2
<1> HIDE DEF w
<1>14. CASE d = m
  BY <1>7, <1>14, MissesJudges, MissesCount DEF Outcome
<1>15. CASE d = w
  BY <1>7, <1>13, <1>15, MissesTwice, MissesJudges, MissesCount DEF Outcome
<1>16. CASE p.playedNotes = {} /\ d = e
  <2>1. Misses(h, p)
    BY <1>9, <1>16, NothingPlayed
  <2>2. e \in Game(Chords) /\ Misses(p, e)
    BY <1>12, PenaltyMisses
  <2> HIDE DEF p, e
  <2>3. Misses(g, e)
    BY <1>10, <2>1, <2>2, MissesTwice
  <2> QED  BY <1>16, <2>2, <2>3, MissesJudges, MissesCount DEF Outcome
<1>17. CASE p.playedNotes # {} /\ d = noteHit(p)
  <2>1. d \in Game(Chords) /\ Judged(d) = Judged(p) /\ d.matchingNotes = p.matchingNotes
    BY <1>12, <1>17, NoteHitCounts DEF Judged
  <2>2. Judges(h, p)
    BY <1>9, PickJudges
  <2>3. Judges(g, d)
    BY <1>10, <2>1, <2>2, MissesJudges DEF Judges
  <2>4. ASSUME g.matchingNotes \cap Judged(g) = {} PROVE Hits(g, d, hopo)
    <3>1. Hits(h, d, hopo)
      BY <1>9, <1>11, <1>17, <2>4, SomethingPlayed
    <3> QED  BY <1>10, <3>1, MissesThenHits
  <2>5. Counted(g, d)
    <3>1. Counted(h, d)
      BY <1>9, <1>17, SomethingCounted DEF Counted
    <3> QED  BY <1>10, <3>1, MissesCount
  <2> QED  BY <2>1, <2>3, <2>4, <2>5 DEF Outcome
<1> QED  BY <1>1, <1>14, <1>15, <1>16, <1>17

\* A pick during the big rock ending hits nothing.
LEMMA FreestyleOutcome ==
  ASSUME NEW g \in Game(Chords), NEW bar
  PROVE  FreestylePick(g, bar) \in Game(Chords) /\ Misses(g, FreestylePick(g, bar))
<1> DEFINE h == IF bar THEN [g EXCEPT !.endingStreakBroken = FALSE,
                                      !.freestyleWasJustActive = TRUE]
                       ELSE g
<1>1. h \in Game(Chords)
  BY DEF Game
<1>2. Misses(g, h)
  BY DEF Game, Misses, HopoExpected
<1>3. FreestylePick(g, bar) = CatchUp(h, songTime + Margin)
  BY DEF FreestylePick
<1> HIDE DEF h
<1> QED  BY <1>1, <1>2, <1>3, CatchUpMisses, MissesTwice

\* Every pick; with an empty rock meter there is none.
LEMMA HandleOutcome ==
  ASSUME song \in Songs, songTime \in Int, NEW g \in Game(Chords), NEW hopo \in BOOLEAN,
         NEW bar, \A c \in g.matchingNotes : Time(c) >= songTime - Margin
  PROVE  /\ Outcome(g, handlePick(g, hopo, bar), hopo)
         /\ rock = "none" => handlePick(g, hopo, bar) = g
<1>1. Misses(g, g)
  BY DEF Misses
<1>2. Outcome(g, g, hopo)
  BY <1>1, MissesJudges, MissesCount DEF Outcome
<1>3. Outcome(g, FreestylePick(g, bar), hopo)
  BY FreestyleOutcome, MissesJudges, MissesCount DEF Outcome
<1>4. Outcome(g, doPick3GH2(g, hopo), hopo)
  BY PickOutcome
<1> QED  BY <1>2, <1>3, <1>4 DEF handlePick

-----------------------------------------------------------------------------
\* What the invariant makes of a step

\* The parts that are about the chords that were hit.
OfHits == TapFollowsHopo /\ Totals /\ (~stale => CountsOnce /\ HitsGoForward /\ ExpectedFollows)

\* A step that hits nothing, whatever time has passed.
LEMMA NoNewHit ==
  ASSUME TypeOK, OfHits, song' = song, songTime' \in Int, songTime <= songTime',
         stale => stale', stale' \in BOOLEAN,
         game'.played = game.played, game'.hopod = game.hopod,
         game'.notesHit = game.notesHit, game'.totalStreakNotes = game.totalStreakNotes,
         Judged(game) \subseteq Judged(game'),
         HopoExpected(game') => HopoExpected(game)
  PROVE  OfHits'
<1>1. HitChords(game') = HitChords(game) /\ HitChords(game)' = HitChords(game)
  BY DEF HitChords
<1>2. Chords' = Chords /\ LastChord' = LastChord
  BY DEF Chords, LastChord
<1>3. TapFollowsHopo'
  BY <1>2 DEF OfHits, TapFollowsHopo, Tappable
<1>8. Totals'
  BY <1>1, <1>2 DEF OfHits, Totals
<1> SUFFICES ASSUME ~stale' PROVE CountsOnce' /\ HitsGoForward' /\ ExpectedFollows'
  BY <1>3, <1>8 DEF OfHits
<1>4. CountsOnce /\ HitsGoForward /\ ExpectedFollows
  BY DEF OfHits
<1>5. CountsOnce'
  BY <1>1, <1>4 DEF CountsOnce
<1>6. HitsGoForward'
  <2>1. songTime \in Int /\ Margin \in Int /\ \A c \in Chords : Time(c) \in Int
    BY SongFacts DEF TypeOK
  <2>2. \A c \in Chords : Time(c)' = Time(c)
    BY DEF Time
  <2>3. \A c \in Chords : Time(c) < songTime - Margin => Time(c) < songTime' - Margin
    BY <2>1
  <2>4. Judged(game)' = Judged(game')
    BY DEF Judged
  <2> QED  BY <1>1, <1>2, <1>4, <2>2, <2>3, <2>4 DEF HitsGoForward
<1>7. ExpectedFollows'
  <2>1. HopoExpected(game)' = HopoExpected(game')
    BY DEF HopoExpected
  <2> QED  BY <1>1, <1>4, <2>1 DEF ExpectedFollows, Tappable
<1> QED  BY <1>5, <1>6, <1>7

\* The chord of a new hit comes after every chord that was hit.
LEMMA HitIsLast ==
  ASSUME TypeOK, Offered, HitsGoForward,
         NEW c \in game.matchingNotes, c \notin Judged(game)
  PROVE  \A h \in HitChords(game) : h < c
<1>1. c \in Nat /\ c \in Chords /\ Time(c) >= songTime - Margin
  BY SongFacts DEF TypeOK, Game, Offered
<1> SUFFICES ASSUME NEW h \in HitChords(game) PROVE h < c
  OBVIOUS
<1>2. h \in Chords /\ h \in Nat
  BY SongFacts DEF TypeOK, Game, HitChords
<1>3. h # c
  BY DEF HitChords, Judged
<1>4. ~ (c < h)
  <2>1. songTime \in Int /\ Margin \in Int /\ Time(c) \in Int
    BY <1>1, SongFacts DEF TypeOK
  <2>2. ~ (Time(c) < songTime - Margin)
    BY <1>1, <2>1
  <2> QED  BY <1>1, <2>2 DEF HitsGoForward
<1> QED  BY <1>1, <1>2, <1>3, <1>4

\* A hammer-on that is expected is hit by a chord marked to follow, or the chord
\* that is marked so is left out.
LEMMA TapFollows ==
  ASSUME TypeOK, ExpectedFollows, HopoExpected(game),
         NEW c \in Chords, \A h \in HitChords(game) : h < c
  PROVE  \/ Tappable(c) \in {2, 3}
         \/ c = LastChord /\ c - 1 \in Chords /\ Tappable(c - 1) \in {1, 2}
         \/ \E b \in Chords : b < c /\ Tappable(b) \in {2, 3} /\ b \notin HitChords(game) \cup {c}
<1>1. song \in Songs
  BY DEF TypeOK
<1>2. PICK a \in HitChords(game) : (\A h \in HitChords(game) : h <= a) /\ Tappable(a) \in {1, 2}
  BY DEF ExpectedFollows
<1>3. a \in Chords /\ a < c /\ a \in Nat /\ c \in Nat
  BY <1>1, <1>2, SongFacts DEF TypeOK, Game, HitChords
<1>4. /\ a + 1 \in Chords
      /\ Tappable(a + 1) \in {2, 3} \/ a + 1 = Cardinality(Chords)
  <2>1. Marked(song.chords)
    BY <1>1, SongFacts
  <2> QED  BY <1>2, <1>3, <2>1 DEF Marked, Chords, Tappable
<1>5. LastChord = Cardinality(Chords)
  <2>1. LastChord \in Chords /\ \A b \in Chords : b <= LastChord
    BY <1>1, SongFacts, LastOf DEF LastChord
  <2>2. Chords = 1 .. Cardinality(Chords) /\ Cardinality(Chords) \in Nat
    BY <1>1, SongFacts
  <2>3. LastChord \in Nat /\ LastChord <= Cardinality(Chords) /\ 1 <= LastChord
    BY <2>1, <2>2
  <2>4. Cardinality(Chords) \in Chords
    BY <2>2, <2>3
  <2> QED  BY <2>1, <2>2, <2>3, <2>4
<1>6. CASE a + 1 = c
  <2>1. c - 1 = a
    BY <1>3, <1>6
  <2> QED  BY <1>2, <1>3, <1>4, <1>5, <1>6, <2>1
<1>7. CASE a + 1 # c
  <2>1. a + 1 < c /\ a + 1 \notin HitChords(game) \cup {c}
    BY <1>2, <1>3, <1>7
  <2>2. c <= Cardinality(Chords) /\ Cardinality(Chords) \in Nat
    BY <1>1, <1>3, SongFacts
  <2>3. Tappable(a + 1) \in {2, 3}
    BY <1>3, <1>4, <2>1, <2>2
  <2> QED  BY <1>4, <2>1, <2>3
<1> QED  BY <1>6, <1>7

\* The score card after a pick, also one that was matched with judged chords.
LEMMA TotalsKept ==
  ASSUME TypeOK, Totals, song' = song, game' \in Game(Chords), Counted(game, game')
  PROVE  Totals'
<1>0. song \in Songs /\ Chords' = Chords
  BY DEF TypeOK, Chords
<1>1. /\ HitChords(game)' = HitChords(game')
      /\ HitChords(game) \subseteq Chords /\ HitChords(game') \subseteq Chords
  BY DEF HitChords, TypeOK, Game
<1>2. IsFiniteSet(HitChords(game)) /\ IsFiniteSet(HitChords(game'))
  BY <1>0, <1>1, SongFacts, FS_Subset
<1>3. /\ Cardinality(HitChords(game)) \in Nat /\ Cardinality(HitChords(game')) \in Nat
      /\ Cardinality(Chords) \in Nat /\ game.notesHit \in Nat
  BY <1>0, <1>2, FS_CardinalityType, SongFacts DEF TypeOK, Game
<1>4. CASE CountKept(game, game')
  <2>1. Cardinality(HitChords(game')) <= Cardinality(HitChords(game))
    BY <1>2, <1>4, FS_Subset DEF CountKept
  <2>2. Cardinality(HitChords(game')) <= game'.notesHit
    BY <1>3, <1>4, <2>1 DEF CountKept, Totals
  <2> QED  BY <1>0, <1>1, <1>4, <2>2 DEF CountKept, Totals
<1>5. CASE CountGrows(game, game')
  <2>1. PICK c : HitChords(game') \subseteq HitChords(game) \cup {c}
    BY <1>5 DEF CountGrows
  <2>2. /\ IsFiniteSet(HitChords(game) \cup {c})
        /\ Cardinality(HitChords(game) \cup {c}) \in Nat
        /\ Cardinality(HitChords(game) \cup {c}) <= Cardinality(HitChords(game)) + 1
    <3>1. CASE c \in HitChords(game)
      <4>1. HitChords(game) \cup {c} = HitChords(game)
        BY <3>1
      <4>2. Cardinality(HitChords(game) \cup {c}) = Cardinality(HitChords(game))
        BY <4>1, Zenon
      <4>3. IsFiniteSet(HitChords(game) \cup {c})
        BY <1>2, <4>1, Zenon
      <4> QED  BY <1>3, <4>2, <4>3
    <3>2. CASE c \notin HitChords(game)
      BY <1>2, <1>3, <3>2, FS_AddElement
    <3> QED  BY <3>1, <3>2
  <2>3. Cardinality(HitChords(game')) <= Cardinality(HitChords(game) \cup {c})
    BY <2>1, <2>2, FS_Subset
  <2>4. Cardinality(HitChords(game')) <= game'.notesHit
    BY <1>3, <1>5, <2>2, <2>3 DEF CountGrows, Totals
  <2>5. game'.totalStreakNotes = Max({Cardinality(Chords), game'.notesHit})
    <3> DEFINE most == Max({Cardinality(Chords), game.notesHit})
    <3>1. most = IF Cardinality(Chords) >= game.notesHit THEN Cardinality(Chords) ELSE game.notesHit
      BY <1>3, MaxOfTwo
    <3> HIDE DEF most
    <3>2. Max({most, game.notesHit + 1})
            = IF most >= game.notesHit + 1 THEN most ELSE game.notesHit + 1
      BY <1>3, <3>1, MaxOfTwo
    <3>3. Max({Cardinality(Chords), game.notesHit + 1})
            = IF Cardinality(Chords) >= game.notesHit + 1
              THEN Cardinality(Chords) ELSE game.notesHit + 1
      BY <1>3, MaxOfTwo
    <3>4. Max({most, game.notesHit + 1}) = Max({Cardinality(Chords), game.notesHit + 1})
      BY <1>3, <3>1, <3>2, <3>3
    <3>5. game.totalStreakNotes = most
      BY DEF Totals, most
    <3> QED  BY <1>5, <3>4, <3>5 DEF CountGrows
  <2> QED  BY <1>0, <1>1, <2>4, <2>5 DEF Totals
<1> QED  BY <1>4, <1>5 DEF Counted

\* A step that hits one more chord, as no other step does.
LEMMA NewHit ==
  ASSUME TypeOK, Offered, OfHits, ~stale, Totals', NEW hopo \in BOOLEAN, hopo => HopoExpected(game),
         NEW c \in game.matchingNotes, HitsChord(game, game', hopo, c), c \notin Judged(game),
         UNCHANGED <<song, songTime>>, stale' = stale
  PROVE  OfHits'
<1>0. song \in Songs /\ c \in Chords
  BY DEF TypeOK, Game
<1>1. HitChords(game)' = HitChords(game) \cup {c}
  BY DEF HitChords, HitsChord
<1>2. Chords' = Chords /\ LastChord' = LastChord
  BY DEF Chords, LastChord
<1>4. ~stale' /\ Totals'
  OBVIOUS
<1>3. OfHits'
  <2>1. CountsOnce /\ HitsGoForward /\ ExpectedFollows
    BY <1>4 DEF OfHits
  <2>2. \A h \in HitChords(game) : h < c
    BY <2>1, HitIsLast
  <2>3. HitChords(game) \subseteq Chords /\ IsFiniteSet(Chords) /\ c \notin HitChords(game)
    BY <1>0, SongFacts DEF TypeOK, Game, HitChords, Judged
  <2>4. Judged(game)' = Judged(game') /\ Judged(game) \subseteq Judged(game') /\ c \in Judged(game')
    BY DEF HitsChord, Judged
  <2>5. CountsOnce'
    <3>1. IsFiniteSet(HitChords(game))
      BY <2>3, FS_Subset
    <3>2. Cardinality(HitChords(game) \cup {c}) = Cardinality(HitChords(game)) + 1
      BY <2>3, <3>1, FS_AddElement
    <3> QED  BY <1>1, <2>1, <3>2 DEF CountsOnce, HitsChord
  <2>6. HitsGoForward'
    <3> SUFFICES ASSUME NEW h \in HitChords(game) \cup {c}, NEW b \in Chords, b < h
                 PROVE  b \in Judged(game') \/ Time(b) < songTime - Margin
      BY <1>1, <1>2, <2>4 DEF HitsGoForward, Time
    <3>1. CASE h \in HitChords(game)
      BY <2>1, <2>4, <3>1 DEF HitsGoForward
    <3>2. CASE h = c
      <4>1. songTime \in Int /\ Margin \in Int /\ Time(b) \in Int
        BY <1>0, SongFacts DEF TypeOK
      <4>2. CASE b \notin Judged(game) /\ Time(b) >= songTime - Margin
        <5>1. b \in game.matchingNotes
          BY <3>2, <4>2 DEF Offered
        <5> QED  BY <3>2, <5>1 DEF HitsChord, Judged
      <4> QED  BY <2>4, <4>1, <4>2
    <3> QED  BY <3>1, <3>2
  <2>7. ExpectedFollows'
    <3>1. c \in Nat /\ HitChords(game) \subseteq Nat
      BY <1>0, <2>3, SongFacts
    <3>2. \A h \in HitChords(game) \cup {c} : h <= c
      BY <2>2, <3>1
    <3>3. HopoExpected(game)' => Tappable(c) \in {1, 2}
      BY DEF HitsChord, HopoExpected
    <3>4. Tappable(c)' = Tappable(c)
      BY DEF Tappable
    <3> QED  BY <1>1, <3>2, <3>3, <3>4 DEF ExpectedFollows
  <2>8. TapFollowsHopo'
    <3> SUFFICES ASSUME NEW d \in game'.hopod
                 PROVE  \/ Tappable(d) \in {2, 3}
                        \/ d = LastChord /\ d - 1 \in Chords /\ Tappable(d - 1) \in {1, 2}
                        \/ \E b \in Chords : b < d /\ Tappable(b) \in {2, 3}
                                               /\ b \notin HitChords(game) \cup {c}
      BY <1>1, <1>2 DEF TapFollowsHopo, Tappable, HitChords
    <3>1. CASE d \in game.hopod
      <4>1. \/ Tappable(d) \in {2, 3}
            \/ d = LastChord /\ d - 1 \in Chords /\ Tappable(d - 1) \in {1, 2}
            \/ \E b \in Chords : b < d /\ Tappable(b) \in {2, 3} /\ b \notin HitChords(game)
        BY <1>4, <3>1 DEF OfHits, TapFollowsHopo, HitChords
      <4>2. \A b \in Chords : b < d => b # c
        <5>1. d < c
          BY <2>2, <3>1 DEF HitChords
        <5>2. d \in Nat /\ c \in Nat
          BY <1>0, <3>1, SongFacts DEF TypeOK, Game
        <5> QED  BY <5>1, <5>2
      <4> QED  BY <4>1, <4>2
    <3>2. CASE d \notin game.hopod
      <4>1. d = c /\ hopo
        BY <3>2 DEF HitsChord
      <4> QED  BY <1>0, <2>1, <2>2, <4>1, TapFollows
    <3> QED  BY <3>1, <3>2
  <2> QED  BY <1>4, <2>5, <2>6, <2>7, <2>8 DEF OfHits
<1> QED  BY <1>3

\* An input: e is the game after the key itself, h after the pick, if there is one.
LEMMA InputKeeps ==
  ASSUME IInv, NEW e \in Game(Chords), Misses(game, e), NEW h \in Game(Chords),
         e.skipped = game.skipped, NEW hopo \in BOOLEAN, NEW picks \in BOOLEAN,
         picks /\ hopo => HopoExpected(game),
         ~picks => h = e, Outcome(e, h, hopo), rock = "none" => h = e,
         Input(h, picks)
  PROVE  IInv'
<1>1. /\ inputs' = inputs + 1 /\ inputs < Inputs /\ game' = h
      /\ stale' = (stale \/ (picks /\ game.matchingNotes \cap Judged(game) # {}))
      /\ UNCHANGED <<song, songTime, rock, failed, freestyleActive, seen>>
  BY DEF Input
<1>2. /\ TypeOK /\ Offered /\ Passed /\ InEnding /\ NoHitWhenEmpty /\ FailedIsFinal /\ OfHits
      /\ song \in Songs /\ songTime \in Int
  BY SongFacts DEF IInv, OfHits, TypeOK
<1>3. Chords' = Chords
  BY <1>1 DEF Chords
<1>4. Judges(game, h)
  <2>1. Judges(game, e) /\ Judges(e, h)
    BY MissesJudges DEF Outcome
  <2> QED  BY <2>1, JudgesTwice
<1>5. TypeOK'
  <2>1. stale' \in BOOLEAN
    BY <1>1, <1>2 DEF TypeOK
  <2>2. inputs' \in 0 .. Inputs
    BY <1>1, <1>2, GuitarSceneAssumption DEF TypeOK
  <2>3. game' \in Game(Chords)
    BY <1>1
  <2>4. songTime' \in -Lead .. SongEnd'
    BY <1>1, <1>2 DEF TypeOK, SongEnd, EndOf, Time, LastChord, Chords
  <2> QED  BY <1>1, <1>2, <1>3, <2>1, <2>2, <2>3, <2>4 DEF TypeOK
<1>6. Judged(game)' = Judged(h) /\ Judged(game) \subseteq Judged(h)
      /\ game'.matchingNotes = game.matchingNotes
  BY <1>1, <1>4 DEF Judges, Judged
<1>7. Offered'
  BY <1>1, <1>2, <1>3, <1>6 DEF Offered, Time
<1>8. Passed'
  <2>1. \A c \in Chords : NearEnding(c)' = NearEnding(c) /\ Time(c)' = Time(c)
    BY <1>1 DEF NearEnding, Time
  <2>2. Judged(game) \cup seen \subseteq Judged(game)' \cup seen'
    BY <1>1, <1>6
  <2> QED  BY <1>1, <1>2, <1>3, <2>1, <2>2 DEF Passed
<1>9. InEnding' /\ FailedIsFinal'
  BY <1>1, <1>2 DEF InEnding, FailedIsFinal
<1>10. NoHitWhenEmpty'
  <2>1. rock = "none" => game'.noteHit = game.noteHit
    BY <1>1 DEF Misses
  <2> QED  BY <1>1, <1>2, <2>1 DEF NoHitWhenEmpty
<1>11. OfHits'
  <2>1. stale \in BOOLEAN /\ stale' \in BOOLEAN
    BY <1>2, <1>5 DEF TypeOK
  <2>2. CASE Misses(game, h)
    <3>1. /\ game'.played = game.played /\ game'.hopod = game.hopod
          /\ game'.notesHit = game.notesHit /\ game'.totalStreakNotes = game.totalStreakNotes
          /\ HopoExpected(game') => HopoExpected(game)
          /\ Judged(game) \subseteq Judged(game')
      BY <1>1, <1>6, <2>2 DEF Misses
    <3>2. songTime' = songTime /\ song' = song /\ (stale => stale')
      BY <1>1
    <3>3. songTime' \in Int /\ songTime <= songTime'
      BY <1>2, <3>2
    <3> QED  BY <1>2, <2>1, <3>1, <3>2, <3>3, NoNewHit
  <2>0. Totals'
    <3>1. Counted(game, h)
      BY MissesCount DEF Outcome
    <3> QED  BY <1>1, <1>2, <3>1, TotalsKept DEF OfHits
  <2>3. CASE stale'
    <3>1. TapFollowsHopo'
      BY <2>3 DEF TapFollowsHopo
    <3> QED  BY <2>0, <2>3, <3>1 DEF OfHits
  <2>4. CASE ~stale' /\ ~Misses(game, h)
    <3>1. picks
      BY <2>4
    <3>2. game.matchingNotes \cap Judged(game) = {} /\ stale' = stale
      BY <1>1, <2>1, <2>4, <3>1
    <3>3. e.matchingNotes \cap Judged(e) = {}
      BY <3>2 DEF Misses, Judged
    <3>4. ~Misses(e, h)
      BY <2>4, MissesTwice
    <3>5. Hits(game, h, hopo)
      BY <3>3, <3>4, MissesThenHits DEF Outcome
    <3>6. PICK c \in game.matchingNotes : HitsChord(game, h, hopo, c)
      BY <3>5 DEF Hits
    <3> QED  BY <1>1, <1>2, <2>0, <2>4, <3>1, <3>2, <3>6, NewHit
  <2> QED  BY <2>1, <2>2, <2>3, <2>4
<1> QED  BY <1>5, <1>7, <1>8, <1>9, <1>10, <1>11 DEF IInv, OfHits

\* The game after a pick, when the key left e.
LEMMA KeyPicks ==
  ASSUME IInv, NEW e \in Game(Chords), Misses(game, e), NEW hopo \in BOOLEAN, NEW bar
  PROVE  /\ Outcome(e, handlePick(e, hopo, bar), hopo) /\ Outcome(e, e, hopo)
         /\ rock = "none" => handlePick(e, hopo, bar) = e
<1>1. song \in Songs /\ songTime \in Int
  BY SongFacts DEF IInv, TypeOK
<1>2. \A c \in e.matchingNotes : Time(c) >= songTime - Margin
  BY DEF IInv, Offered, Misses
<1>3. Outcome(e, e, hopo)
  <2>1. Misses(e, e)
    BY DEF Misses
  <2> QED  BY <2>1, MissesJudges, MissesCount DEF Outcome
<1> QED  BY <1>1, <1>2, <1>3, HandleOutcome

\* A fret is pressed.
LEMMA PressKeeps ==
  ASSUME IInv, NEW f \in Frets, Press(f)
  PROVE  IInv'
<1> DEFINE g == [game EXCEPT !.held = @ \cup {f}]
           hopo == g.hopoActive > 0 \/ (g.wasLastNoteHopod /\ g.hopoActive = 0)
<1>1. PICK bar \in BOOLEAN : Input(IF hopo THEN handlePick(g, TRUE, bar) ELSE g, hopo)
  BY DEF Press
<1>2. game \in Game(Chords)
  BY DEF IInv, TypeOK
<1>3. g \in Game(Chords)
  BY <1>2 DEF Game
<1>4. Misses(game, g) /\ g.skipped = game.skipped
  BY <1>2 DEF Game, Misses, HopoExpected
<1>5. hopo => HopoExpected(game)
  BY <1>2 DEF Game, HopoExpected
<1> HIDE DEF g
<1>6. Outcome(g, handlePick(g, TRUE, bar), TRUE) /\ Outcome(g, g, TRUE)
      /\ (rock = "none" => handlePick(g, TRUE, bar) = g)
  BY <1>3, <1>4, KeyPicks
<1>7. hopo \in BOOLEAN
  BY <1>3 DEF Game
<1> DEFINE h == IF hopo THEN handlePick(g, TRUE, bar) ELSE g
<1>8. h \in Game(Chords) /\ Outcome(g, h, TRUE) /\ (~hopo => h = g) /\ (rock = "none" => h = g)
  BY <1>6 DEF Outcome
<1>9. Input(h, hopo)
  BY <1>1
<1> HIDE DEF h, hopo
<1> QED  BY <1>3, <1>4, <1>5, <1>7, <1>8, <1>9, InputKeeps

\* A fret is released.
LEMMA ReleaseKeeps ==
  ASSUME IInv, NEW f \in Frets, Release(f)
  PROVE  IInv'
<1> DEFINE g == [game EXCEPT !.held = @ \ {f}]
           ends == \E c \in g.playedNotes : f \in Strings(c) /\ f \in g.hit
           e == IF ends THEN [g EXCEPT !.playedNotes = {}] ELSE g
           hopo == e.held # {} /\ e.hopoActive > 0
<1>1. PICK bar \in BOOLEAN : Input(IF hopo THEN handlePick(e, TRUE, bar) ELSE e, hopo)
  BY DEF Release
<1>2. game \in Game(Chords)
  BY DEF IInv, TypeOK
<1>3. g \in Game(Chords) /\ Misses(game, g) /\ g.skipped = game.skipped
  <2>1. g \in Game(Chords)
    BY <1>2 DEF Game
  <2>2. Misses(game, g) /\ g.skipped = game.skipped
    BY <1>2 DEF Game, Misses, HopoExpected
  <2> QED  BY <2>1, <2>2
<1> HIDE DEF g
<1>4. [g EXCEPT !.playedNotes = {}] \in Game(Chords)
  BY <1>3 DEF Game
<1>5. Misses(g, [g EXCEPT !.playedNotes = {}]) /\ [g EXCEPT !.playedNotes = {}].skipped = g.skipped
  BY <1>3 DEF Game, Misses, HopoExpected
<1>6. e \in Game(Chords) /\ Misses(game, e) /\ e.skipped = game.skipped
  BY <1>3, <1>4, <1>5, MissesTwice
<1> HIDE DEF e
<1>7. hopo => HopoExpected(game)
  <2>1. hopo => HopoExpected(e)
    BY DEF HopoExpected
  <2> QED  BY <1>6, <2>1 DEF Misses
<1>8. Outcome(e, handlePick(e, TRUE, bar), TRUE) /\ Outcome(e, e, TRUE)
      /\ (rock = "none" => handlePick(e, TRUE, bar) = e)
  BY <1>6, KeyPicks
<1>9. hopo \in BOOLEAN
  OBVIOUS
<1> DEFINE h == IF hopo THEN handlePick(e, TRUE, bar) ELSE e
<1>10. h \in Game(Chords) /\ Outcome(e, h, TRUE) /\ (~hopo => h = e) /\ (rock = "none" => h = e)
  BY <1>8 DEF Outcome
<1>11. Input(h, hopo)
  BY <1>1
<1> HIDE DEF h, hopo
<1> QED  BY <1>6, <1>7, <1>9, <1>10, <1>11, InputKeeps

\* The strum bar.
LEMMA StrumKeeps ==
  ASSUME IInv, Strum
  PROVE  IInv'
<1> DEFINE h == handlePick(game, FALSE, TRUE)
<1>1. game \in Game(Chords) /\ Misses(game, game)
  BY DEF IInv, TypeOK, Misses
<1>2. Outcome(game, h, FALSE) /\ (rock = "none" => h = game)
  BY <1>1, KeyPicks
<1>3. h \in Game(Chords)
  BY <1>2 DEF Outcome
<1>4. Input(h, TRUE)
  BY DEF Strum
<1> HIDE DEF h
<1> QED  BY <1>1, <1>2, <1>3, <1>4, InputKeeps

-----------------------------------------------------------------------------
\* A frame

\* The buckets of a track are in order of time, and none is longer than Bucket.
LEMMA BucketsInOrder ==
  ASSUME NEW s \in Nat, NEW t \in Int
  PROVE  /\ s <= t => BucketOf(s) <= BucketOf(t)
         /\ s + Bucket <= t => BucketOf(s) < BucketOf(t)
         /\ BucketOf(s) \in Nat /\ BucketOf(t) \in Nat
<1>1. Bucket \in Nat \ {0}
  BY GuitarSceneAssumption
<1>2. CASE t < 0
  BY <1>1, <1>2 DEF BucketOf
<1>3. CASE t >= 0
  <2> DEFINE q == s \div Bucket  r == t \div Bucket
  <2>1. q \in Nat /\ q * Bucket <= s /\ s < (q + 1) * Bucket
    BY <1>1
  <2>2. r \in Nat /\ r * Bucket <= t /\ t < (r + 1) * Bucket
    BY <1>1, <1>3
  <2>3. BucketOf(s) = q /\ BucketOf(t) = r
    BY <1>3 DEF BucketOf
  <2> HIDE DEF q, r
  <2>4. s <= t => q <= r
    <3> SUFFICES ASSUME s <= t, r + 1 <= q PROVE FALSE
      BY <2>1, <2>2
    <3>1. (r + 1) * Bucket <= q * Bucket
      BY <1>1, <2>1, <2>2
    <3> QED  BY <1>1, <2>1, <2>2, <3>1
  <2>5. s + Bucket <= t => q < r
    <3> SUFFICES ASSUME s + Bucket <= t, r <= q PROVE FALSE
      BY <2>1, <2>2
    <3>1. (r + 1) * Bucket <= (q + 1) * Bucket /\ (q + 1) * Bucket = q * Bucket + Bucket
      BY <1>1, <2>1, <2>2
    <3> QED  BY <1>1, <2>1, <2>2, <3>1
  <2> QED  BY <2>1, <2>2, <2>3, <2>4, <2>5
<1> QED  BY <1>2, <1>3

\* What a frame does to the chords that a pick may be matched with.
LEMMA FrameOfGame ==
  ASSUME TypeOK, NEW t \in Int, NEW fading \in SUBSET game.hit
  PROVE  LET g == RunInstrument(AwardEnding(game), t, fading)
             j == JudgeMisses(g, t)
             h == [j EXCEPT !.noteMissed = FALSE, !.noteHit = FALSE]
         IN  /\ h \in Game(Chords)
             /\ h.played = game.played /\ h.hopod = game.hopod
             /\ h.notesHit = game.notesHit /\ h.totalStreakNotes = game.totalStreakNotes
             /\ game.skipped \subseteq h.skipped
             /\ HopoExpected(h) => HopoExpected(game)
             /\ h.matchingNotes = Between(t - Margin, t + Margin) \ Judged(game)
             /\ getMissedNotes(g, t) = Between(t - 2 * Margin, t - Margin) \ Judged(game)
             /\ ~h.noteHit /\ j.noteHit = game.noteHit
<1> DEFINE a == AwardEnding(game)
           g == RunInstrument(a, t, fading)
           j == JudgeMisses(g, t)
           h == [j EXCEPT !.noteMissed = FALSE, !.noteHit = FALSE]
<1>0. song \in Songs /\ game \in Game(Chords)
  BY DEF TypeOK
<1>1. a \in Game(Chords) /\ Misses(game, a) /\ a.skipped = game.skipped /\ a.hit = game.hit
  <2> DEFINE awarded == game.endingAwarded
                 \/ (/\ game.freestyleWasJustActive /\ ~game.endingStreakBroken
                     /\ LastChord \in game.played \cup game.hopod)
  <2>1. awarded \in BOOLEAN
    BY <1>0 DEF Game
  <2>2. a = [game EXCEPT !.endingAwarded = awarded]
    BY <1>0 DEF AwardEnding, Game
  <2> HIDE DEF awarded, a
  <2>3. a \in Game(Chords)
    BY <1>0, <2>1, <2>2 DEF Game
  <2>4. Misses(game, a) /\ a.skipped = game.skipped /\ a.hit = game.hit
    BY <1>0, <2>2 DEF Game, Misses, HopoExpected
  <2> QED  BY <2>3, <2>4
<1> HIDE DEF a
<1>2. /\ g \in Game(Chords)
      /\ g.played = a.played /\ g.hopod = a.hopod /\ g.skipped = a.skipped
      /\ g.notesHit = a.notesHit /\ g.totalStreakNotes = a.totalStreakNotes
      /\ g.noteHit = a.noteHit /\ HopoExpected(g) = HopoExpected(a)
      /\ g.matchingNotes = getRequiredNotes(a, t)
  <2> DEFINE faded == (UNION {Strings(c) : c \in a.playedNotes}) \cup fading
             left == IF \E c \in a.playedNotes : t > EndOf(c) THEN {} ELSE a.playedNotes
             required == getRequiredNotes(a, t)
  <2>1. faded \subseteq Frets
    <3>1. a.playedNotes \subseteq Chords /\ fading \subseteq Frets
      BY <1>1 DEF Game
    <3>2. \A c \in a.playedNotes : Strings(c) \subseteq Frets
      BY <1>0, <3>1, SongFacts
    <3>3. UNION {Strings(c) : c \in a.playedNotes} \subseteq Frets
      <4> SUFFICES ASSUME NEW c \in a.playedNotes, NEW f \in Strings(c) PROVE f \in Frets
        OBVIOUS
      <4> QED  BY <3>2
    <3> QED  BY <3>1, <3>3
  <2>2. left \subseteq Chords /\ required \subseteq Chords
    BY <1>1 DEF Game, getRequiredNotes, Between
  <2>3. g = [a EXCEPT !.matchingNotes = required, !.hit = faded, !.playedNotes = left]
    BY <1>1 DEF RunInstrument, Game
  <2> HIDE DEF faded, left, required, g
  <2>4. g \in Game(Chords)
    BY <1>1, <2>1, <2>2, <2>3 DEF Game
  <2>5. /\ g.played = a.played /\ g.hopod = a.hopod /\ g.skipped = a.skipped
        /\ g.notesHit = a.notesHit /\ g.totalStreakNotes = a.totalStreakNotes
        /\ g.noteHit = a.noteHit /\ g.matchingNotes = required
    BY <1>1, <2>3 DEF Game
  <2>6. HopoExpected(g) = HopoExpected(a)
    BY <1>1, <2>3 DEF Game, HopoExpected
  <2> QED  BY <2>4, <2>5, <2>6 DEF required
<1> HIDE DEF g
<1>3. j \in Game(Chords) /\ Misses(g, j)
  <2>1. Misses(g, g)
    BY DEF Misses
  <2> QED  BY <1>2, <2>1, ScrewUpMisses, CatchUpMisses DEF JudgeMisses
<1> HIDE DEF j
<1>4. h \in Game(Chords)
  BY <1>3 DEF Game
<1>5. /\ h.played = j.played /\ h.hopod = j.hopod /\ h.skipped = j.skipped
      /\ h.notesHit = j.notesHit /\ h.totalStreakNotes = j.totalStreakNotes
      /\ h.matchingNotes = j.matchingNotes /\ ~h.noteHit
  BY <1>3 DEF Game
<1>6. HopoExpected(h) = HopoExpected(j)
  BY <1>3 DEF Game, HopoExpected
<1> HIDE DEF h
<1>7. Judged(a) = Judged(game) /\ Judged(g) = Judged(game)
  BY <1>1, <1>2 DEF Misses, Judged
<1>8. /\ h.matchingNotes = Between(t - Margin, t + Margin) \ Judged(game)
      /\ getMissedNotes(g, t) = Between(t - 2 * Margin, t - Margin) \ Judged(game)
  BY <1>2, <1>3, <1>5, <1>7 DEF Misses, getRequiredNotes, getMissedNotes
<1>9. /\ h.played = game.played /\ h.hopod = game.hopod
      /\ h.notesHit = game.notesHit /\ h.totalStreakNotes = game.totalStreakNotes
      /\ game.skipped \subseteq h.skipped
      /\ HopoExpected(h) => HopoExpected(game)
      /\ j.noteHit = game.noteHit
  BY <1>1, <1>2, <1>3, <1>5, <1>6 DEF Misses
<1> QED  BY <1>4, <1>5, <1>8, <1>9 DEF h, j, g, a

\* A chord that has become too late since the last frame is in the window of the
\* misses of this one, or near the big rock ending that the last frame was in.
LEMMA WindowsMeet ==
  ASSUME song \in Songs, songTime \in Int, NEW d \in 1 .. Step, NEW c \in Chords, InEnding,
         Time(c) + Margin + Bucket <= songTime + d, songTime < Time(c) + Margin + Bucket
  PROVE  /\ c \in Between((songTime + d) - 2 * Margin, (songTime + d) - Margin)
         /\ freestyleActive => NearEnding(c)
<1> DEFINE t == songTime + d
<1>1. /\ Time(c) \in Nat /\ Margin \in Nat /\ Bucket \in Nat \ {0} /\ Step \in Nat
      /\ Step + Bucket <= Margin
  BY SongFacts
<1>2. t \in Int /\ t - 2 * Margin <= Time(c) /\ Time(c) + Bucket <= t - Margin
      /\ Time(c) <= t - Margin
  BY <1>1
<1>3. BucketOf(Time(c)) < BucketOf(t - Margin)
  BY <1>1, <1>2, BucketsInOrder
<1>4. c \in Between(t - 2 * Margin, t - Margin)
  BY <1>2, <1>3 DEF Between
<1>5. ASSUME freestyleActive PROVE NearEnding(c)
  <2>1. songTime \in song.ending
    BY <1>5 DEF InEnding
  <2>2. SongType(song)
    BY GuitarSceneAssumption
  <2>3. /\ Min(song.ending) \in Int /\ Max(song.ending) \in Int
        /\ song.ending = Min(song.ending) .. Max(song.ending)
    BY <2>1, <2>2 DEF SongType
  <2>4. Min(song.ending) <= songTime /\ songTime <= Max(song.ending)
    BY <2>1, <2>3
  <2>5. Min(song.ending) - 2 * Margin <= Time(c) /\ Time(c) <= Max(song.ending) + 2 * Margin
    BY <1>1, <1>2, <2>3, <2>4
  <2> QED  BY <1>1, <2>1, <2>3, <2>5 DEF NearEnding
<1>6. freestyleActive => NearEnding(c)
  BY <1>5
<1> QED  BY <1>4, <1>6

\* A frame.
LEMMA FrameKeeps ==
  ASSUME IInv, NEW d \in 1 .. Step, Frame(d)
  PROVE  IInv'
<1> DEFINE t == songTime + d
<1>1. PICK fading \in SUBSET game.hit :
        LET g == RunInstrument(AwardEnding(game), t, fading)
            reported == IF freestyleActive THEN {} ELSE getMissedNotes(g, t)
            j == JudgeMisses(g, t)
        IN  /\ ~failed /\ t <= SongEnd
            /\ songTime' = t
            /\ failed' = (rock = "none")
            /\ rock' \in RockAfter(j.noteMissed \/ reported # {}, j.noteHit)
            /\ game' = [j EXCEPT !.noteMissed = FALSE, !.noteHit = FALSE]
            /\ freestyleActive' = (t \in song.ending)
            /\ seen' = seen \cup reported
            /\ inputs' = 0
            /\ UNCHANGED <<song, stale>>
  BY DEF Frame
<1> DEFINE g == RunInstrument(AwardEnding(game), t, fading)
           reported == IF freestyleActive THEN {} ELSE getMissedNotes(g, t)
           j == JudgeMisses(g, t)
           late == Between(t - 2 * Margin, t - Margin) \ Judged(game)
<1>2. /\ TypeOK /\ Offered /\ Passed /\ InEnding /\ NoHitWhenEmpty /\ FailedIsFinal /\ OfHits
      /\ song \in Songs /\ songTime \in Int /\ -Lead <= songTime /\ Lead \in Nat
      /\ Step \in Nat /\ t \in Int /\ songTime <= t /\ stale \in BOOLEAN
  BY SongFacts DEF IInv, OfHits, TypeOK
<1>3. /\ game' \in Game(Chords)
      /\ game'.played = game.played /\ game'.hopod = game.hopod
      /\ game'.notesHit = game.notesHit /\ game'.totalStreakNotes = game.totalStreakNotes
      /\ game.skipped \subseteq game'.skipped
      /\ HopoExpected(game') => HopoExpected(game)
      /\ game'.matchingNotes = Between(t - Margin, t + Margin) \ Judged(game)
      /\ getMissedNotes(g, t) = late
      /\ ~game'.noteHit /\ j.noteHit = game.noteHit
  BY <1>1, <1>2, FrameOfGame
<1>4. songTime' = t /\ song' = song /\ stale' = stale /\ t <= SongEnd
  BY <1>1
<1>5. rock' \in RockAfter(j.noteMissed \/ reported # {}, j.noteHit) /\ failed' = (rock = "none")
  BY <1>1
<1>6. freestyleActive' = (t \in song.ending) /\ seen' = seen \cup reported /\ inputs' = 0
  BY <1>1
<1>7. ~freestyleActive => reported = late
  BY <1>3
<1>8. reported \subseteq Chords
  BY <1>3 DEF Between
<1> HIDE DEF g, reported, j, t
<1>9. Chords' = Chords /\ LastChord' = LastChord /\ \A c \in Chords : Time(c)' = Time(c)
  BY <1>4 DEF Chords, LastChord, Time
<1>10. Judged(game)' = Judged(game') /\ Judged(game) \subseteq Judged(game')
  BY <1>3 DEF Judged
<1>11. TypeOK'
  <2>1. SongEnd' = SongEnd /\ SongEnd \in Nat
    BY <1>2, <1>4, SongEndType DEF SongEnd, EndOf, LastChord, Chords, Time
  <2>2. songTime' \in -Lead .. SongEnd'
    BY <1>2, <1>4, <2>1
  <2>3. rock' \in {"some", "none"}
    BY <1>5 DEF RockAfter
  <2>4. inputs' \in 0 .. Inputs
    BY <1>2, <1>6, SongFacts
  <2>5. failed' \in BOOLEAN /\ freestyleActive' \in BOOLEAN
    BY <1>5, <1>6
  <2>6. seen' \subseteq Chords
    BY <1>2, <1>6, <1>8 DEF TypeOK
  <2> QED  BY <1>2, <1>3, <1>4, <1>9, <2>2, <2>3, <2>4, <2>5, <2>6 DEF TypeOK
<1>12. Offered'
  <2> SUFFICES ASSUME NEW c \in game'.matchingNotes
               PROVE  /\ Time(c) >= t - Margin
                      /\ \A b \in Chords \ Judged(game') :
                           b < c /\ Time(b) >= t - Margin => b \in game'.matchingNotes
    BY <1>3, <1>4, <1>9, <1>10 DEF Offered, Between
  <2>1. c \in Chords /\ t - Margin <= Time(c) /\ Time(c) <= t + Margin
        /\ BucketOf(Time(c)) < BucketOf(t + Margin)
    BY <1>3 DEF Between
  <2>2. Margin \in Int /\ Time(c) \in Nat
    BY <1>2, <2>1, SongFacts
  <2>3. ASSUME NEW b \in Chords, b \notin Judged(game'), b < c, Time(b) >= t - Margin
        PROVE  b \in game'.matchingNotes
    <3>1. Time(b) \in Nat /\ Time(b) < Time(c)
      BY <1>2, <2>1, <2>3, SongFacts
    <3>2. BucketOf(Time(b)) <= BucketOf(Time(c)) /\ BucketOf(Time(b)) \in Nat
          /\ BucketOf(Time(c)) \in Nat
      BY <2>2, <3>1, BucketsInOrder
    <3>3. BucketOf(t + Margin) \in Nat
      BY <1>2, <2>2, BucketsInOrder
    <3>4. b \in Between(t - Margin, t + Margin)
      BY <1>2, <2>1, <2>2, <2>3, <3>1, <3>2, <3>3 DEF Between
    <3> QED  BY <1>3, <1>10, <2>3, <3>4
  <2> QED  BY <1>2, <2>1, <2>2, <2>3
<1>13. Passed'
  <2> SUFFICES ASSUME NEW c \in Chords, Time(c) + Margin + Bucket <= t, ~NearEnding(c)
               PROVE  c \in Judged(game') \cup seen'
    BY <1>4, <1>9, <1>10 DEF Passed, NearEnding
  <2>1. Time(c) \in Nat /\ Margin \in Nat /\ Bucket \in Nat
    BY <1>2, SongFacts
  <2>2. CASE Time(c) + Margin + Bucket <= songTime
    BY <1>2, <1>6, <1>10, <2>2 DEF Passed
  <2>3. CASE songTime < Time(c) + Margin + Bucket
    <3>1. Time(c) + Margin + Bucket <= songTime + d
      BY DEF t
    <3>2. /\ c \in Between((songTime + d) - 2 * Margin, (songTime + d) - Margin)
          /\ freestyleActive => NearEnding(c)
      BY <1>2, <2>3, <3>1, WindowsMeet
    <3>3. c \in Between(t - 2 * Margin, t - Margin)
      BY <3>2 DEF t
    <3>4. ~freestyleActive
      BY <3>2
    <3> QED  BY <1>6, <1>7, <1>10, <3>3, <3>4
  <2> QED  BY <1>2, <2>1, <2>2, <2>3
<1>14. InEnding' /\ NoHitWhenEmpty'
  BY <1>3, <1>4, <1>6 DEF InEnding, NoHitWhenEmpty
<1>15. FailedIsFinal'
  BY <1>2, <1>3, <1>5 DEF FailedIsFinal, NoHitWhenEmpty, RockAfter
<1>16. OfHits'
  BY <1>2, <1>3, <1>4, <1>10, NoNewHit
<1> QED  BY <1>11, <1>12, <1>13, <1>14, <1>15, <1>16 DEF IInv, OfHits

-----------------------------------------------------------------------------
\* The invariant holds when the song begins.
LEMMA InitEstablishes == Init => IInv
<1> SUFFICES ASSUME Init PROVE IInv
  OBVIOUS
<1>1. /\ song \in Songs /\ songTime = -Lead /\ rock = "some" /\ failed = FALSE
      /\ freestyleActive = FALSE /\ inputs = 0 /\ seen = {} /\ stale = FALSE
  BY DEF Init
<1>2. /\ game.held = {} /\ game.hit = {} /\ game.played = {} /\ game.hopod = {}
      /\ game.skipped = {} /\ game.matchingNotes = {} /\ game.hopoActive = 0
      /\ game.wasLastNoteHopod = FALSE /\ game.notesHit = 0
      /\ game.totalStreakNotes = Cardinality(Chords) /\ game.noteHit = FALSE
  BY DEF Init
<1>3. Cardinality(Chords) \in Nat /\ Lead \in Nat /\ Inputs \in Nat /\ Margin \in Nat
      /\ Bucket \in Nat \ {0} /\ \A c \in Chords : Time(c) \in Nat
  BY <1>1, SongFacts
<1>4. game \in Game(Chords)
  BY <1>3 DEF Init, Game
<1>5. SongEnd \in Nat
  BY <1>1, SongEndType
<1>6. TypeOK
  <2>1. songTime \in -Lead .. SongEnd /\ inputs \in 0 .. Inputs
    BY <1>1, <1>3, <1>5
  <2> QED  BY <1>1, <1>4, <2>1 DEF TypeOK
<1>7. Offered /\ InEnding /\ NoHitWhenEmpty /\ FailedIsFinal /\ TapFollowsHopo
  BY <1>1, <1>2 DEF Offered, InEnding, NoHitWhenEmpty, FailedIsFinal, TapFollowsHopo
<1>8. Passed
  <2>1. \A c \in Chords : ~ (Time(c) + Margin + Bucket <= songTime)
    BY <1>1, <1>3
  <2> QED  BY <2>1 DEF Passed
<1>9. HitChords(game) = {} /\ ~HopoExpected(game)
  BY <1>2 DEF HitChords, HopoExpected
<1>10. CountsOnce /\ HitsGoForward /\ ExpectedFollows
  BY <1>2, <1>9, FS_EmptySet DEF CountsOnce, HitsGoForward, ExpectedFollows
<1>11. Totals
  <2>1. Max({Cardinality(Chords), 0}) = Cardinality(Chords)
    BY <1>3, MaxOfTwo
  <2> QED  BY <1>2, <1>9, <2>1, FS_EmptySet DEF Totals
<1> QED  BY <1>6, <1>7, <1>8, <1>10, <1>11 DEF IInv

\* Every step keeps it.
LEMMA NextKeeps == IInv /\ [Next]_vars => IInv'
<1> SUFFICES ASSUME IInv, [Next]_vars PROVE IInv'
  OBVIOUS
<1>1. ASSUME NEW f \in Frets, Press(f) PROVE IInv'
  BY <1>1, PressKeeps
<1>2. ASSUME NEW f \in Frets, Release(f) PROVE IInv'
  BY <1>2, ReleaseKeeps
<1>3. CASE Strum
  BY <1>3, StrumKeeps
<1>4. ASSUME NEW d \in 1 .. Step, Frame(d) PROVE IInv'
  BY <1>4, FrameKeeps
<1>5. CASE UNCHANGED vars
  BY <1>5 DEF IInv, vars, TypeOK, Offered, Passed, InEnding, NoHitWhenEmpty, FailedIsFinal,
              TapFollowsHopo, Totals, CountsOnce, HitsGoForward, ExpectedFollows, HopoExpected, HitChords,
              Chords, Time, Tappable, LastChord, SongEnd, EndOf, NearEnding, Judged
<1> QED  BY <1>1, <1>2, <1>3, <1>4, <1>5 DEF Next

-----------------------------------------------------------------------------
\* The invariant holds for any songs, any windows with a frame and a bucket in
\* the margin, and any number of inputs between two frames.
THEOREM Invariance == Spec => []IInv
  BY InitEstablishes, NextKeeps, PTL DEF Spec

\* The handlers write only states of the game: every record that a pick, a key
\* or a frame leaves behind is one.
THEOREM TypeCorrect == Spec => []TypeOK
<1>1. IInv => TypeOK
  BY DEF IInv
<1> QED  BY <1>1, Invariance, PTL

\* No chord slips by unjudged between two frames or at the edge of a bucket of
\* Track.getEvents.
THEOREM NothingIsLost == Spec => []NothingSlipsBy
<1>1. IInv => NothingSlipsBy
  <2> SUFFICES ASSUME IInv, NEW c \in Chords, Time(c) + 2 * Margin < songTime, ~NearEnding(c)
               PROVE  c \in Judged(game) \cup seen
    BY DEF NothingSlipsBy
  <2>1. /\ Time(c) \in Nat /\ Margin \in Nat /\ Bucket \in Nat /\ Step \in Nat /\ songTime \in Int
        /\ Step + Bucket <= Margin
    BY SongFacts DEF IInv, TypeOK
  <2>2. Time(c) + Margin + Bucket <= songTime
    BY <2>1
  <2> QED  BY <2>2 DEF IInv, Passed
<1> QED  BY <1>1, Invariance, PTL

\* The score card counts each chord that was hit, once unless a pick was matched
\* with the judged chords of an earlier frame, and never more hits than its total.
THEOREM EachHitCounts == Spec => []HitsCounted
<1>1. IInv => HitsCounted
  BY DEF IInv, Totals, CountsOnce, HitChords, HitsCounted
<1> QED  BY <1>1, Invariance, PTL

\* A tap of a chord that has to be strummed follows a hammer-on that was let go.
THEOREM TapsFollow == Spec => []TapFollowsHopo
<1>1. IInv => TapFollowsHopo
  BY DEF IInv
<1> QED  BY <1>1, Invariance, PTL

\* Who has failed does not come back.
THEOREM FailureIsFinal == Spec => []FailedIsFinal
<1>1. IInv => FailedIsFinal
  BY DEF IInv
<1> QED  BY <1>1, Invariance, PTL

=============================================================================
