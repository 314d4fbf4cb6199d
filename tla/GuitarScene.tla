---------------------------- MODULE GuitarScene ----------------------------
(***************************************************************************)
(* One guitarist playing one song in FoFiX, the game that a real guitar    *)
(* drives through the desynthesizer: GuitarScene.py (the picks, the frame, *)
(* the verdict on every chord, the score card, the rock meter and the big  *)
(* rock ending) with Guitar.py and Instrument.py (which notes a pick is    *)
(* matched with, hammer-ons and pull-offs, sustains).                      *)
(*                                                                         *)
(* Between two frames the player presses and releases frets and strums.    *)
(* Notes that start together are one chord: they are matched, played,      *)
(* skipped and missed together.  Time is counted in whole units.           *)
(***************************************************************************)
EXTENDS Integers, FiniteSets, FiniteSetsExt

CONSTANTS
  Songs,      \* the songs: their chords in order of time, the big rock ending
  Frets,      \* the frets the player uses
  Lead,       \* how long before its beginning the song is shown
  Margin,     \* lateMargin and earlyMargin
  Bucket,     \* Track.granularity
  Step,       \* the longest time between two frames
  Inputs      \* bound: inputs between two frames

NoFret == -1

ChordType(chord) ==
  /\ chord.time \in Nat /\ chord.length \in Nat
  /\ chord.frets \in SUBSET Frets \ {{}} /\ chord.lead \in chord.frets
  /\ chord.tappable \in 0 .. 3

\* as markHopo leaves a chart (module Chart): a middle or an end of a run has
\* the run before it, and a run goes on, unless the song is at its last chord
Marked(chords) ==
  \A c \in DOMAIN chords :
    /\ chords[c].tappable \in {2, 3} =>
         c - 1 \in DOMAIN chords /\ chords[c - 1].tappable \in {1, 2}
    /\ chords[c].tappable \in {1, 2} =>
         /\ c + 1 \in DOMAIN chords
         /\ chords[c + 1].tappable \in {2, 3} \/ c + 1 = Cardinality(DOMAIN chords)

SongType(s) ==
  /\ DOMAIN s.chords # {} /\ IsFiniteSet(DOMAIN s.chords)
  /\ DOMAIN s.chords = 1 .. Cardinality(DOMAIN s.chords)
  /\ \A c \in DOMAIN s.chords : ChordType(s.chords[c])
  /\ \A b, c \in DOMAIN s.chords : b < c => s.chords[b].time < s.chords[c].time
  /\ Marked(s.chords)
  /\ s.ending # {} => /\ Min(s.ending) \in Int /\ Max(s.ending) \in Int
                      /\ s.ending = Min(s.ending) .. Max(s.ending)

ASSUME GuitarSceneAssumption ==
  /\ Frets \subseteq 0 .. 4
  /\ Lead \in Nat /\ Margin \in Nat \ {0} /\ Bucket \in Nat \ {0}
  /\ Step \in Nat \ {0} /\ Inputs \in Nat
  /\ Step + Bucket <= Margin
  /\ \A s \in Songs : SongType(s)

VARIABLES
  song,       \* the song that was loaded
  songTime,
  game,       \* what the handlers read and write: see Game
  rock,       \* "some" or "none" is left of the rock meter
  failed,
  freestyleActive,  \* set when the lanes of the big rock ending are drawn
  inputs,     \* inputs since the last frame
  seen,       \* history: the chords a frame has reported as missed
  stale       \* history: a pick was matched with a chord already judged

vars == <<song, songTime, game, rock, failed, freestyleActive, inputs, seen, stale>>

Chords == DOMAIN song.chords
Time(c) == song.chords[c].time
Strings(c) == song.chords[c].frets
Tappable(c) == song.chords[c].tappable
EndOf(c) == Time(c) + song.chords[c].length
LastChord == Max(Chords)
SongEnd == EndOf(LastChord) + 2 * Margin + 1

Game(chords) ==
  [held: SUBSET Frets, hit: SUBSET Frets,
   played: SUBSET chords, hopod: SUBSET chords, skipped: SUBSET chords,
   matchingNotes: SUBSET chords, playedNotes: SUBSET chords, lastPlayedNotes: SUBSET chords,
   hopoActive: Int, wasLastNoteHopod: BOOLEAN, hopoLast: Frets \cup {NoFret},
   LastStrumWasChord: BOOLEAN,
   sameNoteHopoString: BOOLEAN, hopoProblemNoteNum: Frets \cup {NoFret},
   streak: Nat, notesHit: Nat, totalStreakNotes: Nat,
   processedFirstNoteYet: BOOLEAN, noteMissed: BOOLEAN, noteHit: BOOLEAN,
   endingStreakBroken: BOOLEAN, freestyleWasJustActive: BOOLEAN, endingAwarded: BOOLEAN]

Judged(g) == g.played \cup g.hopod \cup g.skipped

-----------------------------------------------------------------------------
\* The chords a pick may be meant for, and those it is too late for

BucketOf(t) == IF t < 0 THEN 0 ELSE t \div Bucket

\* Track.getEvents leaves out the bucket in which the interval ends
Between(from, to) ==
  {c \in Chords : from <= Time(c) /\ Time(c) <= to /\ BucketOf(Time(c)) < BucketOf(to)}

getRequiredNotes(g, t) == Between(t - Margin, t + Margin) \ Judged(g)

\* mutant: the window of the misses is no longer than a frame
getMissedNotesNarrow(g, t) == Between(t - Margin - Step + 1, t - Margin) \ Judged(g)
getMissedNotes(g, t) == Between(t - 2 * Margin, t - Margin) \ Judged(g)

CatchUp(g, t) == [g EXCEPT !.skipped = @ \cup getMissedNotes(g, t)]

-----------------------------------------------------------------------------
\* The score card

\* mutant: the streak is shortened, not broken
screwUpShort(g) ==
  [g EXCEPT !.streak = @ - 1, !.endingStreakBroken = TRUE, !.noteMissed = TRUE]
screwUp(g) ==
  [g EXCEPT !.streak = 0, !.endingStreakBroken = TRUE, !.noteMissed = TRUE]

\* mutant: the total does not follow the hits
noteHitTotalStays(g) ==
  [g EXCEPT !.processedFirstNoteYet = TRUE, !.noteHit = TRUE,
            !.streak = @ + 1, !.notesHit = @ + 1]
noteHit(g) ==
  [g EXCEPT !.processedFirstNoteYet = TRUE, !.noteHit = TRUE,
            !.streak = @ + 1, !.notesHit = @ + 1,
            !.totalStreakNotes = Max({@, g.notesHit + 1})]

-----------------------------------------------------------------------------
\* Guitar.py: a pick against matchingNotes, which only a frame renews

\* a chord matches exactly, a single note with no higher fret held
Matches(g, c) ==
  IF Cardinality(Strings(c)) > 1
  THEN Strings(c) = g.held
  ELSE \E f \in Strings(c) : f \in g.held /\ \A h \in g.held : h <= f

\* the chord that is hit: none, or the only member.  Left out is twoChordMax, an
\* option of a player or a controller, off by default, with which two held frets
\* match a chord of more.
Chosen(g, hopo) ==
  LET tried == IF hopo THEN {c \in g.matchingNotes : \A d \in g.matchingNotes : c <= d}
                       ELSE g.matchingNotes
      fit == {c \in tried : Matches(g, c)}
  IN  IF \E c \in g.matchingNotes : c \in g.hopod /\ Strings(c) \cap g.held # {}
      THEN {}
      ELSE {c \in fit : \A d \in fit : c <= d}

\* the chords before the one that is hit are skipped
controlsMatchNotes3(g, hopo) ==
  LET chosen == Chosen(g, hopo)
      missed == {c \in g.matchingNotes : \E d \in chosen : c < d}
  IN  [g EXCEPT !.played = (@ \cup chosen) \ missed, !.skipped = @ \cup missed]

\* the last two notes of a pick, as LastStrumWasChord compares them
ChordTaps(playing) ==
  LET c == Max(playing)
      before == IF Cardinality(Strings(c)) > 1 THEN c ELSE Max(playing \ {c})
  IN  Tappable(c) = 1 /\ Tappable(before) = 1

\* mutant: the last of a run of hammer-ons expects another one
HopoActiveOn(c) == IF Tappable(c) \in 1 .. 3 THEN Time(c) ELSE 0
HopoActive(c) ==
  CASE Tappable(c) \in {1, 2} -> Time(c)
    [] Tappable(c) = 3 -> -Time(c)
    [] OTHER -> 0

startPick3(g, hopo) ==
  LET m == controlsMatchNotes3(g, hopo)
      playing == m.matchingNotes \cap m.played
      c == Max(playing)
      several == Cardinality(playing) > 1 \/ Cardinality(Strings(c)) > 1
      threes == {d \in playing : Tappable(d) = 3}
      p == [m EXCEPT !.lastPlayedNotes = g.playedNotes, !.playedNotes = playing]
      h == IF hopo /\ threes # {}
           THEN [p EXCEPT !.sameNoteHopoString = TRUE,
                          !.hopoProblemNoteNum = song.chords[Max(threes)].lead]
           ELSE p
  IN  IF playing = {} THEN p
      ELSE [h EXCEPT
              !.hopod = IF hopo THEN @ \cup playing ELSE @,
              !.hopoActive = HopoActive(c),
              !.wasLastNoteHopod = Tappable(c) \in 1 .. 3,
              !.hopoLast = song.chords[c].lead,
              !.LastStrumWasChord = several /\ ChordTaps(playing)]

-----------------------------------------------------------------------------
\* GuitarScene.py: one pick

\* hopoLast and hopoProblemNoteNum are compared with n and with n - 5
StillHeld(g, fret) == fret \in g.held \/ (fret = NoFret /\ 4 \in g.held)
HigherFretsHeld(g) == \E f \in g.held : f > g.hopoLast /\ ~(g.hopoLast = NoFret /\ f = 4)

\* a strum of the note just hammered or pulled
AcceptableStrum(g, hopo) ==
  /\ ~hopo /\ g.wasLastNoteHopod /\ ~g.LastStrumWasChord /\ ~g.sameNoteHopoString
  /\ StillHeld(g, g.hopoLast) /\ ~HigherFretsHeld(g)
  /\ Max({g.hopoActive, -g.hopoActive}) - songTime \in (1 - Margin) .. (Margin - 1)
  /\ g.hopoActive # 0

ForgetHopo(g) ==
  [g EXCEPT !.hopoActive = 0, !.wasLastNoteHopod = FALSE, !.LastStrumWasChord = FALSE,
            !.sameNoteHopoString = FALSE, !.hopoProblemNoteNum = NoFret, !.hopoLast = NoFret]

ForgetProblem(g) == [g EXCEPT !.sameNoteHopoString = FALSE, !.hopoProblemNoteNum = NoFret]

\* after a pick that hit nothing; last: LastHopoFretStillHeld, higher: HigherFretsHeld
Penalty(g, hopo, last, higher) ==
  LET r == IF hopo /\ ~(g.LastStrumWasChord \/ (g.wasLastNoteHopod /\ last))
           THEN ForgetHopo(g) ELSE g
      k == CASE r.sameNoteHopoString /\ last ->
                  ForgetProblem([r EXCEPT !.playedNotes = r.lastPlayedNotes])
             [] r.sameNoteHopoString /\ ~last /\ higher -> ForgetProblem(r)
             [] OTHER -> r
  IN  IF hopo \/ (r.sameNoteHopoString /\ last) THEN k ELSE screwUp(k)

doPick3GH2(g, hopo) ==
  LET late == getMissedNotes(g, songTime) # {}
      m == IF late THEN screwUp([CatchUp(g, songTime) EXCEPT !.processedFirstNoteYet = TRUE])
                   ELSE g
      h == IF m.sameNoteHopoString /\ ~StillHeld(m, m.hopoProblemNoteNum)
           THEN ForgetProblem(m) ELSE m
      p == startPick3(h, hopo)
  IN  CASE late /\ hopo -> m
        [] ~(late /\ hopo) /\ AcceptableStrum(m, hopo) -> [m EXCEPT !.wasLastNoteHopod = FALSE]
        [] OTHER -> IF p.playedNotes # {} THEN noteHit(p)
                    ELSE Penalty(p, hopo, StillHeld(m, m.hopoLast), HigherFretsHeld(m))

\* during the big rock ending; a pick counts as a hit while a strum bar is down
\* (some fret is always held)
FreestylePick(g, bar) ==
  CatchUp(IF bar THEN [g EXCEPT !.endingStreakBroken = FALSE, !.freestyleWasJustActive = TRUE]
                 ELSE g,
          songTime + Margin)

\* mutant: a player who has failed goes on picking
handlePickAlways(g, hopo, bar) ==
  IF freestyleActive THEN FreestylePick(g, bar) ELSE doPick3GH2(g, hopo)

\* bar: a strum bar is down
handlePick(g, hopo, bar) ==
  CASE rock = "none" -> g
    [] rock # "none" /\ freestyleActive -> FreestylePick(g, bar)
    [] OTHER -> doPick3GH2(g, hopo)

-----------------------------------------------------------------------------
Init ==
  /\ song \in Songs /\ songTime = -Lead
  /\ game = [held |-> {}, hit |-> {}, played |-> {}, hopod |-> {}, skipped |-> {},
             matchingNotes |-> {}, playedNotes |-> {}, lastPlayedNotes |-> {},
             hopoActive |-> 0, wasLastNoteHopod |-> FALSE, hopoLast |-> NoFret,
             LastStrumWasChord |-> FALSE,
             sameNoteHopoString |-> FALSE, hopoProblemNoteNum |-> NoFret,
             streak |-> 0, notesHit |-> 0, totalStreakNotes |-> Cardinality(Chords),
             processedFirstNoteYet |-> FALSE, noteMissed |-> FALSE, noteHit |-> FALSE,
             endingStreakBroken |-> FALSE, freestyleWasJustActive |-> FALSE,
             endingAwarded |-> FALSE]
  /\ rock = "some" /\ failed = FALSE /\ freestyleActive = FALSE
  /\ inputs = 0 /\ seen = {} /\ stale = FALSE

\* an input; picks: whether it may reach handlePick
Input(g, picks) ==
  /\ inputs < Inputs /\ inputs' = inputs + 1
  /\ game' = g
  /\ stale' = (stale \/ (picks /\ game.matchingNotes \cap Judged(game) # {}))
  /\ UNCHANGED <<song, songTime, rock, failed, freestyleActive, seen>>

\* keyPressed with a fret: a hammer-on while one is expected
Press(f) ==
  LET g == [game EXCEPT !.held = @ \cup {f}]
      hopo == g.hopoActive > 0 \/ (g.wasLastNoteHopod /\ g.hopoActive = 0)
  IN  /\ f \notin game.held
      /\ \E bar \in BOOLEAN : Input(IF hopo THEN handlePick(g, TRUE, bar) ELSE g, hopo)

\* keyReleased with a fret: the end of a sustain, then perhaps a pull-off
Release(f) ==
  LET g == [game EXCEPT !.held = @ \ {f}]
      ends == \E c \in g.playedNotes : f \in Strings(c) /\ f \in g.hit
      e == IF ends THEN [g EXCEPT !.playedNotes = {}] ELSE g
      hopo == e.held # {} /\ e.hopoActive > 0
  IN  /\ f \in game.held
      /\ \E bar \in BOOLEAN : Input(IF hopo THEN handlePick(e, TRUE, bar) ELSE e, hopo)

\* keyPressed with the strum bar, which does nothing without a fret
Strum ==
  /\ game.held # {}
  /\ Input(handlePick(game, FALSE, TRUE), TRUE)

-----------------------------------------------------------------------------
\* GuitarScene.run: a frame

AwardEnding(g) ==
  [g EXCEPT !.endingAwarded =
     @ \/ (/\ g.freestyleWasJustActive /\ ~g.endingStreakBroken
           /\ LastChord \in g.played \cup g.hopod)]

\* Guitar.run, and endPick when a sustain is over; a string that was hit may
\* still be fading
RunInstrument(g, t, fading) ==
  [g EXCEPT !.matchingNotes = getRequiredNotes(g, t),
            !.hit = (UNION {Strings(c) : c \in g.playedNotes}) \cup fading,
            !.playedNotes = IF \E c \in @ : t > EndOf(c) THEN {} ELSE @]

BreaksStreak(g, t) ==
  /\ g.streak # 0 \/ ~g.processedFirstNoteYet
  /\ g.playedNotes = {} /\ getMissedNotes(g, t) # {}

JudgeMisses(g, t) ==
  CASE freestyleActive -> CatchUp(g, t + 2 * Margin)
    [] ~freestyleActive /\ BreaksStreak(g, t) -> screwUp(g)
    [] OTHER -> g

\* what a frame can leave of the meter; the amounts are left out
RockAfter(missed, hit) ==
  IF rock = "some" THEN {"some"} \cup (IF missed THEN {"none"} ELSE {})
                   ELSE {"none"} \cup (IF hit THEN {"some"} ELSE {})

Frame(d) ==
  \E fading \in SUBSET game.hit :
    LET t == songTime + d
        g == RunInstrument(AwardEnding(game), t, fading)
        reported == IF freestyleActive THEN {} ELSE getMissedNotes(g, t)
        j == JudgeMisses(g, t)
    IN  /\ ~failed /\ t <= SongEnd
        /\ songTime' = t
        /\ failed' = (rock = "none")
        /\ rock' \in RockAfter(j.noteMissed \/ reported # {}, j.noteHit)
        /\ game' = [j EXCEPT !.noteMissed = FALSE, !.noteHit = FALSE]
        /\ freestyleActive' = (t \in song.ending)
        /\ seen' = seen \cup reported
        /\ inputs' = 0
        /\ UNCHANGED <<song, stale>>

Next ==
  \/ \E f \in Frets : Press(f) \/ Release(f)
  \/ Strum
  \/ \E d \in 1 .. Step : Frame(d)

Spec == Init /\ [][Next]_vars

-----------------------------------------------------------------------------
TypeOK ==
  /\ song \in Songs /\ songTime \in -Lead .. SongEnd
  /\ game \in Game(Chords)
  /\ rock \in {"some", "none"} /\ failed \in BOOLEAN /\ freestyleActive \in BOOLEAN
  /\ inputs \in 0 .. Inputs /\ seen \subseteq Chords /\ stale \in BOOLEAN

\* the frames of the big rock ending judge what is played around it
NearEnding(c) ==
  song.ending # {} /\ Time(c) \in (Min(song.ending) - 2 * Margin) .. (Max(song.ending) + 2 * Margin)

(* A chord does not slip by: once it is twice the margin behind, it was    *)
(* played, tapped, skipped, or a frame has reported it missed, although    *)
(* getEvents leaves out the bucket that the window of the misses ends in.  *)
NothingSlipsBy ==
  \A c \in Chords : Time(c) + 2 * Margin < songTime /\ ~NearEnding(c)
                      => c \in Judged(game) \cup seen

(* Every chord that was hit counts, and none counts twice as long as no    *)
(* pick was matched with the chords of a frame that an earlier pick has    *)
(* judged (two picks between frames).  That is how notesHit can pass the   *)
(* number of chords of the song; the total follows it, so that the         *)
(* accuracy never passes 100% (Scorekeeper.py:242).                        *)
HitsCounted ==
  LET hits == Cardinality(game.played \cup game.hopod) IN
  /\ hits <= game.notesHit
  /\ game.totalStreakNotes = Max({Cardinality(Chords), game.notesHit})
  /\ ~stale => game.notesHit = hits

(* A chord that has to be strummed is tapped only by a player who has let  *)
(* go a hammer-on before it: until then hopoActive stands for the chord    *)
(* that was marked to follow.  The last chord of the song may follow a     *)
(* run that markHopo has left without an end.                              *)
TapFollowsHopo ==
  \A c \in game.hopod :
    \/ stale \/ Tappable(c) \in {2, 3}
    \/ c = LastChord /\ c - 1 \in Chords /\ Tappable(c - 1) \in {1, 2}
    \/ \E b \in Chords : b < c /\ Tappable(b) \in {2, 3} /\ b \notin game.played \cup game.hopod

(* A player who has failed stays failed: no pick between the frame that    *)
(* empties the rock meter and the next one fills it again.                 *)
FailedIsFinal == failed => rock = "none"

(* The comments at GuitarScene.py 2590 and 2601: the score of the big rock *)
(* ending is awarded only if every note after it was hit.  It is not: a    *)
(* chord that is skipped by strumming the next one does not break it.      *)
EndingEarned ==
  game.endingAwarded =>
    \A c \in Chords : (song.ending # {} /\ Time(c) > Max(song.ending))
                         => c \in game.played \cup game.hopod

=============================================================================
