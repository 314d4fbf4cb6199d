------------------------------- MODULE Chart -------------------------------
(***************************************************************************)
(* How FoFiX makes a chart of a song (song.py): the MidiReader turns the   *)
(* notes of a MIDI track into the events of a NoteTrack, and markHopo then *)
(* says of every note whether it is strummed, or hammered on and pulled    *)
(* off, which module GuitarScene takes for granted.                        *)
(*                                                                         *)
(* The tempo is constant, and times are MIDI ticks.  A note enters the     *)
(* track when it ends, so the track is in the order in which notes end.    *)
(* Each turn of the two loops of markHopo is a step.                       *)
(***************************************************************************)
EXTENDS Integers, Sequences, FiniteSets

CONSTANTS
  Frets,       \* the frets notes are on: NOTE_MAP
  hopoDelta,   \* the longest distance of a hammer-on
  Gaps,        \* the distances between two MIDI events
  MaxNotes,    \* bound: notes of the track
  MaxTime      \* bound: the length of the track

chordFudge == 1

ASSUME ChartAssumption ==
  /\ Frets \subseteq 0 .. 4 /\ hopoDelta \in Nat /\ hopoDelta > chordFudge
  /\ Gaps \subseteq Nat \ {0} /\ MaxNotes \in Nat /\ MaxTime \in Nat

VARIABLES
  now,         \* the time of the MIDI event being read
  heldNotes,   \* heldNotes[f]: when the note that is held on f began, or None
  track,       \* NoteTrack.allEvents: [time, number]
  hopoAfterChord,
  phase,       \* "read", then the "first" and the "second" loop, "done"
  marks,       \* the tappable of each note
  last, before, before2, before3,  \* the note of the last turn, and those before it
  d, d1, d2    \* the last three distances: tickDelta, lastTickDelta, ...

readerVars == <<now, heldNotes, track, hopoAfterChord>>
pastVars == <<before, before2, before3, d, d1, d2>>
vars == <<readerVars, phase, marks, last, pastVars>>

None == -1

Note == [time: 0 .. MaxTime, number: Frets]

Init ==
  /\ now = 0 /\ heldNotes = [f \in Frets |-> None]
  /\ track = <<>> /\ hopoAfterChord \in BOOLEAN
  /\ phase = "read" /\ marks = <<>>
  /\ last = 0 /\ before = 0 /\ before2 = 0 /\ before3 = 0
  /\ d = 0 /\ d1 = 0 /\ d2 = 0

-----------------------------------------------------------------------------
\* MidiReader

Pass(gap) ==
  /\ phase = "read" /\ now + gap <= MaxTime
  /\ now' = now + gap
  /\ UNCHANGED <<heldNotes, track, hopoAfterChord, phase, marks, last, pastVars>>

\* a note that is held already begins anew
note_on(f) ==
  /\ phase = "read"
  /\ Len(track) + Cardinality({g \in Frets : heldNotes[g] # None} \cup {f}) <= MaxNotes
  /\ heldNotes' = [heldNotes EXCEPT ![f] = now]
  /\ UNCHANGED <<now, track, hopoAfterChord, phase, marks, last, pastVars>>

\* a note that was never started is only logged; no note is empty
\* mutant: it is taken for one that was
note_offAny(f) ==
  /\ phase = "read" /\ heldNotes[f] # now /\ Len(track) < MaxNotes
  /\ track' = Append(track, [time |-> heldNotes[f], number |-> f])
  /\ heldNotes' = [heldNotes EXCEPT ![f] = None]
  /\ UNCHANGED <<now, hopoAfterChord, phase, marks, last, pastVars>>
note_off(f) ==
  /\ phase = "read" /\ heldNotes[f] \notin {None, now} /\ Len(track) < MaxNotes
  /\ track' = Append(track, [time |-> heldNotes[f], number |-> f])
  /\ heldNotes' = [heldNotes EXCEPT ![f] = None]
  /\ UNCHANGED <<now, hopoAfterChord, phase, marks, last, pastVars>>

-----------------------------------------------------------------------------
\* markHopo

\* the reader is gone, with what it still held
markHopo ==
  /\ phase = "read" /\ track # <<>>
  /\ now' = 0 /\ heldNotes' = [f \in Frets |-> None]
  /\ phase' = "first" /\ marks' = [i \in 1 .. Len(track) |-> 0]
  /\ UNCHANGED <<track, hopoAfterChord, last, pastVars>>

Notes == 1 .. Len(track)
Distance(i) == IF i < 2 THEN 0 ELSE track[i].time - track[i - 1].time
Back(i, k) == IF i - k < 1 THEN 1 ELSE i - k
Near(i) == i \in 2 .. Len(track) /\ Distance(i) <= hopoDelta
SameFret(i) == track[i].number = track[i - 1].number

\* The first loop: m is the tappable of the notes.  The same note as before:
MarkSame(m, i) ==
  CASE ~hopoAfterChord -> [m EXCEPT ![i] = -2, ![i - 1] = -2]
    [] hopoAfterChord /\ m[i - 1] # -4 ->
         [m EXCEPT ![i - 1] = -2,
                   ![i] = IF m[Back(i, 2)] = -4 /\ Distance(i - 1) <= hopoDelta
                          THEN -5 ELSE -2]
    [] OTHER -> m

\* a note of the chord that the note before began
MarkChord(m, i) ==
  LET b == Back(i, 2)
      after == m[b] = -2 /\ Distance(i - 1) <= hopoDelta
                 /\ m[Back(i, 3)] >= 0 /\ Distance(i - 2) <= hopoDelta
      k == IF after THEN [m EXCEPT ![b] = IF m[i - 1] = -2 THEN 0 ELSE -5] ELSE m
  IN  IF hopoAfterChord THEN [k EXCEPT ![i - 1] = -4, ![i] = -4]
                        ELSE [m EXCEPT ![i - 1] = -1, ![i] = -1]

\* too far from the note before: a run of hammer-ons is over
MarkFar(m, i) ==
  IF Near(i - 1) /\ m[i - 1] # -1
  THEN [m EXCEPT ![i - 1] = IF @ >= 0 THEN 3 ELSE -1] ELSE m

FirstMark(m, i) ==
  LET k == IF i = 2 /\ Near(2) THEN [m EXCEPT ![1] = 1] ELSE m
  IN  CASE i = 1 -> [m EXCEPT ![1] = -3]
        [] i > 1 /\ ~Near(i) -> MarkFar(k, i)
        [] i > 1 /\ Near(i) /\ SameFret(i) -> MarkSame(k, i)
        [] i > 1 /\ Near(i) /\ ~SameFret(i) /\ Distance(i) < chordFudge -> MarkChord(k, i)
        [] OTHER -> k

FirstTurn ==
  /\ phase = "first" /\ last < Len(track)
  /\ marks' = FirstMark(marks, last + 1) /\ last' = last + 1
  /\ UNCHANGED <<readerVars, phase, pastVars>>

\* only the last distance is kept for the second loop
FirstEnd ==
  /\ phase = "first" /\ last = Len(track)
  /\ phase' = "second" /\ last' = 0 /\ d' = Distance(Len(track))
  /\ UNCHANGED <<readerVars, marks, before, before2, before3, d1, d2>>

\* The second loop is over hopoNotes: the notes with a neighbour that is
\* near, and the last note once more
hopoNotes == {i \in Notes : Near(i) \/ Near(i + 1)}

ListedTwice ==
  LET n == Len(track)
  IN  n > 1 /\ ~SameFret(n) /\ Distance(n) \in (chordFudge + 1) .. (hopoDelta - 1)

Upcoming(n) ==
  \/ n \in hopoNotes /\ last < n /\ \A k \in hopoNotes : last < k => n <= k
  \/ n = Len(track) /\ n = last /\ ListedTwice /\ before # n

\* how many notes the chord that ends in last has, and which they are (the
\* distances move up before they are looked at, the notes do so at the end)
ChordBefore ==
  {last, before} \cup
    (IF d1 < chordFudge
     THEN {before2} \cup (IF d2 < chordFudge THEN {before3} ELSE {})
     ELSE {})

\* a hammer-on after a chord must not be its highest note
MayFollow(n) == \E i \in ChordBefore :
  /\ track[i].number # track[n].number
  /\ \A j \in ChordBefore : track[j].number <= track[i].number

StartAtChord(m) == [i \in DOMAIN m |-> IF i \in ChordBefore THEN 1 ELSE m[i]]

OtherFret(n) == track[last].number # track[n].number

\* n cannot be hammered: what it ends
SecondInvalid(m, n) ==
  CASE m[last] \in {1, 2} /\ m[n] = -2 -> [m EXCEPT ![n] = 3]
    [] m[last] = 1 /\ m[n] # -2 -> [m EXCEPT ![last] = 0]
    [] m[n] = -2 /\ (m[last] = -5 \/ (m[last] = -2 /\ OtherFret(n))) ->
         [m EXCEPT ![last] = 1, ![n] = 3]
    [] m[n] = -2 /\ m[last] = -4 ->
         IF MayFollow(n) THEN [StartAtChord(m) EXCEPT ![n] = 3] ELSE m
    [] m[last] > 0 /\ ~(m[last] \in {1, 2} /\ m[n] = -2) /\ m[last] # 1 ->
         [m EXCEPT ![last] = 3]
    [] OTHER -> m

\* mutant: a run that only has an end is kept
SecondEndKept(m, n) ==
  CASE m[last] \in {-5, 0} \/ (m[last] = -2 /\ OtherFret(n)) -> [m EXCEPT ![last] = 1]
    [] m[last] = -4 /\ MayFollow(n) -> StartAtChord(m)
    [] OTHER -> m
\* n ended a run in the first loop
SecondEnd(m, n) ==
  CASE m[last] \in {1, 2} -> m
    [] m[last] \in {-5, 0} \/ (m[last] = -2 /\ OtherFret(n)) -> [m EXCEPT ![last] = 1]
    [] m[last] = -4 /\ MayFollow(n) -> StartAtChord(m)
    [] m[last] = -2 /\ ~OtherFret(n) -> [m EXCEPT ![n] = -2]
    [] OTHER -> [m EXCEPT ![n] = 0]

SecondMiddle(m, n) ==
  CASE m[last] = -2 -> [m EXCEPT ![n] = 1]
    [] m[last] = -1 -> [m EXCEPT ![n] = 0]
    [] m[last] = 3 -> [m EXCEPT ![last] = 2]
    [] OTHER -> m

\* n is not marked yet: it goes on with a run, or begins one; delta is its
\* distance to the last note
SecondOpen(m, n, delta) ==
  LET k == CASE m[last] = -5 \/ (m[last] = -2 /\ delta <= hopoDelta) -> [m EXCEPT ![last] = 1]
             [] m[last] = -4 /\ MayFollow(n) -> StartAtChord(m)
             [] m[last] = 3 /\ delta <= hopoDelta -> [m EXCEPT ![last] = 2]
             [] OTHER -> m
  IN  [k EXCEPT ![n] = IF k[last] \in {1, 2} THEN 2 ELSE 1]

SecondMark(m, n, delta) ==
  CASE m[n] < 0 -> SecondInvalid(m, n)
    [] m[n] = 3 -> SecondEnd(m, n)
    [] m[n] = 2 -> SecondMiddle(m, n)
    [] m[n] = 1 -> IF m[last] = 2 THEN [m EXCEPT ![n] = 0] ELSE m
    [] OTHER -> SecondOpen(m, n, delta)

SecondStart(n) ==
  /\ phase = "second" /\ last = 0 /\ Upcoming(n)
  /\ marks' = IF marks[n] >= 0 THEN [marks EXCEPT ![n] = 1] ELSE marks
  /\ last' = n /\ before' = n /\ before2' = n /\ before3' = n
  /\ UNCHANGED <<readerVars, phase, d, d1, d2>>

SecondTurn(n) ==
  /\ phase = "second" /\ last # 0 /\ Upcoming(n)
  /\ marks' = SecondMark(marks, n, track[n].time - track[last].time)
  /\ d' = track[n].time - track[last].time /\ d1' = d /\ d2' = d1
  /\ last' = n /\ before' = last /\ before2' = before /\ before3' = before
  /\ UNCHANGED <<readerVars, phase>>

\* mutant: the last note is left as the start or the middle of a run
MarkLastNot(m) == m
MarkLast(m) ==
  CASE last # 0 /\ m[last] = 1 -> [m EXCEPT ![last] = 0]
    [] last # 0 /\ m[last] = 2 -> [m EXCEPT ![last] = IF d < chordFudge THEN -4 ELSE 3]
    [] OTHER -> m

SecondEndOfList ==
  /\ phase = "second" /\ \A n \in Notes : ~Upcoming(n)
  /\ phase' = "done" /\ marks' = MarkLast(marks)
  /\ UNCHANGED <<readerVars, last, pastVars>>

Next ==
  \/ \E g \in Gaps : Pass(g)
  \/ \E f \in Frets : note_on(f) \/ note_off(f)
  \/ markHopo
  \/ FirstTurn \/ FirstEnd
  \/ \E n \in Notes : SecondStart(n) \/ SecondTurn(n)
  \/ SecondEndOfList

Spec == Init /\ [][Next]_vars

-----------------------------------------------------------------------------
\* Types of the reader's and the track's variables; what the marks can be.
TypeOK ==
  /\ now \in 0 .. MaxTime /\ heldNotes \in [Frets -> (0 .. MaxTime) \cup {None}]
  /\ track \in Seq(Note) /\ Len(track) <= MaxNotes /\ hopoAfterChord \in BOOLEAN
  /\ phase \in {"read", "first", "second", "done"}
  /\ marks \in [(IF phase = "read" THEN {} ELSE Notes) -> -5 .. 3]
  /\ last \in 0 .. Len(track)
  /\ {before, before2, before3} \subseteq 0 .. Len(track)
  /\ {d, d1, d2} \subseteq -MaxTime .. MaxTime

\* notes end in the order in which they begin, which markHopo relies on
InOrder == \A i, j \in Notes : i < j => track[i].time <= track[j].time

ChordOf(i) == {j \in Notes : track[j].time = track[i].time}
Previous(i) ==
  {j \in Notes : /\ track[j].time < track[i].time
                 /\ \A k \in Notes : track[k].time < track[i].time
                                       => track[k].time <= track[j].time}

\* A note is hammered on or pulled off only where fingers can do it: it is
\* alone, the chord before it is near and is not the same single note, and
\* the last three notes of that chord start or continue a run (the second
\* loop remembers no more of them than three).
HopoHasStart ==
  (phase = "done" /\ InOrder) =>
    \A i \in Notes : marks[i] \in {2, 3} =>
      /\ ChordOf(i) = {i} /\ Previous(i) # {}
      /\ \A j \in Previous(i) : /\ track[i].time - track[j].time <= hopoDelta
                                /\ j >= i - 3 => marks[j] \in {1, 2}
                                /\ Previous(i) = {j} => track[j].number # track[i].number

\* A run that is started goes on: what follows a start or a middle is a
\* middle or an end, except at the last note of the song.
RunGoesOn ==
  (phase = "done" /\ InOrder) =>
    \A i \in Notes : marks[i] \in {1, 2} =>
      \E j \in Notes : i \in Previous(j) /\ (marks[j] \in {2, 3} \/ j = Len(track))

\* song.py:1588: "mark all notes in this chord as tappable = 1 not just the
\* last one ... if "lastEvent" is the 4th, must go back and change 3rd, 2nd,
\* and 1st": the chord before a hammer-on is marked as a whole.
WholeChordStarts ==
  (phase = "done" /\ InOrder) =>
    \A i \in Notes : marks[i] \in {2, 3} =>
      \A j \in Previous(i) : Cardinality(Previous(i)) <= 4 => marks[j] \in {1, 2}
=============================================================================
