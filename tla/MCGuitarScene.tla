--------------------------- MODULE MCGuitarScene ---------------------------
(* Songs of two or three chords: a run of hammer-ons, a run and a note     *)
(* that is to be strummed, a run that does not go on, a chord before a     *)
(* run, a slow run with a big rock ending in it and a chord after it.      *)
EXTENDS GuitarScene

Chord(t, fs, l, tap) ==
  [time |-> t, frets |-> fs, length |-> l, tappable |-> tap, lead |-> Max(fs)]

NoEnding == {}

SmallSongs == {
  [chords |-> <<Chord(0, {0}, 0, 1), Chord(2, {4}, 0, 2), Chord(4, {0}, 0, 3)>>,
   ending |-> NoEnding],
  [chords |-> <<Chord(0, {0}, 0, 1), Chord(2, {4}, 0, 3), Chord(5, {0}, 1, 0)>>,
   ending |-> NoEnding],
  [chords |-> <<Chord(0, {0}, 0, 1), Chord(3, {4}, 0, 0)>>,
   ending |-> NoEnding],
  [chords |-> <<Chord(1, {0, 4}, 3, 0), Chord(3, {0}, 0, 1), Chord(5, {4}, 1, 3)>>,
   ending |-> NoEnding],
  [chords |-> <<Chord(0, {4}, 0, 1), Chord(9, {0}, 0, 3), Chord(11, {4}, 0, 0)>>,
   ending |-> 2 .. 4] }
=============================================================================
