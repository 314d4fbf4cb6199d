--------------------------- MODULE Desynthesizer ---------------------------
(***************************************************************************)
(* From extracted notes to MIDI messages (fft2midi/fft2midi.cpp), and what *)
(* the messages make sound at the other end.  One MIDI channel is modelled *)
(* with the sessions that use it one after the other: the broker sees to   *)
(* it that no two use it at once (module ChannelBroker).                   *)
(*                                                                         *)
(* A NotesList is ascending, so it is given by how often each note occurs  *)
(* in it, a bag.  The signature extraction lists a note at most once; hill *)
(* climbing lists one for every falling bin, and neighbouring bins can     *)
(* have the same note.  Which notes a window gives is left open: the       *)
(* window is audio, or the uninitialized interval of a new Tone, or what a *)
(* broken-off recv left in it.                                             *)
(*                                                                         *)
(* DInit, DNext and the like are this module's, and have a D so that       *)
(* ChannelProofs can extend it together with ChannelBroker.                *)
(***************************************************************************)
EXTENDS Naturals

CONSTANTS Notes,          \* note numbers the extraction can produce
          MaxBins         \* how many bins can have the same note

ASSUME NotesAssumption == Notes \subseteq Nat /\ MaxBins \in Nat \ {0}

Bags == [Notes -> 0 .. MaxBins]
EmptyBag == [n \in Notes |-> 0]

VARIABLES all, hillclimb, \* the options -a and -c
          phase,          \* "free": no session has the channel; "loop": between
                          \* two runs; "sending": inside run
          old_notes,      \* Desynthesizer::old_notes
          notes,          \* run's local
          on, off,        \* the messages run has yet to send, as bags
          sounding,       \* the notes the receiver plays on this channel
          leftover        \* those that sounded when the session started, and that it
                  \* has not ended since

options == <<all, hillclimb>>
dvars == <<options, phase, old_notes, notes, on, off, sounding, leftover>>

InMidiRange(n) == n < 128

\* the notes in a list, and the set of its first element: empty or one note
Listed(b) == {n \in Notes : b[n] > 0}
First(b) == {n \in Listed(b) : \A k \in Listed(b) : n <= k}

\* mutant: the counts are subtracted whichever is greater
PlainDifference(a, b) == [n \in Notes |-> a[n] - b[n]]

\* FreqDifference: std::set_difference keeps a note that is m times in the
\* one range and k times in the other max(m - k, 0) times
FreqDifference(a, b) == [n \in Notes |-> IF a[n] > b[n] THEN a[n] - b[n] ELSE 0]

\* mutant: a note is sent again and ended even if it has not changed
FirstAlways(a, b) == [n \in Notes |-> IF n \in First(a) THEN 1 ELSE 0]

\* one note at a time: notes[0] and old_notes[0], if they differ
FirstDifference(a, b) == [n \in Notes |-> IF n \in First(a) \ First(b) THEN 1 ELSE 0]

\* what is sent for the notes of list a that list b does not account for
Messages(a, b) ==
  [n \in Notes |-> IF ~InMidiRange(n) THEN 0
                   ELSE IF all THEN FreqDifference(a, b)[n]
                   ELSE FirstDifference(a, b)[n]]

\* what the extraction can return
CanExtract(b) == b \in Bags /\ (~hillclimb => \A n \in Notes : b[n] <= 1)

DInit == /\ all \in BOOLEAN /\ hillclimb \in BOOLEAN
        /\ phase = "free"
        /\ old_notes = EmptyBag /\ notes = EmptyBag
        /\ on = EmptyBag /\ off = EmptyBag
        /\ sounding = {} /\ leftover = {}

-----------------------------------------------------------------------------
\* the part of run before the first message
StartRun(old) ==
  \E b \in Bags : /\ CanExtract(b)
                  /\ notes' = b
                  /\ on' = Messages(b, old)
                  /\ off' = Messages(old, b)
                  /\ phase' = "sending"

\* the constructor; with the model it runs once before there is any audio
Construct ==
  /\ phase = "free"
  /\ old_notes' = EmptyBag
  /\ leftover' = sounding
  /\ IF hillclimb
     THEN phase' = "loop" /\ notes' = EmptyBag /\ UNCHANGED <<on, off>>
     ELSE StartRun(EmptyBag)
  /\ UNCHANGED <<options, sounding>>

Run ==
  /\ phase = "loop"
  /\ StartRun(old_notes)
  /\ UNCHANGED <<options, old_notes, sounding, leftover>>

\* channel.Send(note, true), lowest note first
SendOn ==
  /\ phase = "sending"
  /\ \E n \in First(on) : /\ on' = [on EXCEPT ![n] = @ - 1]
                          /\ sounding' = sounding \cup {n}
  /\ UNCHANGED <<options, phase, old_notes, notes, off, leftover>>

\* mutant: the notes that end need not wait for those that start
AnyOrder == TRUE
OnsSent == Listed(on) = {}

\* channel.Send(note, false), after all that start
SendOff ==
  /\ phase = "sending"
  /\ OnsSent
  /\ \E n \in First(off) : /\ off' = [off EXCEPT ![n] = @ - 1]
                           /\ sounding' = sounding \ {n}
                           /\ leftover' = leftover \ {n}
  /\ UNCHANGED <<options, phase, old_notes, notes, on>>

\* old_notes = notes
FinishRun ==
  /\ phase = "sending"
  /\ Listed(on) = {} /\ Listed(off) = {}
  /\ old_notes' = notes
  /\ phase' = "loop"
  /\ UNCHANGED <<options, notes, on, off, sounding, leftover>>

\* socket_recv returns: the channel is freed, and no note is ended
Hangup ==
  /\ phase = "loop"
  /\ phase' = "free"
  /\ UNCHANGED <<options, old_notes, notes, on, off, sounding, leftover>>

DNext == Construct \/ Run \/ SendOn \/ SendOff \/ FinishRun \/ Hangup

DSpec == DInit /\ [][DNext]_dvars

-----------------------------------------------------------------------------
\* the notes that the player is to hear for a list
Expected(b) == {n \in IF all THEN Listed(b) ELSE First(b) : InMidiRange(n)}

\* Types of the session's locals and of the receiver's state.
DTypeOK == /\ all \in BOOLEAN /\ hillclimb \in BOOLEAN
          /\ phase \in {"free", "loop", "sending"}
          /\ old_notes \in Bags /\ notes \in Bags
          /\ on \in Bags /\ off \in Bags
          /\ sounding \subseteq Notes /\ leftover \subseteq Notes

\* Between two runs the receiver plays what the last window gave.  With any
\* options nothing else sounds, except for notes that an earlier session on the
\* same channel never ended, and those only until this session has ended them
\* itself; and but for hill climbing with -a, nothing of the window is missing.
Mirror ==
  phase = "loop" =>
    /\ sounding \ Expected(old_notes) \subseteq leftover
    /\ ~(all /\ hillclimb) => Expected(old_notes) \subseteq sounding

\* Within a run a note that goes on is not interrupted, and passing from one
\* note to another leaves no silence between them: what starts is sent
\* before what ends.
NoDropout ==
  phase = "sending" /\ ~(all /\ hillclimb) =>
    /\ Expected(old_notes) \cap Expected(notes) \subseteq sounding
    /\ Expected(old_notes) # {} /\ Expected(notes) # {} => sounding # {}

\* fft2midi.cpp:45, "Play all the pitches found in the fft": between two runs
\* every note of the last window sounds, with any options.
PitchesSound == phase = "loop" => Expected(old_notes) \subseteq sounding
=============================================================================
