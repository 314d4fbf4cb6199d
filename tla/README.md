# A verification project for MIDIOrDie

MIDIOrDie turns the sound of an instrument into MIDI. A *controller* on each
player's machine takes windows of audio, transforms them and sends them over
TCP to a *server*, which finds the notes in each window and sends MIDI messages
for them, on one MIDI channel per controller, to a game or a synthesizer. The
repository also holds the game, *FoFiX* (Python): a player hits the notes of a
chart on the frets of a guitar while a song plays. This directory holds TLA+
models of both, the configurations with which TLC checks them, and proofs that
TLAPS checks.

Contents: [the system](#1-the-system), [modules and code](#2-modules-and-code),
[runs](#3-runs), [fairness](#4-fairness), [assumptions](#5-abstractions-and-assumptions),
[proofs](#6-proofs), [findings](#7-where-the-code-and-its-documents-disagree),
[what is not modelled](#8-what-is-not-modelled), [plan](#9-plan).
`PROJECT.json` is the index: components, runs, the lines of source behind every
definition, the hazards of the code and the properties that cover them, and for
every property a small bug (mutant) that makes it fail.

To repeat the checks: `tlc -config MCServer.cfg MCServer.tla` for a run, and
`tlapm ChannelProofs.tla` for a proof.

## 1. The system

### Components

| Component | Code | State | Operations |
|---|---|---|---|
| Channel broker | `fft2midi/channelbroker`, `channel` | sixteen flags and a mutex; the channel of each `MidiChannel` | `getChannel`, `freeChannel`, called by the constructor and destructor of `MidiChannel` |
| Socket server | `socket/server` | listening descriptor, `running`, the vector of Connections | `accept_clients` on a thread of its own; the destructor |
| Connection | `socket/connection` | descriptor, `running`, a thread | `run`, `send`, `recv`, the move constructor, the destructor |
| Server program | `server/main.cpp` | `quit`, the options | `socket_recv` on each connection's thread; the SIGINT handler; main's loop |
| Desynthesizer | `fft2midi/fft2midi`, `midi` | `old_notes` | the constructors, `run` |
| Note extraction | `fft2midi/tone`, `sigextr` | the window | hill climbing or a TensorFlow model gives a list of notes; `FreqDifference` |
| Shared_Array | `include/shared_array.h` | an array, a mutex, a sequence number | `read`, `read_sequence`, `write` |
| Controller program | `controller/main.cpp`, `socket/client` | `quit`, the Client | attempts to connect, `socket_send` on the connection's thread, main's loop |
| LocalController | `localcontroller/` | the latest window, a mutex | the audio callback, `GetData` |
| FFT class | `fft/` | buffers, `dataAvailable` | an earlier version of LocalController; not built by the top `CMakeLists.txt` |
| FoFiX: playing | `fofix/game/guitarscene/GuitarScene.py`, `instruments/Guitar.py`, `Instrument.py`, `Scorekeeper.py` | song time, the judged notes, what is expected to be hammered on, the score card, the rock meter | `keyPressed`, `keyReleased`, `run` |
| FoFiX: chart | `fofix/game/song/song.py` | the notes of a track, their `tappable` marks | `MidiReader.note_on`, `note_off`, `NoteTrack.markHopo` |
| FoFiX: session | `fofix/core/View.py`, `Input.py`, `game/Menu.py`, `GuitarScene.py` | layers that fade, key listeners, `pause`, `failed`, countdowns, the audio | the main loop, keys, the choices of the pause and the fail menu |
| FoFiX: the rest | `fofix/` | settings, themes, lobby, songs, results, drums, vocals, drawing | see `PROJECT.json` |
| Game | `midiordiethegame/` | song, spawner, fretboard | playback of a MIDI file, live notes (Godot) |

### How they interact

- The **accept thread** puts a Connection for each controller into a
  `std::vector`; the Connection starts a **session thread**, which runs
  `socket_recv`. The vector moves its elements when it grows; the session
  thread keeps the pointer it was given.
- A session thread takes a channel from the **broker** (or is refused with an
  exception that `Connection::run` swallows), makes a Desynthesizer, sends one
  *ready byte* and then alternates between receiving a window and sending MIDI
  messages, until its Connection is no longer `running` or `quit` is set. Then
  its channel goes back.
- The **main thread** of the server waits for `quit`; the destructors of the
  server and its Connections close, stop and join, in that order.
- A **controller** retries until it has a connection. The connection's thread
  waits for the ready byte, then sends the LocalController's latest window
  every 40 ms; the audio callback replaces that window under a mutex.

- In FoFiX one thread runs one loop: events of the queue, the view, the scene,
  and the drawing. A song is read by the `MidiReader` and marked by `markHopo`
  before it is played; `GuitarScene` believes the marks. Between two frames
  picks change the notes, the score card and the rock meter; the next frame
  gives the verdict on what was not played. Menus are layers of the view that
  fade in and out over half a second, and act on the scene by callbacks.

### What is hard about it

- *Interleaving*: sessions that race for channels; the accept thread that
  changes the vector under running sessions; `quit` and `running`, plain
  variables that are looked at between two system calls only; the audio
  callback and `GetData`.
- *Order of destruction*: threads are joined by destructors, while descriptors
  are closed by the same destructors before the join; closing a descriptor
  does not wake a thread that is blocked on it.
- *Failure*: read and write errors, end of file, EINTR (the `sigaction` flags
  are not initialized), EMFILE, a refused channel, a server that is not there.
- *Boundaries*: TCP does not keep those of a frame; a full vector; no free
  channel; no free descriptor; notes beyond the MIDI range; repeated notes.
- *Sequences*: a channel that passes from one session to the next with notes
  still sounding; in FoFiX, what five variables remember of the last hammer-on
  when picks, releases and strums follow each other in any order.
- *Stale state*: a pick is matched with notes that the last frame found; a menu's
  `onClose` comes half a second after the choice it belongs to.

### What would make each part correct

- Broker: two sessions never share a channel, no channel is lost, a refusal
  only when all are taken, the drum channel to who asks first.
- Server: accepting goes on while there is a descriptor; a session lives as
  long as its controller; its descriptor is never closed by somebody else;
  shutdown ends, and nothing is destroyed while it is used.
- Transfer: what is received is what was sent, frame by frame.
- Desynthesizer: what sounds is what the last window contained.
- Shared_Array, LocalController: a reader never sees half of a write.
- Playing: every chord gets a verdict and is counted once; only what may be
  tapped is tapped; a player who failed stays failed.
- Chart: what is marked to be hammered on can be, and runs of such notes are
  whole.
- Session: the song sounds exactly while the game runs, and there is always a
  menu or a callback that makes it go on.
- Controller: it finds the server whenever the server appears, sends only to a
  ready server, and ends when told.

`PROJECT.json` lists under `hazards` each line where this can go wrong, with the
properties that watch it, or why none does.

## 2. Modules and code

| Module | What it is | Lines of code it stands for |
|---|---|---|
| `ChannelPool` | the abstract broker: take, refuse, give back, in one step each | what `getChannel`/`freeChannel` promise |
| `ChannelBroker` | the real one: mutex, flags, the scan, one access per step | `channelbroker.cpp`, `channel.{h,cpp}` |
| `Server` | accept thread, vector, sessions, main, shutdown; *composes* `ChannelPool` | `server.cpp`, `connection.cpp`, `server/main.cpp` |
| `Transfer` | `send` at one end and `recv` at the other, byte by byte | `connection.cpp:63-90` |
| `Desynthesizer` | from lists of notes to messages to what sounds | `fft2midi.cpp`, `midi.cpp`, `tone.h:118-128` |
| `SharedArray` | mutex and sequence lock, an element per step | `shared_array.h` |
| `Controller` | main, the connection's thread, the audio callback; the server is its environment | `controller/main.cpp`, `client.cpp`, `localcontroller.cpp` |
| `Chart` | reading a track, marking its notes | `song.py:1286-1749`, `2175-2443` |
| `GuitarScene` | a guitarist plays a song: picks, frames, verdicts | `GuitarScene.py:2547-3029`, `3384-3807`, `Guitar.py:331-572`, `Instrument.py:636-666` |
| `Session` | the loop, layers, listeners, menus, ways out of a song | `View.py:138-201`, `Input.py:214-356`, `Menu.py:326-362`, `GuitarScene.py:350-501`, `3203-3252`, `4049-4135` |
| `*Proofs` | theorems about the module they are named after; `ChannelProofs` about `ChannelBroker` and `Desynthesizer` | |
| `MC*` | constants for TLC | |

**How they fit together.** `ChannelBroker` is checked and proved to implement
`ChannelPool` (`ImplementsPool`, `Refinement`), so `Server` may use the pool's
steps (`Pool == INSTANCE ChannelPool WITH Threads <- Clients`) for the broker's
calls. A `recv` or `send` of a frame is one step in `Server` and `Controller`;
`Transfer` looks inside. `Desynthesizer` models one MIDI channel with the
sessions that have it one after the other, which the broker guarantees.
`Server` and `Controller` are each other's environment: `Server` lets
controllers connect, send and leave at any time, and `Controller` lets the
server start, stop, fall silent, answer and read at any time; the silent
connection in `Controller` is what `Server` shows a refused or a moved session
to leave behind.

`Chart`, `GuitarScene` and `Session` cut FoFiX where one part takes another for
granted. `Chart` ends with a marked track; the songs of `MCGuitarScene` have
marks as `Chart` gives them. `GuitarScene` plays one song without a pause.
`Session` leaves the playing open (the song may end, and the player fail, at any
time) and models what is around it.

### ChannelBroker
`channels` and `m` are the members; `pc`, `drum`, `i` and `channel` the locals of
each thread's `getChannel` and its `MidiChannel::channel`. `GetChannel` is the
assignment before the lock, `Lock` the `lock_guard`, `DrumAvailable` /
`DrumUnavailable` the test of the drum's flag, `ScanFound` / `ScanTaken` /
`ScanEnd` the loop, `Assign` / `Refuse` the two ways out, `EndSession`, `FreeLock`
and `Clear` the destructor. No action excludes another thread except through
`MutexFree`, so it is the mutex that is being checked.

### Server
`peer`, `ready`, `inbox` belong to the controllers; `backlog`, `listening`,
`accepting` (`Server::running`) and `apc` to the accept thread; `clients`,
`capacity`, `fd`, `running` to the vector and its Connections; `open` is the
process's descriptor table; `pc` is the session thread's place in `socket_recv`;
`quit`, `mpc`, `destroyed` are main's. `dangling[c]` holds once the vector has
moved the Connection whose address session `c` has captured. `EmplaceBack` is the
whole of `emplace_back`: growth, construction, the moves, the destructors of the
moved-from objects with their `close`. `CloseListening`, `StopAccepting`,
`JoinAccept`, `DestroyConnection`, `JoinSession`, `Exit` follow the destructors
statement by statement.

### Transfer
`Write` and `Read` are one turn of the loops. Both call again with the same
buffer and count, as the code does; `remaining` is a `size_t`, here modulo `Word`.
A byte is a pair of its frame and its place in it.

### Desynthesizer
A list of notes is ascending, hence a bag: how often each note occurs.
`FreqDifference` is `std::set_difference`, which counts repetitions;
`FirstDifference` is the one-note mode. `Construct` is the Desynthesizer's
constructor (which runs once if there is a model), `Run` the part of `run` before
the first message, `SendOn` and `SendOff` one message each, `FinishRun` the
assignment to `old_notes`. `sounding` is the receiver, `leftover` what sounded
when the session began and it has not ended since.

### SharedArray
Each access to `lock_sequence` and to an element is a step. `lock_after` starts
with any value, since the code does not initialize it, and `SequenceBefore` goes
to the loop's condition when the number is odd, as `continue` in a `do-while` does.

### Controller
`leaked` counts the descriptors of failed attempts, `opened` is the descriptor
that `Client` and `Connection` share. `cpc` is the connection's thread: `recv`
and `send` before the system call, `reading` and `writing` inside it, where
main's `close` no longer matters. `fft_data`, `mtx`, `apc` are the
LocalController and its callback; windows are numbered, 0 is memory that was
never written. `conn` is what the server has made of the connection: `open`,
`silent` (nobody serves it any more), `fin`, `reset` or `broken` (a write now
raises SIGPIPE). The steps from `CloseClient` to `DestroyLocalController` are the
destructors in their order.

### Chart
`track` is `NoteTrack.allEvents`: a note enters it at `note_off`, so in the order
of ends. `markHopo` starts the marking, and then each turn of its two loops is a
step. `FirstTurn` is the body of the first, with one operator per branch
(`MarkSame`, `MarkChord`, `MarkFar`), and `last` the note it has reached.
`hopoNotes` is what the list of that name comes to: the notes with a neighbour that
is near, each once, as the code looks at the last entry before it appends the last
note, and the last note of the track once more if `ListedTwice`. `Upcoming`
is the next of them, `SecondStart` and `SecondTurn` the turns of the second loop,
`before`, `before2`, `before3` and `d`, `d1`, `d2` the notes and distances it keeps,
and `SecondEndOfList` its `else`. `d` is handed on from the first loop to the second,
as `tickDelta` is. The Python function was run on the tracks of the 46 320 finished
states of a small instance, and left the same marks on each.

### GuitarScene
`game` is the state that handlers read and write (`Game` names the fields as the
code does), so that each handler is an operator from one `game` to the next.
`Press`, `Release` and `Strum` are `keyPressed` and `keyReleased`, `Frame(d)` is
`run` after `d` units of time. Notes that start together are one chord, since the
code matches, plays, skips and misses them together. `seen` and `stale` are
history: what frames have reported, and whether a pick met a chord already judged.

### Session
One turn of the loop is `InputDone`, `ViewRun`, `SceneRun`, `Render`; keys are
pressed in the first of these. A world `w` is a view and a game, and the calls of
the code (`pushLayer`, `popLayer`, `hidden`, `failGame`, ...) are operators on it,
so that a handler is the composition of the calls that it makes, in their order.
`visibility` counts turns. `ViewRun` is `View.run`: layers fade, and a layer that
has gone is taken from the list and then hidden (`leave`), which for the pause menu
calls `resumeGame`. `RemoveFirst` is `list.remove`: it leaves a second occurrence
where it is; that there never is one is part of `TypeOK`.

## 3. Runs

| Run | Instance | Distinct states | What it shows |
|---|---|---|---|
| `channel_broker` | 4 sessions, 3 channels, drum = channel 1 | 193 204 | exclusive channels, no channel lost, same behaviour as the atomic pool, every call returns |
| `server` | 3 controllers, 2 descriptors, 1 channel, 1 buffered frame | 185 686 | descriptors survive growth; accepting ends only for lack of descriptors; orderly shutdown, which ends; sessions end for a cause; ready byte and frames |
| `server_served` | 3 controllers, 3 descriptors, 2 channels | | *violation*: a session ends under its connected controller |
| `desynthesizer` | notes 69, 72, 75; up to 2 bins per note | 36 512 | the receiver mirrors the last window; no drop-outs within a run |
| `shared_array` | 2 readers, 2 elements, 2 writes | 575 660 | no torn read, with the mutex or with compared sequence numbers |
| `shared_array_retries` | the same | | *violation*: `read_sequence` returns during a write |
| `transfer` | frames of 3 bytes, 9 bytes, counters modulo 16 | 23 293 | alignment after a returned `recv`, order of frames, end of file |
| `controller` | windows of 2 elements, 3 numbers, 2 turns, 2 descriptors, 2 buffered frames | 318 664 | whole windows, only to a ready server, safe destruction, and an end when told |
| `guitar_scene` | five songs of 2 or 3 chords on 2 frets, margin 3, frames of 1 or 2 units, 2 inputs between frames | 1 766 450 | every chord gets a verdict, hits count once, taps follow hammer-ons, failing is final |
| `chart` | tracks of up to 5 notes on 3 frets within 6 ticks, events 1 or 3 ticks apart, `hopoDelta` 3 | 4 790 608 | marks that can be played, runs that are whole |
| `session` | fades of 1 to 3 turns, countdowns of 2 and 5, fail message of 3 turns | 54 052 | the song sounds while the game runs, menus hear keys, nothing stands still for ever |
| `session_menus` | the same | | *violation*: the pause menu and the fail menu together |

### The properties, by run

- `channel_broker`: `NoSharedChannel`, `Accounted` (a flag is set exactly while a
  live `MidiChannel` has the channel), `ImplementsPool`, `CallsReturn`.
- `server`: `DescriptorsKept` (until its own destructor runs, an element's
  descriptor is open and its own), `AcceptsUntilFull`, `CleanShutdown` (nobody
  adds to a vector that is being destroyed, no Connection goes under a running
  session, nothing is left over), `SessionEndsForCause`, `QuitExits`,
  `ClientAnswered`, `FramesRead`. The last four except `QuitExits` speak of
  sessions that were not moved, since for a moved one they are false
  (`ServedWhileConnected`); `QuitExits` holds for all.
- `desynthesizer`: `Mirror` (with any options nothing sounds that the last window
  did not give, but for notes that an earlier session on the channel never ended,
  and those only until this one has ended them; and all of the window sounds) and
  `NoDropout`. That the whole window sounds, and `NoDropout`, leave out hill climbing
  with `-a`, where `PitchesSound` goes wrong (section 7). That left-over notes
  end at some time is no property: they do not, unless a later session plays them.
- `shared_array`: `ReadWhole`, `SequenceWhole`; they also say that a read is not
  older than the last write that was over when it was called.
- `transfer`: `Aligned` (even if the counter of an interrupted `recv` wraps, it
  returns only where a frame begins), `InOrder` (whatever was cut before, a `recv`
  that needs one read has the frame that is due), `StopsAtEof`.
- `controller`: `FrameWhole`, `LocalControllerOutlivesUse`, `SendsOnlyWhenReady`,
  `StopsWhenTold`, which leaves out a connection on which nothing more is heard:
  that is what a refused controller has, and it cannot end before the server does.
- `guitar_scene`: `NothingSlipsBy`, except around a big rock ending, where the code
  means to let chords go; `HitsCounted`: every chord that was hit counts, the total
  is the number of chords or follows the hits past it, so that the accuracy never
  passes 100 % (the code's own comment "passed 100%" at `GuitarScene.py:3455`), and
  none counts twice as long as no pick was matched with a chord that another pick
  since the last frame had judged (`stale`); `TapFollowsHopo`, also until then. After
  such a pick these two are false, and a player can be shown more hits than there
  are chords. `FailedIsFinal`.
- `chart`: `HopoHasStart` and `RunGoesOn` (but for the last note, which the code
  lists twice), for tracks whose notes are in order of
  time. A track with a note inside a longer one is not (`InOrder`), and `markHopo`
  then measures negative distances.
- `session`: `SoundFollowsGame`, `MenusHearKeys` and the liveness property
  `NeverStuck`.

### Why the bounds are enough

- *Broker*: three channels make one below, one above and one equal to the drum
  channel; four sessions make one more than channels, so that refusals,
  fall-backs and reuse after a release all occur. The proofs cover all sizes.
- *Server*: three controllers grow the vector from 0 to 1 and from 1 to 2, with
  two moved at the second growth if there are descriptors for three
  (`server_served`), and exhaust two descriptors and one channel (`server`).
  One buffered frame suffices for a full and an empty buffer. Descriptors are
  never given back before shutdown, so a third one repeats the second.
- *Desynthesizer*: three notes give a lowest, a middle and a highest, two bins
  per note a repetition that shrinks; sessions are unbounded. In the code up to
  five bins round to one note; the proofs hold for any number.
- *SharedArray*: two elements can be torn; two writes make a reader overlap one
  or both, and a sequence number change from odd to odd.
- *Transfer*: three bytes cut a frame in every unequal way; nine are three frames.
  `Word` exceeds the bytes sent, as 2^64 does.
- *Controller*: two turns, one too few and the last; two failed attempts exhaust
  the descriptors; two buffered frames fill and drain. Callbacks and windows are
  unbounded: windows are numbered modulo `Windows`.
- *GuitarScene*: the margin is three units and a frame at most two, so that a
  chord is in the window of several frames or of few, and can fall between
  windows that are too short; the songs have a run with a start, a middle and an
  end, a run and a note that must be strummed after it, a run that does not go on
  because the song is over, a sustained chord before a run, and an ending with two
  chords after it. Two inputs between frames are the smallest number at which a
  pick meets a chord already judged.
- *Chart*: the first loop looks back three notes and the second two, and each may
  change what it looks back at, so five notes show a turn that follows a change to a
  note changed before. Distances are 0 (a chord) to 6: the least, the limit of
  `hopoDelta` and more. Three frets make chords of three; chords of four and longer
  tracks are left to the proofs, which have no bound.
- *Session*: a fade takes 1, 2 or 3 turns, so the fail message (3 turns) comes
  before, with and after its end; the countdown on resuming (5) is longer than a
  fade, as 3 s are longer than 512 ms.

`CHECK_DEADLOCK` is on except for `guitar_scene` and `chart`, where a song is over
and a track is read once; the other specifications of things that end say so with
an explicit stuttering disjunct.

## 4. Fairness

- `ChannelBroker`: each thread runs a call it has made to its end (`WF` of
  `Running(t)`). Weak fairness is enough for the mutex because each thread runs
  once: it takes it at most twice. Nothing forces a thread to ask or a session
  to end.
- `Server`: the accept thread, main and the session threads run on; a controller
  that got its ready byte goes on sending, as `controller/main.cpp:30-44` does
  every 40 ms. Nothing makes a controller connect or leave, or a user interrupt.
  `QuitExits` needs that sending: a session blocked in `read` is woken by its
  controller's next frame or by its end, never by the server's `close`.
- `Transfer`: the receiver runs on; nothing forces the sender.
- `Controller`: main, the connection's thread and the callback run on; a session
  that goes on answers and reads. `LockData` has strong fairness: the callback
  comes every 40 ms and has the mutex for a fraction of that, so a waiting
  `GetData` gets it. Nothing makes the server start, stop or fall silent.
- `Session`: the loop goes on (`InputDone`, `ViewRun`, `SceneRun`, `Render`), since
  `Input.run` handles a finite queue of events and no task waits. Nothing makes
  the player press a key.

## 5. Abstractions and assumptions

- *A moved Connection* (`dangling`). The session's reads of `running` through the
  stale pointer may give either value at every look. `cfd` is -1, as the move
  constructor left it, or what the allocator put there since, and is taken not to
  be the number of an open descriptor. `isrunning` and `recv` are compiled
  in different translation units from the loop, so the reads are not hoisted.
- `emplace_back` is one step of the accept thread. The moves it makes race with
  sessions that use their objects; the steps before and after it already give
  the stale pointer all the values it can have.
- `accept` fails with EMFILE whenever no descriptor is free, whether a client
  waits or not (Linux allocates the descriptor first). Its network errors, and
  failure to create a thread, are left out.
- A read that has been entered keeps the open file: closing the descriptor from
  another thread neither wakes it nor makes it fail.
- SIGPIPE: the server writes one byte per connection, the first on it, which the
  system accepts even if the controller has just left, so SIGPIPE can end the
  controller only. There it does (`Sigpipe`), and `StopsWhenTold` counts it as an
  end; the destructors do not run then.
- After a `recv` that fails, `socket_recv` runs the desynthesizer once more on the
  window as it is. `Desynthesizer` leaves open what each run extracts, which
  includes this run and the uninitialized window of a new `Tone`.
- Hill climbing's list is taken to be ascending, as the loop over rising bins
  makes it; the model's is sorted by construction.
- Threads interleave access by access (sequential consistency). `SharedArray`,
  `running` and `quit` are plain variables, and a compiler may do worse.
- A write that a signal cuts short (`shortWrite` in `Transfer`) is modelled, and
  excluded by `Aligned` and `InOrder`: after it the stream never gets back into
  step. It needs a signal in the middle of a `write` of 320 bytes. `Server` and
  `Controller` move whole frames.
- Nothing in `Controller` opens a descriptor between the two closes of the same
  number by `~Client` and `~Connection`; the sound library's threads might.

- FoFiX runs its loop in one thread; songs are loaded with `synch=True`. Frames
  of `GuitarScene` are at most `Step` apart, with `Step + Bucket <= Margin`: after
  a longer pause of the machine a chord can go by unreported. The rock meter is
  full or empty, and a frame with a miss may empty it.
- The songs of `GuitarScene` are marked as `markHopo` leaves them (`Marked`): what is
  to be tapped has the run before it, and a run goes on, unless it is at the last
  chord but one. This is what `HopoHasStart` and `RunGoesOn` say of `Chart`, with the
  exception that `RunGoesOn` makes, and for chords of at most three notes: of a
  larger one `markHopo` marks three (finding 8). Without it a lone start would be expected to be
  followed by a hammer-on for ever, and `TapFollowsHopo` be false.
- `Session` takes the neck's intro animation as switched off, and ends with the
  scene: keys that are pressed while the old scene fades away are left out.
- `Chart` has one tempo, and no note is empty: a note that ends in the tick in which
  it starts is not written by the tools that make charts.

## 6. Proofs

Every safety property that a run checks is also a theorem, for all values of the
constants. Each proof has the same shape: an inductive
invariant `IInv` that implies the properties, `InitEstablishes` (`Init => IInv`),
a lemma for each action that it is preserved, `NextKeeps`, the theorem `Invariance`
(`Spec => []IInv`), and a theorem per property. Each `IInv` was first checked by
TLC as an invariant of the module's run. `TypeCorrect` is `TypeOK` in each module.

| Module | Assumes | `IInv` has, besides the properties | Theorems, besides `TypeCorrect` |
|---|---|---|---|
| `ChannelProofs` (broker) | `BrokerAssumption` | `MutexHeld`, `OwnedIsChannel`, `Selection` | `ChannelsExclusive`, `FlagsAccounted`, `Refinement` |
| `ChannelProofs` (desynthesizer) | `NotesAssumption` | `NotesInv`: `Extracted`, `Pending` | `ReceiverMirrors`, `NoNoteDropsOut`, `NotesTypeCorrect` |
| `ServerProofs` | `ServerAssumption` | `Backlogged`, `Threaded`, `OpenOwned`, `MainInOrder`, `Joined`, `ChannelsHeld`, `ClearedForCause`; apart: `ChannelInv` | `NothingClosed`, `AcceptsOn`, `ShutsDownCleanly`, `EndsForCause`, `ChannelForEach`, `RefusedHearsNothing` |
| `SharedArrayProofs` | `SharedArrayAssumption` | `MutexOwned`, `Counted`, `BufferInStep`, `ReaderInStep` | `ReadsWhole`, `SequencesWhole` |
| `TransferProofs` | `TransferAssumption` | `Counted`, `Counters`, `Consecutive`, `HeadPlace`, `OneRead` | `StaysAligned`, `FramesInOrder` |
| `ControllerProofs` | `ControllerAssumption` | `MutexHeld`, `DataWhole`, `CopyWhole`, `FailureSeen`, `MainInStep` | `FramesWhole`, `ReadyFirst`, `NoUseAfterDestruction` |
| `GuitarSceneProofs` | `GuitarSceneAssumption` | `Offered`, `Passed`, `InEnding`, `NoHitWhenEmpty`, `Totals`, `HitsGoForward`, `ExpectedFollows` | `NothingIsLost`, `EachHitCounts`, `TapsFollow`, `FailureIsFinal` |
| `ChartProofs` | `ChartAssumption` | `ReaderInv`, `FirstInv`, `SecondInv`, `DoneInv` | `HammeredAfterStart`, `StartGoesOn` |
| `SessionProofs` | `SessionAssumption` | `Shaped`, `Hears`, `Sound` | `SoundFollows`, `MenusListen` |

### The arguments

**ChannelProofs, the broker.** At least one channel, the drum's is one of them, the free
mutex is no thread. `NoSharedChannel` is not inductive: that the flag about to be
set is still unset depends on who has the mutex, and that nobody owns the channel
of an unset flag on `Accounted`. `Selection` says what a thread has seen of the
flags since it took the mutex: that is also what makes its choice the *lowest*
free channel. By `Refinement` setting the flag is the pool's acquisition, clearing
it the pool's release, and every other step a stutter.

**ServerProofs.** `DescriptorsKept` speaks of the elements of the vector. That no
other close hits their descriptors needs that a controller waits in the backlog or
has one Connection, never both (`Backlogged`, `Threaded`), and that every open
descriptor belongs to an element not destroyed yet (`OpenOwned`). `CleanShutdown`
is an order: what main has done before each of its steps (`MainInOrder`), and that
the sessions of destroyed elements have ended (`Joined`), so that they hold no
channel (`ChannelsHeld`). `SessionEndsForCause` is an action property; its
invariant is that `running` is cleared, in a Connection that was never moved, only
for a cause. `ChannelForEach` and `RefusedHearsNothing` are about more than one
thread's calls of the pool: a second invariant (`ChannelInv`, on top of `IInv`) keeps
the place of each thread in step with what it holds of the pool and what its controller
was told, and no channel held twice. Then the channels of those being served are an
injection into the channels, so no more are served than there are; and a controller
that was refused has no ready byte, a thread that has ended, and, as `DescriptorsKept`
says, an open connection until SIGINT. Neither is a property of a run; as
invariants of `MCServer.cfg` both hold (`ChannelEach`, `RefusedLeftOpen`).

**ChannelProofs, the desynthesizer.** Notes are numbers. `Mirror` speaks of the time between two
runs; `Pending` says that within a run all that is not yet right about the receiver
is among the messages still to be sent. It rests on the lemma `MessagesListed` about
`FreqDifference` and `FirstDifference`: the messages for list *a* against list *b*
are for notes to be heard for *a*, and for each that is not to be heard for *b*. That
they are for no other takes lists without repetition, which is why the half of `Mirror`
that nothing is missing leaves out hill climbing with `-a`; that nothing else sounds
needs only the first two.

**SharedArrayProofs.** The core is `SequenceInStep`: a copy that `read_sequence` is
making comes from one write, unless `lock_sequence` has moved since `lock_before`
was read. It follows because `lock_sequence` is odd exactly while the writer is
inside the buffer, and only grows. A call that went on after it had seen an odd
number, or an uninitialized `lock_after` (`skipped`), is outside; see finding 2.

**TransferProofs.** The bytes consumed and `remaining` add up to `Count` modulo
`Word` (`Counters`), so a `recv` ends exactly when it has read a frame's bytes, in
however many pieces; `Consecutive` says which byte of the stream is how far from
which other, so that what is left at the head after a read is known without
knowing how much was read, and `HeadPlace` that it is the byte this `recv` is due:
of frame `received + 1`, and as far into it as was consumed. Only then does `OneRead`
need to speak of the `recv` at hand alone. `MinusWraps` and `LeftAfter` are the lemmas about the
`size_t`. `Word` exceeds the bytes that are sent, which is the one bound a theorem
keeps: after 2^64 bytes the interrupted counter could be right by accident.

**ControllerProofs.** Sizes are positive. `MutexHeld`, `DataWhole` and `CopyWhole` say
who holds the mutex, what the callback has left of the current window and how far
the copy has got, `FailureSeen` that `running` is never true after a failure, and
`MainInStep` where main can be.

**GuitarSceneProofs.** The songs are any that are marked, the margins any with
`Step + Bucket <= Margin`. All that a pick can do is said by two relations,
`Misses` and `Hits`; a lemma per handler shows that it is one of the two, and one
lemma each shows what they preserve. `NothingSlipsBy` needs that the notes the last
frame found are all that were unjudged and in the window (`Offered`), and that what
has left the window was reported by a frame (`Passed`): here the code's bucket and
the length of a frame enter. `HitsCounted` has a part for every pick, also one that
meets judged chords: it hits at most one chord more, and then it counts (`Counted`,
`TotalsKept`). That none counts twice needs that hits go forward: before a
chord that was hit all are judged or too late (`HitsGoForward`), so a pick that is
matched with unjudged chords never counts one twice. `TapFollowsHopo` needs that a
hammer-on is expected only after the last chord hit, and only if that one is marked
to be followed (`ExpectedFollows`). `HitsGoForward` and `ExpectedFollows` hold while no
pick met a chord already judged (`~stale`), as do the parts of the properties that
rest on them.

**ChartProofs.** Tracks may have any length and chords any number of notes; `hopoDelta`
is greater than the fudge of 1 tick, the frets are 0 to 4. The two properties speak of
the finished track, and say nothing of the marks in between, which are
codes for what the first loop has seen and the second has not yet used. So the
invariant says them one by one. A note that is near follows the one before in one of
three ways: in a chord with it (`Joined`), on the same fret (`Same`), or so that it can
be hammered (`Open`); that no note is two of these (`Links`) needs that notes on one
fret do not overlap (`ReaderInv`, from `heldNotes`). `Fact(m, p, j)` says, in these
terms, which marks note *j* can have when the first loop has seen the notes to *p*:
-2 only by a note on the same fret, 3 only where a run must end, -4 only in a chord,
0 or -5 on a repeated note only before a chord. `FirstEffect` is what one turn writes,
`FirstTurnKeeps` that the facts go on to hold, also of the notes two back that a turn
changes. In the second loop the facts still hold of the notes to come. Of the last
note `LastMark` says what the next turn can find there, `Registers` which notes are
remembered: `before2` and `before3` are always the same note, but as long as two
distances were 0 they are the third note of the chord (`RememberedChord`), so that
`ChordBefore` is the last three notes of a chord or the whole of it. Of the notes that
are over, `Follows` is `HopoHasStart` and `GoesOn` is `RunGoesOn` with "the note it
saw last" for the last note of the song. `TurnEffect` goes through the marks the two
notes of a turn can have, and `TurnKeeps` shows that no turn undoes a note that is
over: only a chord is marked again, and what followed its first notes is in it. That the
list ends after the last note with a neighbour (`AllVisited`) needs a least element,
which well-foundedness gives without induction over the track. All this holds of
tracks in order of time; of the others `TypeCorrect` says that the marks stay within
-5 to 3.

**SessionProofs.** Fades and countdowns may have any length, as long as the countdown
on resuming is longer than a fade. A handler composes calls on a world (a view and a
game), and its proof composes their lemmas: `PushGood`, `PopGood`, `HiddenGood`,
`LeaveGood`, `ChangeGood`, `FailGood`, ... each make a good world of a good one.
The lemmas rest on what `list.append` and `list.remove` do to a list without
repetitions (`AddProperties`, `RemoveProperties`). `MenusHearKeys` needs that a layer
is fading before its listener is taken away (`PopGood`, `UnlistenHears`), and, in
`pushLayer`, that it is added after the `hidden()` of the old fade took it away.
`SoundFollowsGame` needs, besides itself, that the fail message is counted only after
failing: then whoever sees it has a silent song, and taking the pause away
(`failGame`) cannot let it sound.

### What stays with TLC

- Liveness, which these provers cannot treat: `CallsReturn`, `QuitExits`,
  `ClientAnswered`, `FramesRead`, `StopsAtEof`, `StopsWhenTold`, `NeverStuck`.
- The disagreements of section 7, which are counterexamples.

## 7. Where the code and its documents disagree

With a run that shows it:

1. **A moved Connection loses its controller** (`server.cpp:68`,
   `connection.cpp:18`). The vector's growth leaves session threads with stale
   pointers: when the second, third or fifth controller connects, the sessions of
   all before it can end, with the connection left open and silent. The README
   promises a dedicated thread per connection. Run `server_served`.
2. **`read_sequence` returns during a write** (`shared_array.h:57`): `continue`
   compares with the sequence number of an earlier turn, or with one never
   assigned. The shortest trace uses the latter; with `lock_after` initialized
   the former remains. No built program calls `read_sequence`. Run
   `shared_array_retries`.
3. **The pause menu over a running game, and over the fail menu**
   (`GuitarScene.py:3760`). A menu that was cancelled fades for half a second and
   no longer hears keys. Start, pressed in that time, pauses the game and pushes
   the menu again; pushing calls the fading menu's `onClose`, which resumes the
   game. The menu is now up over a game that runs: the song may start under it,
   and RESUME starts a countdown of three seconds during which picks are ignored
   while the song plays. If the player fails, `failGame` sees no pause and leaves
   the menu where it is, against its own comment (`GuitarScene.py:415`).
   `lostFocus` makes the two calls in the right order. Run `session_menus`.

Stated as a property of its module, without a run of its own; add the property
as an INVARIANT to the module's configuration to see the counterexample:

4. **A note that is still there is switched off** (`tone.h:125`). With hill
   climbing and `-a`, a note found for two bins and then for one is in the
   difference of the lists, though `fft2midi.cpp:45` says that all the pitches
   found are played. `PitchesSound`, `MCDesynthesizer.cfg`.
5. **A frame in two pieces is put over itself** (`connection.cpp:80`): every read
   is given the same buffer and count. `FrameReceived`, `MCTransfer.cfg`.
6. **The controller gives up** (`client.cpp:17`): each failed attempt to connect
   leaks its descriptor, and without any left the program ends, although it is
   to "keep looping" (`controller/main.cpp:85`). `KeepsLooping`, `MCController.cfg`.
7. **The big rock ending is awarded too easily** (`GuitarScene.py:2951`): the
   comments at 2590 and 2601 say that all notes after it must be hit, but a chord
   that is skipped by strumming the next one early, or missed with a streak of 0,
   does not break it. `EndingEarned`, `MCGuitarScene.cfg`.
8. **A chord of four is marked in part** (`song.py:1729`): the second loop copies the
   second last note into the fourth last, so that it remembers three notes of a chord,
   although the comment at 1588 says that the 4th, 3rd, 2nd and 1st are to be changed.
   A hammer-on after a chord of four leaves the first of them at -4.
   `WholeChordStarts`, `MCChart.cfg` with four frets.

Met while reading, and part of the models as it is: the last note of a track is
put into `hopoNotes` twice (`song.py:1477`), so that it is marked -4, part of a
chord, when it is alone and close to the note before. Not in the models:
`TempoTrack.getCurrentTempo` never leaves its first tempo, and `removeTempoEvents` removes from a list it iterates over.

## 8. What is not modelled

- What the notes are: Fourier transforms, the TensorFlow model, audio, RtMidi.
- `ChangeInstrument`, `GetRefreshRate`, the two-argument `GetData`, `Tone`'s other
  operations: no program calls them.
- Failures of constructors before anything is shared (bind, listen, a bad
  address, the MIDI port, the sound device): they end the program.
- The FFT class (`fft.cpp:123` clears `dataAvailable` without a lock; it is not
  built), hill climbing, the Godot game.
- The demo game, test programs, training scripts and unused headers: see the
  notes in `PROJECT.json`. mid2asc is other people's program.
- FoFiX: points, multipliers, star power, solos, drums, vocals, several players
  (co-op, battle), practice, cheats; `twoChordMax` (`Guitar.py:377-398`), an option of
  a player or a controller, off by default, with which two held frets match a chord of
  three or more, so that `Chosen` asks for all its frets; the amounts of the rock meter; changes of
  tempo and marker notes in a chart; settings menus; all drawing; the screens
  before and after a song. Most of its 42 000 lines are these, and they draw,
  select and configure more than they keep state. Keys after a song was left are
  not in `Session`: `SongChoosingScene.keyPressed` returns nothing, so a key goes
  on to the old menu until it has faded, and a choice can be made twice.

## 9. Plan

1. An abstract pipe of frames that `Transfer` implements while no write or read is
   cut short, and an abstract array with atomic reads and writes that `SharedArray`'s
   `read` implements: `InOrder` and `ReadWhole` are what is left of these today.
2. If runs can be spared: `HillClimb` (the integer that keeps the largest value,
   `tone.cpp:118`), `MidiPlayback` and `Fretboard` of the Godot game
   (`init.cpp:71`, `Fretboard.gd:18`), and a `Controller` and a `Server` composed for
   one connection; each is now the other's environment, loosely.
