---------------------------- MODULE ChannelProofs ---------------------------
(***************************************************************************)
(* Proofs about the MIDI channels of the server: that the broker gives a   *)
(* channel to one session at a time, for any set of session threads, any   *)
(* number of channels and any drum channel; and that the session which has *)
(* a channel mirrors what it hears there, for any notes and any number of  *)
(* bins to a note.                                                         *)
(*                                                                         *)
(* NoSharedChannel is not inductive: that the channel about to be assigned *)
(* is still free follows from the mutex, and that no other thread believes *)
(* to own it from the flags being accounted for.  Selection adds what a    *)
(* thread has seen of the flags since it took the mutex, which is what     *)
(* makes its choice the one the atomic pool would make.  Mirror speaks of  *)
(* the time between two runs of the desynthesizer; Pending adds what is    *)
(* true within one.                                                        *)
(***************************************************************************)
EXTENDS ChannelBroker, Desynthesizer, TLAPS

USE DEF MutexFree, Unassigned, Scans, NextIndex, Freed

Critical == {"tryDrum", "scan", "assign", "clear"}

\* The mutex is held by exactly the thread that is in the critical section.
MutexHeld == \A t \in Threads : m = t <=> pc[t] \in Critical

\* The channel of a live MidiChannel is a channel.
OwnedIsChannel == \A t \in Threads : Owns(t) => channel[t] \in Channels

\* What a thread in getChannel knows about its request and about the flags.
Selecting(t) ==
  /\ pc[t] \in {"start", "lock", "tryDrum"} => drum[t] = asked[t] /\ i[t] = 0
  /\ pc[t] \in {"lock", "tryDrum", "scan"} => channel[t] = ChannelCount
  /\ pc[t] = "tryDrum" => drum[t]
  /\ pc[t] = "scan" => /\ ~drum[t]
                       /\ asked[t] => channels[DrumChannel]
                       /\ \A c \in Channels : c < i[t] => channels[c]
  /\ pc[t] = "assign" =>
       /\ channel[t] = ChannelCount => \A c \in Channels : channels[c]
       /\ channel[t] # ChannelCount =>
            /\ ~channels[channel[t]]
            /\ \/ asked[t] /\ channel[t] = DrumChannel
               \/ /\ asked[t] => channels[DrumChannel]
                  /\ \A c \in Channels : c < channel[t] => channels[c]

Selection == \A t \in Threads : Selecting(t)

IInv == /\ TypeOK
        /\ MutexHeld
        /\ OwnedIsChannel
        /\ Selection
        /\ Accounted
        /\ NoSharedChannel

-----------------------------------------------------------------------------
\* A step that leaves the flags, the owners and their channels alone keeps
\* everything that is said about owners.
LEMMA OwnersKept ==
  ASSUME IInv, UNCHANGED channels,
         \A t \in Threads : /\ Owns(t)' = Owns(t)
                            /\ Owns(t) => channel'[t] = channel[t]
  PROVE  (OwnedIsChannel /\ Accounted /\ NoSharedChannel)'
BY DEF IInv, OwnedIsChannel, Accounted, NoSharedChannel, Channels, Owns

\* Writing the unassigned channel touches no flag and no owner.
LEMMA GetChannelKeeps ==
  ASSUME IInv, NEW t \in Threads, GetChannel(t)
  PROVE  IInv'
<1>1. TypeOK'
  BY BrokerAssumption DEF IInv, GetChannel, TypeOK, PCs, Channels
<1>2. (OwnedIsChannel /\ Accounted /\ NoSharedChannel)'
  BY OwnersKept DEF IInv, GetChannel, TypeOK, Owns
<1>3. MutexHeld'
  BY BrokerAssumption DEF IInv, GetChannel, TypeOK, MutexHeld, Critical
<1>4. Selection'
  BY BrokerAssumption DEF IInv, GetChannel, TypeOK, Channels, Selection, Selecting
<1>5. QED
  BY <1>1, <1>2, <1>3, <1>4 DEF IInv

\* Taking the mutex: nobody else was in the critical section.
LEMMA LockKeeps ==
  ASSUME IInv, NEW t \in Threads, Lock(t)
  PROVE  IInv'
<1>1. TypeOK'
  BY BrokerAssumption DEF IInv, Lock, TypeOK, PCs, Channels
<1>2. (OwnedIsChannel /\ Accounted /\ NoSharedChannel)'
  BY OwnersKept DEF IInv, Lock, TypeOK, Owns
<1>3. MutexHeld'
  BY BrokerAssumption DEF IInv, Lock, TypeOK, MutexHeld, Critical
<1>4. Selection'
  BY BrokerAssumption DEF IInv, Lock, TypeOK, Channels, Selection, Selecting
<1>5. QED
  BY <1>1, <1>2, <1>3, <1>4 DEF IInv

\* The drum flag was seen unset under the mutex, so the choice is free.
LEMMA DrumAvailableKeeps ==
  ASSUME IInv, NEW t \in Threads, DrumAvailable(t)
  PROVE  IInv'
<1>1. TypeOK'
  BY BrokerAssumption DEF IInv, DrumAvailable, TypeOK, PCs, Channels
<1>2. (OwnedIsChannel /\ Accounted /\ NoSharedChannel)'
  BY OwnersKept DEF IInv, DrumAvailable, TypeOK, Owns
<1>3. MutexHeld'
  BY BrokerAssumption DEF IInv, DrumAvailable, TypeOK, MutexHeld, Critical
<1>4. Selection'
  BY BrokerAssumption DEF IInv, DrumAvailable, TypeOK, Channels, Selection, Selecting
<1>5. QED
  BY <1>1, <1>2, <1>3, <1>4 DEF IInv

\* Falling back from the drum: its flag was seen set.
LEMMA DrumUnavailableKeeps ==
  ASSUME IInv, NEW t \in Threads, DrumUnavailable(t)
  PROVE  IInv'
<1>1. TypeOK'
  BY BrokerAssumption DEF IInv, DrumUnavailable, TypeOK, PCs, Channels
<1>2. (OwnedIsChannel /\ Accounted /\ NoSharedChannel)'
  BY OwnersKept DEF IInv, DrumUnavailable, TypeOK, Owns
<1>3. MutexHeld'
  BY BrokerAssumption DEF IInv, DrumUnavailable, TypeOK, MutexHeld, Critical
<1>4. Selection'
  BY BrokerAssumption DEF IInv, DrumUnavailable, TypeOK, Channels, Selection, Selecting
<1>5. QED
  BY <1>1, <1>2, <1>3, <1>4 DEF IInv

\* The scan stops at the lowest unset flag.
LEMMA ScanFoundKeeps ==
  ASSUME IInv, NEW t \in Threads, ScanFound(t)
  PROVE  IInv'
<1>1. TypeOK'
  BY BrokerAssumption DEF IInv, ScanFound, TypeOK, PCs, Channels
<1>2. (OwnedIsChannel /\ Accounted /\ NoSharedChannel)'
  BY OwnersKept DEF IInv, ScanFound, TypeOK, Owns
<1>3. MutexHeld'
  BY BrokerAssumption DEF IInv, ScanFound, TypeOK, MutexHeld, Critical
<1>4. Selection'
  BY BrokerAssumption DEF IInv, ScanFound, TypeOK, Channels, Selection, Selecting
<1>5. QED
  BY <1>1, <1>2, <1>3, <1>4 DEF IInv

\* Going on past a set flag: all flags up to it are set.
LEMMA ScanTakenKeeps ==
  ASSUME IInv, NEW t \in Threads, ScanTaken(t)
  PROVE  IInv'
<1>1. TypeOK'
  BY BrokerAssumption DEF IInv, ScanTaken, TypeOK, PCs, Channels
<1>2. (OwnedIsChannel /\ Accounted /\ NoSharedChannel)'
  BY OwnersKept DEF IInv, ScanTaken, TypeOK, Owns
<1>3. MutexHeld'
  BY BrokerAssumption DEF IInv, ScanTaken, TypeOK, MutexHeld, Critical
<1>4. Selection'
  BY BrokerAssumption DEF IInv, ScanTaken, TypeOK, Channels, Selection, Selecting
<1>5. QED
  BY <1>1, <1>2, <1>3, <1>4 DEF IInv

\* The scan ends without a channel only if every flag is set.
LEMMA ScanEndKeeps ==
  ASSUME IInv, NEW t \in Threads, ScanEnd(t)
  PROVE  IInv'
<1>1. TypeOK'
  BY BrokerAssumption DEF IInv, ScanEnd, TypeOK, PCs, Channels
<1>2. (OwnedIsChannel /\ Accounted /\ NoSharedChannel)'
  BY OwnersKept DEF IInv, ScanEnd, TypeOK, Owns
<1>3. MutexHeld'
  BY BrokerAssumption DEF IInv, ScanEnd, TypeOK, MutexHeld, Critical
<1>4. Selection'
  BY BrokerAssumption DEF IInv, ScanEnd, TypeOK, Channels, Selection, Selecting
<1>5. QED
  BY <1>1, <1>2, <1>3, <1>4 DEF IInv

\* A refusal gives the mutex back and owns nothing.
LEMMA RefuseKeeps ==
  ASSUME IInv, NEW t \in Threads, Refuse(t)
  PROVE  IInv'
<1>1. TypeOK'
  BY BrokerAssumption DEF IInv, Refuse, TypeOK, PCs, Channels
<1>2. (OwnedIsChannel /\ Accounted /\ NoSharedChannel)'
  BY OwnersKept DEF IInv, Refuse, TypeOK, Owns
<1>3. MutexHeld'
  BY BrokerAssumption DEF IInv, Refuse, TypeOK, MutexHeld, Critical
<1>4. Selection'
  BY BrokerAssumption DEF IInv, Refuse, TypeOK, Channels, Selection, Selecting
<1>5. QED
  BY <1>1, <1>2, <1>3, <1>4 DEF IInv

\* The end of a session does not yet give its channel back.
LEMMA EndSessionKeeps ==
  ASSUME IInv, NEW t \in Threads, EndSession(t)
  PROVE  IInv'
<1>1. TypeOK'
  BY BrokerAssumption DEF IInv, EndSession, TypeOK, PCs, Channels
<1>2. (OwnedIsChannel /\ Accounted /\ NoSharedChannel)'
  BY OwnersKept DEF IInv, EndSession, TypeOK, Owns
<1>3. MutexHeld'
  BY BrokerAssumption DEF IInv, EndSession, TypeOK, MutexHeld, Critical
<1>4. Selection'
  BY BrokerAssumption DEF IInv, EndSession, TypeOK, Channels, Selection, Selecting
<1>5. QED
  BY <1>1, <1>2, <1>3, <1>4 DEF IInv

\* Taking the mutex to give a channel back.
LEMMA FreeLockKeeps ==
  ASSUME IInv, NEW t \in Threads, FreeLock(t)
  PROVE  IInv'
<1>1. TypeOK'
  BY BrokerAssumption DEF IInv, FreeLock, TypeOK, PCs, Channels
<1>2. (OwnedIsChannel /\ Accounted /\ NoSharedChannel)'
  BY OwnersKept DEF IInv, FreeLock, TypeOK, Owns
<1>3. MutexHeld'
  BY BrokerAssumption DEF IInv, FreeLock, TypeOK, MutexHeld, Critical
<1>4. Selection'
  BY BrokerAssumption DEF IInv, FreeLock, TypeOK, Channels, Selection, Selecting
<1>5. QED
  BY <1>1, <1>2, <1>3, <1>4 DEF IInv

\* The flag that is set was unset, so nobody else owns that channel.
LEMMA AssignKeeps ==
  ASSUME IInv, NEW t \in Threads, Assign(t)
  PROVE  IInv'
<1>1. TypeOK'
  BY BrokerAssumption DEF IInv, Assign, TypeOK, PCs, Channels
<1>2. MutexHeld'
  BY BrokerAssumption DEF IInv, Assign, TypeOK, MutexHeld, Critical
<1>3. OwnedIsChannel'
  BY BrokerAssumption DEF IInv, Assign, TypeOK, OwnedIsChannel, Owns, Channels
<1>4. Selection'
  BY BrokerAssumption
  DEF IInv, Assign, TypeOK, Channels, MutexHeld, Critical, Selection, Selecting
<1>5. Accounted'
  BY BrokerAssumption
  DEF IInv, Assign, TypeOK, Accounted, NoSharedChannel, OwnedIsChannel, Owns,
      Channels
<1>6. NoSharedChannel'
  BY BrokerAssumption
  DEF IInv, Assign, TypeOK, NoSharedChannel, Accounted, OwnedIsChannel, Owns,
      Channels, Selection, Selecting
<1>7. QED
  BY <1>1, <1>2, <1>3, <1>4, <1>5, <1>6 DEF IInv

\* The flag that is cleared is that of the thread's own channel.
LEMMA ClearKeeps ==
  ASSUME IInv, NEW t \in Threads, Clear(t)
  PROVE  IInv'
<1>1. TypeOK'
  BY DEF IInv, Clear, TypeOK, PCs, Channels
<1>2. MutexHeld'
  BY BrokerAssumption DEF IInv, Clear, TypeOK, MutexHeld, Critical
<1>3. OwnedIsChannel'
  BY DEF IInv, Clear, TypeOK, OwnedIsChannel, Owns, Channels
<1>4. Selection'
  BY BrokerAssumption
  DEF IInv, Clear, TypeOK, Channels, MutexHeld, Critical, Selection, Selecting
<1>5. Accounted'
  BY DEF IInv, Clear, TypeOK, Accounted, NoSharedChannel, OwnedIsChannel, Owns, Channels
<1>6. NoSharedChannel'
  BY
  DEF IInv, Clear, TypeOK, NoSharedChannel, Accounted, OwnedIsChannel, Owns,
      Channels, Selection, Selecting
<1>7. QED
  BY <1>1, <1>2, <1>3, <1>4, <1>5, <1>6 DEF IInv

\* At the start no channel is taken and nobody has the mutex.
LEMMA InitEstablishes == Init => IInv
<1> SUFFICES ASSUME Init PROVE IInv
  OBVIOUS
<1>1. TypeOK
  BY BrokerAssumption DEF Init, TypeOK, PCs, Channels
<1>2. MutexHeld /\ OwnedIsChannel /\ Accounted /\ NoSharedChannel
  BY BrokerAssumption
  DEF Init, MutexHeld, Critical, OwnedIsChannel, Accounted, NoSharedChannel, Owns
<1>3. Selection
  BY DEF Init, Selection, Selecting
<1>4. QED
  BY <1>1, <1>2, <1>3 DEF IInv

\* Every step of every thread keeps the inductive invariant.
LEMMA NextKeeps == IInv /\ [Next]_vars => IInv'
<1> SUFFICES ASSUME IInv, [Next]_vars PROVE IInv'
  OBVIOUS
<1>1. CASE UNCHANGED vars
  BY <1>1 DEF IInv, vars, TypeOK, MutexHeld, OwnedIsChannel, Selection,
              Selecting, Accounted, NoSharedChannel, Owns
<1>2. ASSUME NEW t \in Threads, GetChannel(t) \/ EndSession(t) \/ Running(t)
      PROVE  IInv'
  BY <1>2, GetChannelKeeps, EndSessionKeeps, LockKeeps, DrumAvailableKeeps,
     DrumUnavailableKeeps, ScanFoundKeeps, ScanTakenKeeps, ScanEndKeeps,
     AssignKeeps, RefuseKeeps, FreeLockKeeps, ClearKeeps
  DEF Running
<1>3. QED
  BY <1>1, <1>2 DEF Next

\* The inductive invariant holds in every reachable state.
THEOREM Invariance == Spec => []IInv
BY InitEstablishes, NextKeeps, PTL DEF Spec

\* Locals of getChannel and the flags stay in their ranges: no thread ever
\* indexes the flags with channel_count.
THEOREM TypeCorrect == Spec => []TypeOK
BY Invariance, PTL DEF IInv

\* Two live MidiChannels never have the same channel, for any number of
\* sessions and channels.
THEOREM ChannelsExclusive == Spec => []NoSharedChannel
BY Invariance, PTL DEF IInv

\* A flag is set exactly while some live MidiChannel has that channel.
THEOREM FlagsAccounted == Spec => []Accounted
BY Invariance, PTL DEF IInv

-----------------------------------------------------------------------------
\* Refinement: the critical section is one step of the pool, taken when the
\* flag is written (or found to be of no use), and freeChannel is another.

\* The channels free in the pool are those whose flag is not set.
LEMMA FreeIsUnset ==
  ASSUME IInv PROVE Pool!Free = {c \in Channels : ~channels[c]}
BY BrokerAssumption
DEF IInv, Accounted, OwnedIsChannel, TypeOK, Owns, Pool!Free, Pool!Channels,
    Channels

\* Setting the flag is the pool handing out a channel.
LEMMA AssignImplements ==
  ASSUME IInv, NEW t \in Threads, Assign(t)
  PROVE  Pool!AcquireDrum(t) \/ Pool!AcquireLowest(t)
<1>1. channel[t] \in Pool!Free /\ ~channels[channel[t]]
  BY BrokerAssumption, FreeIsUnset
  DEF IInv, Assign, TypeOK, Selection, Selecting, Channels
<1>2. CASE asked[t] /\ channel[t] = DrumChannel
  <2>1. Pool!AcquireDrum(t)
    BY <1>1, <1>2 DEF IInv, Assign, TypeOK, PCs, Owns, Pool!AcquireDrum
  <2>2. QED
    BY <2>1
<1>3. CASE ~(asked[t] /\ channel[t] = DrumChannel)
  <2>1. asked[t] => channels[DrumChannel]
    BY <1>3 DEF IInv, Assign, TypeOK, Selection, Selecting
  <2>2. \A c \in Channels : c < channel[t] => channels[c]
    BY <1>3 DEF IInv, Assign, TypeOK, Selection, Selecting
  <2>3. \A d \in Pool!Free : channel[t] <= d
    BY <2>2, FreeIsUnset DEF IInv, TypeOK, Channels
  <2>4. Pool!AcquireLowest(t)
    BY <1>1, <2>1, <2>3, FreeIsUnset
    DEF IInv, Assign, TypeOK, PCs, Owns, Pool!AcquireLowest
  <2>5. QED
    BY <2>4
<1>4. QED
  BY <1>2, <1>3

\* A failed getChannel is the pool refusing.
LEMMA RefuseImplements ==
  ASSUME IInv, NEW t \in Threads, Refuse(t)
  PROVE  Pool!Refuse(t)
<1>1. Pool!Free = {}
  BY BrokerAssumption, FreeIsUnset
  DEF IInv, Refuse, TypeOK, Selection, Selecting, Channels
<1>2. QED
  BY <1>1 DEF IInv, Refuse, TypeOK, PCs, Owns, Pool!Refuse

\* Clearing the flag is the pool taking a channel back.
LEMMA ClearImplements ==
  ASSUME IInv, NEW t \in Threads, Clear(t)
  PROVE  Pool!Release(t)
BY DEF IInv, Clear, TypeOK, PCs, Owns, Pool!Release

\* No other step is visible in the pool.
LEMMA OthersStutter ==
  ASSUME IInv, NEW t \in Threads,
         \/ GetChannel(t) \/ Lock(t) \/ DrumAvailable(t) \/ DrumUnavailable(t)
         \/ ScanFound(t) \/ ScanTaken(t) \/ ScanEnd(t)
         \/ EndSession(t) \/ FreeLock(t)
  PROVE  UNCHANGED Pool!vars
BY DEF IInv, TypeOK, PCs, Owns, Pool!vars, GetChannel, Lock, DrumAvailable,
       DrumUnavailable, ScanFound, ScanTaken, ScanEnd, EndSession, FreeLock

\* What a session can see of the broker is the atomic pool: the drum channel
\* for who asked and found it free, the lowest free channel otherwise, a
\* refusal only when all channels are taken.
THEOREM Refinement == Spec => ImplementsPool
<1>1. Init => Pool!Init
  BY DEF Init, Owns, Pool!Init
<1>2. IInv /\ [Next]_vars => [Pool!Next]_Pool!vars
  <2> SUFFICES ASSUME IInv, [Next]_vars PROVE [Pool!Next]_Pool!vars
    OBVIOUS
  <2>1. CASE UNCHANGED vars
    BY <2>1 DEF vars, Owns, Pool!vars
  <2>2. ASSUME NEW t \in Threads, GetChannel(t) \/ EndSession(t) \/ Running(t)
        PROVE  [Pool!Next]_Pool!vars
    <3>1. CASE Assign(t)
      BY <3>1, AssignImplements DEF Pool!Next
    <3>2. CASE Refuse(t)
      BY <3>2, RefuseImplements DEF Pool!Next
    <3>3. CASE Clear(t)
      BY <3>3, ClearImplements DEF Pool!Next
    <3>4. QED
      BY <2>2, <3>1, <3>2, <3>3, OthersStutter DEF Running
  <2>3. QED
    BY <2>1, <2>2 DEF Next
<1>3. QED
  BY <1>1, <1>2, Invariance, PTL DEF Spec, ImplementsPool, Pool!Spec

-----------------------------------------------------------------------------
\* The desynthesizer.  What the window gave sounds with every combination of
\* options but hill climbing together with -a, for which PitchesSound has a
\* counterexample; that nothing else sounds holds with all of them.
Scope == ~(all /\ hillclimb)

\* What is true within a run: which notes the messages still to be sent are
\* for, and that what is not yet right about the receiver is among them.
Pending ==
  phase = "sending" =>
    /\ Listed(on) \subseteq Expected(notes)
    /\ sounding \subseteq leftover \cup Expected(notes) \cup Listed(off)
    /\ Scope => /\ Listed(on) \cap Expected(old_notes) = {}
                /\ Listed(off) \subseteq Expected(old_notes) \ Expected(notes)
                /\ Expected(notes) \subseteq sounding \cup Listed(on)
                /\ Listed(on) # {} => Expected(old_notes) \subseteq sounding

Extracted == CanExtract(notes) /\ CanExtract(old_notes)

NotesInv == DTypeOK /\ Extracted /\ Mirror /\ Pending

-----------------------------------------------------------------------------
\* The messages for any two lists are again a bag of notes.
LEMMA MessagesType ==
  ASSUME NEW a \in Bags, NEW b \in Bags
  PROVE  Messages(a, b) \in Bags
BY NotesAssumption DEF Bags, Messages, FreqDifference, FirstDifference

\* The messages for a against b are for notes to be heard for a, and for each
\* that is not to be heard for b.  Outside of -a with hill climbing they are for
\* no others.
LEMMA MessagesListed ==
  ASSUME all \in BOOLEAN, hillclimb \in BOOLEAN,
         NEW a, NEW b, CanExtract(a), CanExtract(b)
  PROVE  /\ Listed(Messages(a, b)) \subseteq Expected(a)
         /\ Expected(a) \ Expected(b) \subseteq Listed(Messages(a, b))
         /\ Scope => Listed(Messages(a, b)) \cap Expected(b) = {}
<1>1. CASE all
  <2>1. ASSUME NEW n \in Notes
        PROVE  /\ Messages(a, b)[n] > 0 => InMidiRange(n) /\ a[n] > 0
               /\ InMidiRange(n) /\ a[n] > 0 /\ ~(b[n] > 0) => Messages(a, b)[n] > 0
               /\ Scope /\ Messages(a, b)[n] > 0 => ~(b[n] > 0)
    <3>1. a[n] \in Nat /\ b[n] \in Nat
      BY NotesAssumption DEF CanExtract, Bags
    <3>2. Messages(a, b)[n] = IF InMidiRange(n) /\ a[n] > b[n] THEN a[n] - b[n] ELSE 0
      BY <1>1, <3>1 DEF Messages, FreqDifference
    <3>3. Scope => a[n] <= 1
      BY <1>1 DEF Scope, CanExtract
    <3>4. QED
      BY <3>1, <3>2, <3>3
  <2>2. QED
    BY <1>1, <2>1 DEF Listed, Expected
<1>2. CASE ~all
  <2>1. \A n \in Notes : Messages(a, b)[n] > 0 <=> InMidiRange(n) /\ n \in First(a) \ First(b)
    BY <1>2 DEF Messages, FirstDifference
  <2>2. First(a) \subseteq Notes
    BY DEF First, Listed
  <2>3. QED
    BY <1>2, <2>1, <2>2 DEF Listed, Expected
<1>3. QED
  BY <1>1, <1>2

\* Starting a run from a state in which the receiver mirrors the old list.
LEMMA StartKeeps ==
  ASSUME DTypeOK, NEW old, CanExtract(old), StartRun(old),
         old_notes' = old, UNCHANGED <<options, sounding>>, leftover' \subseteq Notes,
         sounding \ Expected(old) \subseteq leftover',
         Scope => Expected(old) \subseteq sounding
  PROVE  NotesInv'
<1> PICK b \in Bags : /\ CanExtract(b)
                      /\ notes' = b
                      /\ on' = Messages(b, old)
                      /\ off' = Messages(old, b)
                      /\ phase' = "sending"
  BY DEF StartRun
<1>1. DTypeOK'
  BY MessagesType DEF DTypeOK, options, CanExtract
<1>2. Extracted'
  BY DEF Extracted, CanExtract, options
<1>3. /\ Listed(on') \subseteq Expected(b) /\ Expected(b) \ Expected(old) \subseteq Listed(on')
      /\ Listed(off') \subseteq Expected(old) /\ Expected(old) \ Expected(b) \subseteq Listed(off')
      /\ Scope => /\ Listed(on') \cap Expected(old) = {}
                  /\ Listed(off') \cap Expected(b) = {}
  BY MessagesListed DEF DTypeOK
<1>4. Expected(notes)' = Expected(b) /\ Expected(old_notes)' = Expected(old)
  BY DEF Expected, options
<1>5. Pending'
  BY <1>3, <1>4 DEF Pending, options, Scope
<1>6. QED
  BY <1>1, <1>2, <1>5 DEF NotesInv, Mirror

\* A new session starts with no notes, whatever still sounds.
LEMMA ConstructKeeps == NotesInv /\ Construct => NotesInv'
<1> SUFFICES ASSUME NotesInv, Construct PROVE NotesInv'
  OBVIOUS
<1>1. EmptyBag \in Bags /\ CanExtract(EmptyBag) /\ Expected(EmptyBag) = {}
  BY NotesAssumption DEF EmptyBag, Bags, CanExtract, Expected, First, Listed
<1>2. CASE ~hillclimb
  BY <1>1, <1>2, StartKeeps DEF NotesInv, Construct, DTypeOK
<1>3. CASE hillclimb
  <2>1. DTypeOK'
    BY <1>1, <1>3 DEF NotesInv, Construct, DTypeOK, options
  <2>2. Expected(old_notes)' = {} /\ CanExtract(notes)' /\ CanExtract(old_notes)'
    BY <1>1, <1>3 DEF Construct, options, Expected, CanExtract
  <2>3. QED
    BY <1>3, <2>1, <2>2 DEF NotesInv, Construct, Extracted, Mirror, Pending
<1>4. QED
  BY <1>2, <1>3

\* A run starts from what the last one left.
LEMMA RunKeeps == NotesInv /\ Run => NotesInv'
<1> SUFFICES ASSUME NotesInv, Run PROVE NotesInv'
  OBVIOUS
<1>1. /\ CanExtract(old_notes)
      /\ sounding \ Expected(old_notes) \subseteq leftover
      /\ Scope => Expected(old_notes) \subseteq sounding
  BY DEF NotesInv, Run, Extracted, Mirror, Scope
<1>2. QED
  BY <1>1, StartKeeps DEF NotesInv, Run, DTypeOK

\* The lists and the options do not change while messages are sent, and one
\* sending of a note takes at most that note from the messages left.
LEMMA OneSent ==
  ASSUME NEW b \in Bags, NEW n \in First(b)
  PROVE  /\ [b EXCEPT ![n] = @ - 1] \in Bags
         /\ Listed([b EXCEPT ![n] = @ - 1]) \subseteq Listed(b)
         /\ Listed(b) \subseteq Listed([b EXCEPT ![n] = @ - 1]) \cup {n}
         /\ n \in Listed(b) /\ n \in Notes
<1>1. n \in Notes /\ b[n] \in 0 .. MaxBins /\ b[n] > 0
  BY DEF Bags, First, Listed
<1>2. QED
  BY <1>1, NotesAssumption DEF Bags, Listed

\* A NoteOn adds a note that is to be heard.
LEMMA SendOnKeeps == NotesInv /\ SendOn => NotesInv'
<1> SUFFICES ASSUME NotesInv, SendOn PROVE NotesInv'
  OBVIOUS
<1> PICK n \in First(on) : /\ on' = [on EXCEPT ![n] = @ - 1]
                           /\ sounding' = sounding \cup {n}
  BY DEF SendOn
<1>1. /\ on' \in Bags
      /\ Listed(on)' \subseteq Listed(on)
      /\ Listed(on) \subseteq Listed(on)' \cup {n}
      /\ n \in Listed(on) /\ n \in Notes
  BY OneSent DEF NotesInv, DTypeOK, Listed
<1>2. DTypeOK'
  BY <1>1 DEF NotesInv, SendOn, DTypeOK, options
<1>3. /\ Expected(notes)' = Expected(notes) /\ Expected(old_notes)' = Expected(old_notes)
      /\ Listed(off)' = Listed(off)
      /\ Extracted' = Extracted
  BY DEF SendOn, options, Expected, Extracted, CanExtract, Listed
<1>4. Scope' = Scope
  BY DEF SendOn, options, Scope
<1>5. /\ Listed(on) \subseteq Expected(notes)
      /\ sounding \subseteq leftover \cup Expected(notes) \cup Listed(off)
      /\ Scope => /\ Listed(on) \cap Expected(old_notes) = {}
                  /\ Listed(off) \subseteq Expected(old_notes) \ Expected(notes)
                  /\ Expected(notes) \subseteq sounding \cup Listed(on)
                  /\ Expected(old_notes) \subseteq sounding
  BY <1>1 DEF NotesInv, SendOn, Pending
<1>6. /\ Listed(on)' \subseteq Expected(notes)
      /\ sounding' \subseteq leftover \cup Expected(notes) \cup Listed(off)
  BY <1>1, <1>5
<1>7. Scope => /\ Listed(on)' \cap Expected(old_notes) = {}
              /\ Expected(notes) \subseteq sounding' \cup Listed(on)'
              /\ Expected(old_notes) \subseteq sounding'
  BY <1>1, <1>5
<1>8. leftover' = leftover
  BY DEF SendOn
<1>9. Pending'
  BY <1>3, <1>4, <1>5, <1>6, <1>7, <1>8, Zenon DEF Pending
<1>10. QED
  BY <1>2, <1>3, <1>9 DEF NotesInv, SendOn, Mirror

\* A NoteOff takes away a note that is not to be heard any more.
LEMMA SendOffKeeps == NotesInv /\ SendOff => NotesInv'
<1> SUFFICES ASSUME NotesInv, SendOff PROVE NotesInv'
  OBVIOUS
<1> PICK n \in First(off) : /\ off' = [off EXCEPT ![n] = @ - 1]
                            /\ sounding' = sounding \ {n}
                            /\ leftover' = leftover \ {n}
  BY DEF SendOff
<1>1. /\ off' \in Bags
      /\ Listed(off)' \subseteq Listed(off)
      /\ Listed(off) \subseteq Listed(off)' \cup {n}
      /\ n \in Listed(off) /\ n \in Notes
  BY OneSent DEF NotesInv, DTypeOK, Listed
<1>2. DTypeOK'
  BY <1>1 DEF NotesInv, SendOff, DTypeOK, options
<1>3. /\ Expected(notes)' = Expected(notes) /\ Expected(old_notes)' = Expected(old_notes)
      /\ Listed(on)' = Listed(on) /\ Listed(on) = {}
      /\ Extracted' = Extracted
  BY DEF SendOff, OnsSent, options, Expected, Extracted, CanExtract, Listed
<1>4. Scope' = Scope
  BY DEF SendOff, options, Scope
<1>5. /\ sounding \subseteq leftover \cup Expected(notes) \cup Listed(off)
      /\ Scope => /\ Listed(off) \subseteq Expected(old_notes) \ Expected(notes)
                  /\ Expected(notes) \subseteq sounding
  BY <1>3 DEF NotesInv, SendOff, Pending
<1>6. sounding' \subseteq leftover' \cup Expected(notes) \cup Listed(off)'
  BY <1>1, <1>5
<1>7. Scope => /\ Listed(off)' \subseteq Expected(old_notes) \ Expected(notes)
              /\ Expected(notes) \subseteq sounding'
  BY <1>1, <1>5
<1>8. Pending'
  BY <1>3, <1>4, <1>6, <1>7 DEF Pending
<1>9. QED
  BY <1>2, <1>3, <1>8 DEF NotesInv, SendOff, Mirror

\* When all messages are sent the receiver plays the new list.
LEMMA FinishRunKeeps == NotesInv /\ FinishRun => NotesInv'
<1> SUFFICES ASSUME NotesInv, FinishRun PROVE NotesInv'
  OBVIOUS
<1>1. DTypeOK'
  BY DEF NotesInv, FinishRun, DTypeOK, options
<1>2. Expected(old_notes)' = Expected(notes) /\ Extracted' /\ Scope' = Scope
  BY DEF NotesInv, FinishRun, options, Expected, Extracted, CanExtract, Scope
<1>3. Mirror'
  BY <1>2 DEF NotesInv, FinishRun, Mirror, Pending, Scope
<1>4. QED
  BY <1>1, <1>2, <1>3 DEF NotesInv, FinishRun, Pending

\* The end of a session changes neither list nor receiver.
LEMMA HangupKeeps == NotesInv /\ Hangup => NotesInv'
BY DEF NotesInv, Hangup, DTypeOK, options, Extracted, CanExtract, Mirror, Pending

\* The strengthened invariant, which holds within a run as well.
THEOREM NotesInvariance == DSpec => []NotesInv
<1>1. DInit => NotesInv
  BY NotesAssumption
  DEF DInit, NotesInv, DTypeOK, Bags, EmptyBag, Extracted, CanExtract, Mirror, Pending
<1>2. NotesInv /\ UNCHANGED dvars => NotesInv'
  BY DEF NotesInv, dvars, options, DTypeOK, Scope, Extracted, CanExtract, Mirror, Pending,
         Expected, First, Listed
<1>3. NotesInv /\ [DNext]_dvars => NotesInv'
  BY <1>2, ConstructKeeps, RunKeeps, SendOnKeeps, SendOffKeeps, FinishRunKeeps,
     HangupKeeps
  DEF DNext
<1>4. QED
  BY <1>1, <1>3, PTL DEF DSpec

\* What a run keeps of its windows, and what it lists to be sent, are notes, each
\* with how often it was found.
THEOREM NotesTypeCorrect == DSpec => []DTypeOK
<1>1. NotesInv => DTypeOK
  BY DEF NotesInv
<1>2. QED
  BY <1>1, NotesInvariance, PTL

\* The receiver plays what the last window gave, and nothing else but notes left
\* over by an earlier session on the channel that this one has not ended.
THEOREM ReceiverMirrors == DSpec => []Mirror
<1>1. NotesInv => Mirror
  BY DEF NotesInv
<1>2. QED
  BY <1>1, NotesInvariance, PTL

\* A run interrupts no note that goes on, and leaves no silence between the
\* notes that end and those that start.
THEOREM NoNoteDropsOut == DSpec => []NoDropout
<1>1. NotesInv => NoDropout
  <2> SUFFICES ASSUME NotesInv, phase = "sending", Scope
               PROVE  /\ Expected(old_notes) \cap Expected(notes) \subseteq sounding
                      /\ Expected(old_notes) # {} /\ Expected(notes) # {} => sounding # {}
    BY DEF NoDropout, Scope
  <2>1. CASE Listed(on) = {}
    BY <2>1 DEF NotesInv, Pending, Scope
  <2>2. CASE Listed(on) # {}
    BY <2>2 DEF NotesInv, Pending, Scope
  <2>3. QED
    BY <2>1, <2>2
<1>2. QED
  BY <1>1, NotesInvariance, PTL
=============================================================================
