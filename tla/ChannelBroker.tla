--------------------------- MODULE ChannelBroker ---------------------------
(***************************************************************************)
(* The MIDI channel broker (fft2midi/channelbroker.cpp) and the lifetime   *)
(* of the MidiChannel each session thread owns (fft2midi/channel.{h,cpp}). *)
(*                                                                         *)
(* Every session thread constructs one MidiChannel, which calls            *)
(* getChannel, and destroys it when the session ends, which calls          *)
(* freeChannel.  The flags of the sixteen channels are shared; each access *)
(* to them is a step of its own, so that what the mutex is for can be      *)
(* seen: nothing in an action excludes another thread except the mutex.    *)
(***************************************************************************)
EXTENDS Naturals

CONSTANTS Threads,        \* session threads; each runs once
          ChannelCount,   \* channel_count
          DrumChannel,    \* drum_channel
          Unlocked        \* the mutex is held by nobody

ASSUME BrokerAssumption ==
  /\ ChannelCount \in Nat \ {0}
  /\ DrumChannel \in 0 .. (ChannelCount - 1)
  /\ Unlocked \notin Threads

Channels == 0 .. (ChannelCount - 1)

VARIABLES channels,       \* the shared flags: channels[c] means c is taken
          m,              \* the thread that holds the mutex, or Unlocked
          pc,             \* what each thread does next
          asked,          \* the argument each thread passed for drum
          drum,           \* getChannel's parameter, a local copy
          i,              \* getChannel's loop variable
          channel         \* the thread's MidiChannel::channel

vars == <<channels, m, pc, asked, drum, i, channel>>

PCs == {"start", "lock", "tryDrum", "scan", "assign", "hold", "refused",
        "freeLock", "clear", "done"}

Init == /\ channels = [c \in Channels |-> FALSE]
        /\ m = Unlocked
        /\ pc = [t \in Threads |-> "start"]
        /\ asked \in [Threads -> BOOLEAN]
        /\ drum = asked
        /\ i = [t \in Threads |-> 0]
        /\ channel = [t \in Threads |-> 0]

-----------------------------------------------------------------------------
\* The parts of the code that the checks below mutate, each after its mutant

\* mutant: the lock_guard is missing
MutexIgnored == TRUE
MutexFree == m = Unlocked

\* mutant: unassigned is (unsigned) -1, not channel_count
UnassignedMax == ChannelCount + 1
Unassigned == ChannelCount

\* mutant: the loop leaves out the last channel
ScansAllButLast(t) == i[t] < ChannelCount - 1
Scans(t) == i[t] < ChannelCount

\* mutant: the loop variable is not incremented
SameIndex(t) == i
NextIndex(t) == [i EXCEPT ![t] = @ + 1]

\* mutant: freeChannel does nothing
NotFreed(t) == channels
Freed(t) == [channels EXCEPT ![channel[t]] = FALSE]

-----------------------------------------------------------------------------
\* getChannel, called by the constructor of MidiChannel

\* channel = channel_count, written before the mutex is taken
GetChannel(t) ==
  /\ pc[t] = "start"
  /\ channel' = [channel EXCEPT ![t] = Unassigned]
  /\ pc' = [pc EXCEPT ![t] = "lock"]
  /\ UNCHANGED <<channels, m, asked, drum, i>>

Lock(t) ==
  /\ pc[t] = "lock"
  /\ MutexFree
  /\ m' = t
  /\ pc' = [pc EXCEPT ![t] = IF drum[t] THEN "tryDrum" ELSE "scan"]
  /\ UNCHANGED <<channels, asked, drum, i, channel>>

\* the drum channel is free: take it and skip the scan
DrumAvailable(t) ==
  /\ pc[t] = "tryDrum"
  /\ ~channels[DrumChannel]
  /\ channel' = [channel EXCEPT ![t] = DrumChannel]
  /\ pc' = [pc EXCEPT ![t] = "assign"]
  /\ UNCHANGED <<channels, m, asked, drum, i>>

\* it is taken: fall back to any channel
DrumUnavailable(t) ==
  /\ pc[t] = "tryDrum"
  /\ channels[DrumChannel]
  /\ drum' = [drum EXCEPT ![t] = FALSE]
  /\ pc' = [pc EXCEPT ![t] = "scan"]
  /\ UNCHANGED <<channels, m, asked, i, channel>>

\* one turn of the loop over the channels finds a free one
ScanFound(t) ==
  /\ pc[t] = "scan"
  /\ Scans(t)
  /\ ~channels[i[t]]
  /\ channel' = [channel EXCEPT ![t] = i[t]]
  /\ pc' = [pc EXCEPT ![t] = "assign"]
  /\ UNCHANGED <<channels, m, asked, drum, i>>

ScanTaken(t) ==
  /\ pc[t] = "scan"
  /\ Scans(t)
  /\ channels[i[t]]
  /\ i' = NextIndex(t)
  /\ UNCHANGED <<channels, m, pc, asked, drum, channel>>

ScanEnd(t) ==
  /\ pc[t] = "scan"
  /\ ~Scans(t)
  /\ pc' = [pc EXCEPT ![t] = "assign"]
  /\ UNCHANGED <<channels, m, asked, drum, i, channel>>

\* set the flag and return true; the guard object unlocks
Assign(t) ==
  /\ pc[t] = "assign"
  /\ channel[t] < ChannelCount
  /\ channels' = [channels EXCEPT ![channel[t]] = TRUE]
  /\ m' = Unlocked
  /\ pc' = [pc EXCEPT ![t] = "hold"]
  /\ UNCHANGED <<asked, drum, i, channel>>

\* return false: the constructor throws No_Channel, so no destructor runs
Refuse(t) ==
  /\ pc[t] = "assign"
  /\ channel[t] >= ChannelCount
  /\ m' = Unlocked
  /\ pc' = [pc EXCEPT ![t] = "refused"]
  /\ UNCHANGED <<channels, asked, drum, i, channel>>

-----------------------------------------------------------------------------
\* ~MidiChannel calls freeChannel when the session function returns

EndSession(t) ==
  /\ pc[t] = "hold"
  /\ pc' = [pc EXCEPT ![t] = "freeLock"]
  /\ UNCHANGED <<channels, m, asked, drum, i, channel>>

FreeLock(t) ==
  /\ pc[t] = "freeLock"
  /\ MutexFree
  /\ m' = t
  /\ pc' = [pc EXCEPT ![t] = "clear"]
  /\ UNCHANGED <<channels, asked, drum, i, channel>>

Clear(t) ==
  /\ pc[t] = "clear"
  /\ channels' = Freed(t)
  /\ m' = Unlocked
  /\ pc' = [pc EXCEPT ![t] = "done"]
  /\ UNCHANGED <<asked, drum, i, channel>>

-----------------------------------------------------------------------------
\* a call, once made, is executed to its end by the thread that made it
Running(t) == \/ Lock(t) \/ DrumAvailable(t) \/ DrumUnavailable(t)
              \/ ScanFound(t) \/ ScanTaken(t) \/ ScanEnd(t)
              \/ Assign(t) \/ Refuse(t)
              \/ FreeLock(t) \/ Clear(t)

Finished == \A t \in Threads : pc[t] \in {"done", "refused"}

Next == \/ \E t \in Threads : GetChannel(t) \/ EndSession(t) \/ Running(t)
        \/ Finished /\ UNCHANGED vars

Spec == Init /\ [][Next]_vars
FairSpec == Spec /\ \A t \in Threads : WF_vars(Running(t))

-----------------------------------------------------------------------------
\* the thread is in the MidiChannel's lifetime: its notes go out on channel[t]
Owns(t) == pc[t] \in {"hold", "freeLock", "clear"}

\* Types of the broker's flags and of the locals of getChannel.
TypeOK == /\ channels \in [Channels -> BOOLEAN]
          /\ m \in Threads \cup {Unlocked}
          /\ pc \in [Threads -> PCs]
          /\ asked \in [Threads -> BOOLEAN]
          /\ drum \in [Threads -> BOOLEAN]
          /\ i \in [Threads -> 0 .. ChannelCount]
          /\ channel \in [Threads -> 0 .. ChannelCount]

\* Two sessions alive at the same time never send on the same MIDI channel:
\* getChannel's check of a flag and its write are one critical section.
NoSharedChannel ==
  \A t, u \in Threads : t # u /\ Owns(t) /\ Owns(u) => channel[t] # channel[u]

\* No channel is lost and none is given back early: a flag is set exactly
\* while a session owns that channel, whatever order getChannel and
\* freeChannel calls of other sessions take.
Accounted ==
  \A c \in Channels : channels[c] <=> \E t \in Threads : Owns(t) /\ channel[t] = c

\* The broker does, step by step, what the atomic pool does: drum preference,
\* lowest free channel first, refusal only when every channel is taken.
Pool == INSTANCE ChannelPool WITH
  stage <- [t \in Threads |-> CASE Owns(t) -> "in"
                                [] pc[t] = "refused" -> "refused"
                                [] pc[t] = "done" -> "gone"
                                [] OTHER -> "out"],
  got <- [t \in Threads |-> IF Owns(t) THEN channel[t] ELSE ChannelCount]

ImplementsPool == Pool!Spec

\* A session that calls getChannel gets an answer, and one that calls
\* freeChannel gets out of it: no thread waits for the mutex for ever.
CallsReturn ==
  \A t \in Threads : /\ pc[t] = "lock" ~> pc[t] \in {"hold", "refused"}
                     /\ pc[t] = "freeLock" ~> pc[t] = "done"
=============================================================================
