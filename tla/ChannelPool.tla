---------------------------- MODULE ChannelPool ----------------------------
(***************************************************************************)
(* What the server's MIDI channel broker promises to the sessions that use *)
(* it: a channel is handed out, refused or taken back in one step.  A      *)
(* session that asked for the drum gets the drum channel if it is free,    *)
(* and every other session gets the lowest free channel; a session is      *)
(* refused only when no channel is free.                                   *)
(***************************************************************************)
EXTENDS Naturals

CONSTANTS Threads,        \* the session threads, each with one MidiChannel
          ChannelCount,   \* ChannelBroker::channel_count
          DrumChannel     \* ChannelBroker::drum_channel

Channels == 0 .. (ChannelCount - 1)

VARIABLES asked,          \* the thread passed drum = true to getChannel
          stage,          \* where the thread is in the life of its channel
          got             \* the channel it holds, or ChannelCount

vars == <<asked, stage, got>>

Free == {c \in Channels : \A t \in Threads : got[t] # c}

Init == /\ asked \in [Threads -> BOOLEAN]
        /\ stage = [t \in Threads |-> "out"]
        /\ got = [t \in Threads |-> ChannelCount]

AcquireDrum(t) ==
  /\ stage[t] = "out"
  /\ asked[t]
  /\ DrumChannel \in Free
  /\ stage' = [stage EXCEPT ![t] = "in"]
  /\ got' = [got EXCEPT ![t] = DrumChannel]
  /\ UNCHANGED asked

AcquireLowest(t) ==
  /\ stage[t] = "out"
  /\ asked[t] => DrumChannel \notin Free
  /\ \E c \in Free :
       /\ \A d \in Free : c <= d
       /\ got' = [got EXCEPT ![t] = c]
  /\ stage' = [stage EXCEPT ![t] = "in"]
  /\ UNCHANGED asked

Refuse(t) ==
  /\ stage[t] = "out"
  /\ Free = {}
  /\ stage' = [stage EXCEPT ![t] = "refused"]
  /\ UNCHANGED <<asked, got>>

Release(t) ==
  /\ stage[t] = "in"
  /\ stage' = [stage EXCEPT ![t] = "gone"]
  /\ got' = [got EXCEPT ![t] = ChannelCount]
  /\ UNCHANGED asked

Next == \E t \in Threads :
          AcquireDrum(t) \/ AcquireLowest(t) \/ Refuse(t) \/ Release(t)

Spec == Init /\ [][Next]_vars
=============================================================================
