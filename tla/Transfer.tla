------------------------------ MODULE Transfer ------------------------------
(***************************************************************************)
(* Connection::send and Connection::recv (socket/connection.cpp), one at   *)
(* each end of a TCP connection: the controller sends frames of Count      *)
(* bytes, the server receives them.  TCP keeps the bytes in order but not  *)
(* the boundaries of the writes: read returns any number of the bytes that *)
(* have arrived, and write takes fewer than it was given when a signal     *)
(* interrupts it.  Both loops call again with the same buffer and the same *)
(* count, and subtract what was moved from a size_t.                       *)
(*                                                                         *)
(* A byte is a pair: the frame it belongs to and its place in the frame.   *)
(***************************************************************************)
EXTENDS Naturals, Sequences

CONSTANTS Count,          \* bytes of a frame: sizeof(float) * 80
          Word,           \* the values of a size_t
          MaxBytes        \* bound: bytes the sender writes in all

ASSUME TransferAssumption ==
  /\ Count \in Nat \ {0}
  /\ MaxBytes \in Nat
  /\ Word \in Nat /\ Count + MaxBytes < Word

Places == 0 .. (Count - 1)
Frame(f) == [k \in Places |-> <<f, k>>]

VARIABLES
  stream,                 \* bytes written and not yet read
  \* the sender
  spc,                    \* "send" or "closed"
  frame,                  \* the frame it is sending
  sremaining,             \* send's remaining
  sent,                   \* bytes written in all
  \* the receiver
  rpc,                    \* "recv": in the loop; "returned"; "stopped"
  buf,                    \* the array it receives into
  rremaining,             \* recv's remaining
  consumed,               \* bytes this recv has read
  received,               \* recvs that returned with running still true
  \* what signals did to the writes so far, and the network to this recv's reads
  shortWrite, shortRead

senderVars == <<spc, frame, sremaining, sent, shortWrite>>
receiverVars == <<rpc, buf, rremaining, consumed, received, shortRead>>
vars == <<stream, senderVars, receiverVars>>

Init == /\ stream = <<>>
        /\ spc = "send" /\ frame = 1 /\ sremaining = Count /\ sent = 0
        /\ rpc = "recv" /\ buf = Frame(0) /\ rremaining = Count
        /\ consumed = 0 /\ received = 0
        /\ shortWrite = FALSE /\ shortRead = FALSE

\* mutant: remaining is signed
SignedMinus(remaining, ret) == remaining - ret

\* remaining -= ret, in size_t
Minus(remaining, ret) == (remaining + Word - ret) % Word

\* mutant: the loop ends at 0 or below, as if remaining were signed
SignedDone(left) == left = 0 \/ left > Count
Done(left) == left = 0

\* mutant: the controller sends the data of the last frame again
SameFrame == frame
NextFrame == frame + 1

\* mutant: a read that returns 0 is taken for a short one
EofIgnored == "recv"
AfterEof == "stopped"

-----------------------------------------------------------------------------
\* ret = write(cfd, buf, count); the next call of send has the next frame
Write ==
  /\ spc = "send"
  /\ \E ret \in 1 .. Count :
       /\ sent + ret <= MaxBytes
       /\ stream' = stream \o [k \in 1 .. ret |-> <<frame, k - 1>>]
       /\ sent' = sent + ret
       /\ shortWrite' = (shortWrite \/ ret < Count)
       /\ LET left == Minus(sremaining, ret) IN
            IF Done(left) THEN sremaining' = Count /\ frame' = NextFrame
                          ELSE sremaining' = left /\ UNCHANGED frame
  /\ UNCHANGED <<spc, receiverVars>>

\* the controller's process ends
CloseSender ==
  /\ spc = "send"
  /\ spc' = "closed"
  /\ UNCHANGED <<stream, frame, sremaining, sent, shortWrite, receiverVars>>

-----------------------------------------------------------------------------
\* ret = read(cfd, buf, count), which puts the bytes at the start of buf
Read ==
  /\ rpc = "recv"
  /\ \E ret \in 1 .. Count :
       /\ ret <= Len(stream)
       /\ buf' = [k \in Places |-> IF k < ret THEN stream[k + 1] ELSE buf[k]]
       /\ stream' = SubSeq(stream, ret + 1, Len(stream))
       /\ consumed' = consumed + ret
       /\ shortRead' = (shortRead \/ ret < Count)
       /\ LET left == Minus(rremaining, ret) IN
            /\ rremaining' = left
            /\ IF Done(left) THEN rpc' = "returned" /\ received' = received + 1
                             ELSE UNCHANGED <<rpc, received>>
  /\ UNCHANGED senderVars

\* read returns 0: running = false, and recv returns
ReadEof ==
  /\ rpc = "recv"
  /\ stream = <<>> /\ spc = "closed"
  /\ rpc' = AfterEof
  /\ UNCHANGED <<stream, senderVars, buf, rremaining, consumed, received, shortRead>>

\* the session goes round its loop and calls recv again
CallRecv ==
  /\ rpc = "returned"
  /\ rpc' = "recv" /\ rremaining' = Count /\ consumed' = 0 /\ shortRead' = FALSE
  /\ UNCHANGED <<stream, senderVars, buf, received>>

Receiver == Read \/ ReadEof \/ CallRecv

Next == \/ Write \/ CloseSender \/ Receiver
        \/ rpc = "stopped" /\ UNCHANGED vars

Spec == Init /\ [][Next]_vars
FairSpec == Spec /\ WF_vars(Receiver)

-----------------------------------------------------------------------------
Bytes == (0 .. (MaxBytes + 1)) \X Places

\* Types of the stream, the locals of send and recv and the buffer.
TypeOK == /\ stream \in Seq(Bytes) /\ Len(stream) <= sent
          /\ spc \in {"send", "closed"}
          /\ frame \in 1 .. (MaxBytes + 1)
          /\ sremaining \in 1 .. (Word - 1)
          /\ sent \in 0 .. MaxBytes
          /\ rpc \in {"recv", "returned", "stopped"}
          /\ buf \in [Places -> Bytes]
          /\ rremaining \in 0 .. (Word - 1)
          /\ consumed \in 0 .. MaxBytes
          /\ received \in 0 .. MaxBytes
          /\ shortWrite \in BOOLEAN /\ shortRead \in BOOLEAN

\* A recv that returns with running still true leaves the stream where the
\* next frame begins, however the reads were cut, as long as no write was
\* interrupted: it may have scrambled its frame, but not those that follow.
Aligned ==
  rpc = "returned" /\ ~shortWrite =>
    /\ consumed = Count
    /\ stream # <<>> => stream[1][2] = 0

\* A recv that gets its bytes in one read has the frame that is due, whatever
\* the network did to the recvs before it, as long as no write was interrupted:
\* no frame is skipped or received twice.
InOrder == rpc = "returned" /\ ~shortWrite /\ ~shortRead => buf = Frame(received)

\* Once the controller is gone the server's recv ends, even if its counter
\* has wrapped round.
StopsAtEof == spc = "closed" ~> rpc = "stopped"

\* server/main.cpp:48, "Read from socket into Desynth object. Contents can be
\* found in desynth.tone.interval": after recv the array holds a frame as it
\* was sent.
FrameReceived == rpc = "returned" /\ ~shortWrite => buf = Frame(received)
=============================================================================
