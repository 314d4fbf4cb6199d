-------------------------- MODULE ControllerProofs --------------------------
(***************************************************************************)
(* Proofs about the controller, for windows of any size, any number of     *)
(* attempts, turns and buffered frames, and whatever the server does.      *)
(*                                                                         *)
(* FrameWhole is not inductive: it needs to know who has the mutex, what   *)
(* the callback has left in fft_data, and how far the copy has got.        *)
(* SendsOnlyWhenReady needs that running is never true after a failure,    *)
(* and LocalControllerOutlivesUse that only the join lets main return      *)
(* when there is a thread.                                                 *)
(***************************************************************************)
EXTENDS Controller, TLAPS

USE DEF HasDescriptor, KeepsWaiting, SenderEnded, Fail, MutexFree

\* The mutex is held by who is copying.
MutexHeld == /\ mtx = "sender" <=> cpc = "copy"
             /\ mtx = "audio" <=> apc = "transform"

\* The callback has left the current window, or its first elements.
DataWhole == \A k \in Indices : apc = "idle" \/ k < ai => fft_data[k] = window

\* The copy holds the first elements of the current window.
CopyWhole == /\ cpc = "lock" => ci = 0
             /\ cpc = "copy" => \A k \in Indices : k < ci => localArray[k] = window

\* After a failure running is false, and it is not before the ready byte that
\* the loop is reached without a failure.
FailureSeen == /\ running => ~failed
               /\ cpc = "none" => ~failed
               /\ cpc = "check" => ready \/ failed

\* Where main can be, given its thread and the descriptor.
MainInStep == /\ mpc = "connect" => cpc = "none" /\ ~opened
              /\ mpc \in {"return", "stopStream", "exited"} => cpc \in {"none", "ended"}
              /\ mpc = "exited" => apc = "idle"

Whole == MutexHeld /\ DataWhole /\ CopyWhole /\ FrameWhole
Ordered == FailureSeen /\ MainInStep /\ SendsOnlyWhenReady

IInv == TypeOK /\ Whole /\ Ordered

-----------------------------------------------------------------------------
\* What a step leaves alone stays of its type.
LEMMA Framed ==
  /\ SenderType /\ UNCHANGED senderVars => SenderType'
  /\ AudioType /\ UNCHANGED audioVars => AudioType'
  /\ NetworkType /\ UNCHANGED networkVars => NetworkType'
<1>1. SenderType /\ UNCHANGED senderVars => SenderType'
  BY DEF SenderType, senderVars
<1>2. AudioType /\ UNCHANGED audioVars => AudioType'
  BY DEF AudioType, audioVars
<1>3. NetworkType /\ UNCHANGED networkVars => NetworkType'
  BY DEF NetworkType, networkVars
<1>4. QED
  BY <1>1, <1>2, <1>3

\* A step that touches neither the window nor its copies keeps them whole.
LEMMA WholeKept ==
  ASSUME Whole, UNCHANGED <<ci, localArray, audioVars>>,
         cpc' = "copy" <=> cpc = "copy",
         cpc' = "lock" => cpc = "lock",
         cpc' \in {"send", "writing"} => cpc \in {"send", "writing"}
  PROVE  Whole'
BY DEF Whole, MutexHeld, DataWhole, CopyWhole, FrameWhole, audioVars

-----------------------------------------------------------------------------
\* Steps of main that leave the others alone: what has to be shown of them.
MainStep == /\ UNCHANGED <<senderVars, audioVars, networkVars>>
            /\ MainType' /\ MainInStep'

\* Such a step keeps the invariant.
LEMMA MainStepKeeps ==
  ASSUME IInv, MainStep
  PROVE  IInv'
<1>1. TypeOK'
  BY Framed DEF MainStep, IInv, TypeOK
<1>2. UNCHANGED <<cpc, ci, running, ready, failed, localArray>>
  BY DEF MainStep, senderVars
<1>3. Whole'
  BY <1>2, WholeKept DEF MainStep, IInv
<1>4. FailureSeen' /\ SendsOnlyWhenReady'
  BY <1>2 DEF IInv, Ordered, FailureSeen, SendsOnlyWhenReady
<1>5. QED
  BY <1>1, <1>3, <1>4 DEF MainStep, IInv, Ordered

\* Main returns only when it has no thread, or after the join, and destroys
\* the LocalController when the callback is idle.
LEMMA MainKeeps ==
  ASSUME IInv,
         \/ NoSocket \/ ConnectFails \/ StopTrying \/ Turn \/ LoopEnds
         \/ CloseClient \/ Join \/ StopStream \/ DestroyLocalController
         \/ Sigint \/ Sigpipe
  PROVE  IInv'
<1>1. /\ UNCHANGED <<senderVars, audioVars, networkVars>>
      /\ cpc' = cpc /\ apc' = apc
  BY DEF senderVars, audioVars, NoSocket, ConnectFails, StopTrying, Turn, LoopEnds,
         CloseClient, Join, StopStream, DestroyLocalController, Sigint, Sigpipe
<1>2. CASE NoSocket
  <2>1. MainType'
    BY <1>2, ControllerAssumption
    DEF IInv, TypeOK, MainType, MainPCs, Ordered, MainInStep, NoSocket
  <2>2. MainInStep'
    BY <1>1, <1>2 DEF IInv, Ordered, MainInStep, NoSocket
  <2>3. QED
    BY <1>1, <2>1, <2>2, MainStepKeeps DEF MainStep
<1>3. CASE ConnectFails
  <2>1. MainType'
    BY <1>3, ControllerAssumption
    DEF IInv, TypeOK, MainType, MainPCs, Ordered, MainInStep, ConnectFails
  <2>2. MainInStep'
    BY <1>1, <1>3 DEF IInv, Ordered, MainInStep, ConnectFails
  <2>3. QED
    BY <1>1, <2>1, <2>2, MainStepKeeps DEF MainStep
<1>4. CASE StopTrying
  <2>1. MainType'
    BY <1>4, ControllerAssumption
    DEF IInv, TypeOK, MainType, MainPCs, Ordered, MainInStep, StopTrying
  <2>2. MainInStep'
    BY <1>1, <1>4 DEF IInv, Ordered, MainInStep, StopTrying
  <2>3. QED
    BY <1>1, <2>1, <2>2, MainStepKeeps DEF MainStep
<1>5. CASE Turn
  <2>1. MainType'
    BY <1>5, ControllerAssumption
    DEF IInv, TypeOK, MainType, MainPCs, Ordered, MainInStep, Turn
  <2>2. MainInStep'
    BY <1>1, <1>5 DEF IInv, Ordered, MainInStep, Turn
  <2>3. QED
    BY <1>1, <2>1, <2>2, MainStepKeeps DEF MainStep
<1>6. CASE LoopEnds
  <2>1. MainType'
    BY <1>6, ControllerAssumption
    DEF IInv, TypeOK, MainType, MainPCs, Ordered, MainInStep, LoopEnds
  <2>2. MainInStep'
    BY <1>1, <1>6 DEF IInv, Ordered, MainInStep, LoopEnds
  <2>3. QED
    BY <1>1, <2>1, <2>2, MainStepKeeps DEF MainStep
<1>7. CASE CloseClient
  <2>1. MainType'
    BY <1>7, ControllerAssumption
    DEF IInv, TypeOK, MainType, MainPCs, Ordered, MainInStep, CloseClient
  <2>2. MainInStep'
    BY <1>1, <1>7 DEF IInv, Ordered, MainInStep, CloseClient
  <2>3. QED
    BY <1>1, <2>1, <2>2, MainStepKeeps DEF MainStep
<1>8. CASE Join
  <2>1. MainType'
    BY <1>8, ControllerAssumption
    DEF IInv, TypeOK, MainType, MainPCs, Ordered, MainInStep, Join
  <2>2. MainInStep'
    BY <1>1, <1>8 DEF IInv, Ordered, MainInStep, Join
  <2>3. QED
    BY <1>1, <2>1, <2>2, MainStepKeeps DEF MainStep
<1>9. CASE StopStream
  <2>1. MainType'
    BY <1>9, ControllerAssumption
    DEF IInv, TypeOK, MainType, MainPCs, Ordered, MainInStep, StopStream
  <2>2. MainInStep'
    BY <1>1, <1>9 DEF IInv, Ordered, MainInStep, StopStream
  <2>3. QED
    BY <1>1, <2>1, <2>2, MainStepKeeps DEF MainStep
<1>10. CASE DestroyLocalController
  <2>1. MainType'
    BY <1>10, ControllerAssumption
    DEF IInv, TypeOK, MainType, MainPCs, Ordered, MainInStep, DestroyLocalController
  <2>2. MainInStep'
    BY <1>1, <1>10 DEF IInv, Ordered, MainInStep, DestroyLocalController
  <2>3. QED
    BY <1>1, <2>1, <2>2, MainStepKeeps DEF MainStep
<1>11. CASE Sigint
  <2>1. MainType'
    BY <1>11, ControllerAssumption
    DEF IInv, TypeOK, MainType, MainPCs, Ordered, MainInStep, Sigint
  <2>2. MainInStep'
    BY <1>1, <1>11 DEF IInv, Ordered, MainInStep, Sigint
  <2>3. QED
    BY <1>1, <2>1, <2>2, MainStepKeeps DEF MainStep
<1>12. CASE Sigpipe
  <2>1. MainType'
    BY <1>12, ControllerAssumption
    DEF IInv, TypeOK, MainType, MainPCs, Ordered, MainInStep, Sigpipe
  <2>2. MainInStep'
    BY <1>1, <1>12 DEF IInv, Ordered, MainInStep, Sigpipe
  <2>3. QED
    BY <1>1, <2>1, <2>2, MainStepKeeps DEF MainStep
<1>13. QED
  BY <1>2, <1>3, <1>4, <1>5, <1>6, <1>7, <1>8, <1>9, <1>10, <1>11, <1>12

\* The thread starts with running set and nothing failed.
LEMMA ConnectSucceedsKeeps == IInv /\ ConnectSucceeds => IInv'
<1> SUFFICES ASSUME IInv, ConnectSucceeds PROVE IInv'
  OBVIOUS
<1>1. /\ cpc = "none" /\ cpc' = "recv"
      /\ UNCHANGED <<ci, ready, failed, localArray, audioVars>>
  BY DEF IInv, Ordered, MainInStep, ConnectSucceeds
<1>2. MainType'
  BY DEF IInv, TypeOK, MainType, MainPCs, ConnectSucceeds
<1>3. SenderType'
  BY DEF IInv, TypeOK, SenderType, SenderPCs, ConnectSucceeds
<1>4. NetworkType'
  BY DEF IInv, TypeOK, NetworkType, ConnectSucceeds
<1>5. AudioType' /\ Whole'
  BY <1>1, Framed, WholeKept DEF IInv, TypeOK
<1>6. FailureSeen' /\ MainInStep' /\ SendsOnlyWhenReady'
  BY <1>1 DEF IInv, Ordered, FailureSeen, MainInStep, SendsOnlyWhenReady, ConnectSucceeds
<1>7. QED
  BY <1>2, <1>3, <1>4, <1>5, <1>6 DEF IInv, TypeOK, Ordered

\* running is cleared while the thread may be anywhere.
LEMMA CloseConnectionKeeps == IInv /\ CloseConnection => IInv'
<1> SUFFICES ASSUME IInv, CloseConnection PROVE IInv'
  OBVIOUS
<1>1. UNCHANGED <<cpc, ci, ready, failed, localArray, opened, audioVars, networkVars>>
  BY DEF CloseConnection
<1>2. MainType'
  BY DEF IInv, TypeOK, MainType, MainPCs, CloseConnection
<1>3. SenderType'
  BY DEF IInv, TypeOK, SenderType, CloseConnection
<1>4. AudioType' /\ NetworkType' /\ Whole'
  BY <1>1, Framed, WholeKept DEF IInv, TypeOK
<1>5. FailureSeen' /\ SendsOnlyWhenReady'
  BY <1>1 DEF IInv, Ordered, FailureSeen, SendsOnlyWhenReady, CloseConnection
<1>6. MainInStep'
  BY DEF MainInStep, CloseConnection
<1>7. QED
  BY <1>2, <1>3, <1>4, <1>5, <1>6 DEF IInv, TypeOK, Ordered

-----------------------------------------------------------------------------
\* Steps of the thread outside of GetData.
SocketMove == /\ cpc \in {"recv", "reading", "send", "writing"}
              /\ \/ cpc' = "check"
                 \/ cpc = "recv" /\ cpc' = "reading"
                 \/ cpc = "send" /\ cpc' = "writing"

\* They lead to the loop's condition with the ready byte received or with
\* running cleared.
LEMMA SocketKeeps ==
  ASSUME IInv,
         \/ BadDescriptor \/ EnterCall \/ SigintInterrupts \/ RecvReady \/ RecvFails
         \/ Write \/ WriteAfterFin \/ WriteFails
  PROVE  IInv'
<1>1. UNCHANGED <<mpc, opened, ci, localArray, audioVars>> /\ SocketMove
  BY DEF SocketMove, mainVars, BadDescriptor, EnterCall, SigintInterrupts, RecvReady,
         RecvFails, Write, WriteAfterFin, WriteFails
<1>2. MainType'
  <2>1. quit' \in BOOLEAN /\ UNCHANGED <<forever, mpc, i, leaked, opened>>
    BY Zenon DEF IInv, TypeOK, MainType, mainVars, BadDescriptor, EnterCall,
       SigintInterrupts, RecvReady, RecvFails, Write, WriteAfterFin, WriteFails
  <2>2. QED
    BY <2>1 DEF IInv, TypeOK, MainType
<1>3. SenderType'
  BY DEF IInv, TypeOK, SenderType, SenderPCs, BadDescriptor, EnterCall, SigintInterrupts,
         RecvReady, RecvFails, Write, WriteAfterFin, WriteFails
<1>4. NetworkType'
  BY ControllerAssumption
  DEF IInv, TypeOK, NetworkType, networkVars, BadDescriptor, EnterCall, SigintInterrupts,
      RecvReady, RecvFails, Write, WriteAfterFin, WriteFails
<1>5. FailureSeen' /\ SendsOnlyWhenReady'
  BY DEF IInv, Ordered, FailureSeen, SendsOnlyWhenReady, BadDescriptor, EnterCall,
         SigintInterrupts, RecvReady, RecvFails, Write, WriteAfterFin, WriteFails
<1>6. TypeOK'
  BY <1>1, <1>2, <1>3, <1>4, Framed DEF IInv, TypeOK
<1>7. Whole'
  BY <1>1, WholeKept DEF IInv, SocketMove
<1>8. MainInStep'
  BY <1>1 DEF IInv, Ordered, MainInStep, SocketMove, audioVars
<1>9. QED
  BY <1>5, <1>6, <1>7, <1>8 DEF IInv, Ordered

-----------------------------------------------------------------------------
\* The loop's condition, GetData and the callback: they touch neither main
\* nor the network, and the loop goes on only while running.
WindowStep ==
  /\ UNCHANGED <<mainVars, networkVars, running, ready, failed>>
  /\ \/ cpc' = cpc
     \/ cpc = "check" /\ (cpc' = "ended" \/ (cpc' = "lock" /\ running))
     \/ cpc \in {"lock", "copy"} /\ cpc' \in {"copy", "send"}
  /\ mpc = "exited" => apc' = "idle"

\* Such a step keeps the invariant if it keeps the windows whole.
LEMMA WindowStepKeeps ==
  ASSUME IInv, WindowStep, SenderType', AudioType', Whole'
  PROVE  IInv'
<1>1. MainType' /\ UNCHANGED <<mpc, opened>>
  BY DEF WindowStep, IInv, TypeOK, MainType, mainVars
<1>2. TypeOK'
  BY <1>1, Framed DEF WindowStep, IInv, TypeOK
<1>3. FailureSeen' /\ SendsOnlyWhenReady'
  BY DEF WindowStep, IInv, Ordered, FailureSeen, SendsOnlyWhenReady
<1>4. MainInStep'
  BY <1>1 DEF WindowStep, IInv, Ordered, MainInStep
<1>5. QED
  BY <1>2, <1>3, <1>4 DEF IInv, Ordered

\* The loop goes on only without a failure, hence with the ready byte.
LEMMA CheckKeeps == IInv /\ Check => IInv'
<1> SUFFICES ASSUME IInv, Check PROVE IInv'
  OBVIOUS
<1>1. WindowStep
  <2>1. /\ UNCHANGED <<mainVars, networkVars, running, ready, failed>>
        /\ mpc # "exited" /\ cpc = "check"
    BY DEF Alive, Check
  <2>2. CASE running /\ ~quit
    BY <2>1, <2>2 DEF WindowStep, Check
  <2>3. CASE ~(running /\ ~quit)
    <3>1. cpc' = "ended"
      BY <2>1, <2>3 DEF Check
    <3>2. QED
      BY <2>1, <3>1 DEF WindowStep
  <2>4. QED
    BY <2>2, <2>3
<1>2. SenderType'
  BY ControllerAssumption
  DEF IInv, TypeOK, SenderType, SenderPCs, AudioType, Indices, Check, audioVars
<1>3. AudioType'
  BY Framed DEF IInv, TypeOK, Check
<1>4. MutexHeld' /\ DataWhole'
  BY ControllerAssumption
  DEF IInv, TypeOK, AudioType, Whole, MutexHeld, DataWhole, Indices, Check, audioVars
<1>5. CopyWhole' /\ FrameWhole'
  BY ControllerAssumption
  DEF IInv, TypeOK, SenderType, Whole, MutexHeld, DataWhole, CopyWhole, FrameWhole, Indices,
      Check, audioVars
<1>6. QED
  BY <1>1, <1>2, <1>3, <1>4, <1>5, WindowStepKeeps DEF Whole

\* Taking the mutex: the callback is idle, so the window is whole.
LEMMA LockDataKeeps == IInv /\ LockData => IInv'
<1> SUFFICES ASSUME IInv, LockData PROVE IInv'
  OBVIOUS
<1>1. WindowStep
  BY DEF IInv, Ordered, MainInStep, Alive, WindowStep, LockData
<1>2. SenderType'
  BY ControllerAssumption
  DEF IInv, TypeOK, SenderType, SenderPCs, AudioType, Indices, LockData
<1>3. AudioType'
  BY ControllerAssumption DEF IInv, TypeOK, AudioType, Indices, LockData
<1>4. MutexHeld' /\ DataWhole'
  BY ControllerAssumption
  DEF IInv, TypeOK, AudioType, Whole, MutexHeld, DataWhole, Indices, LockData
<1>5. CopyWhole' /\ FrameWhole'
  BY ControllerAssumption
  DEF IInv, TypeOK, SenderType, Whole, MutexHeld, DataWhole, CopyWhole, FrameWhole, Indices,
      LockData
<1>6. QED
  BY <1>1, <1>2, <1>3, <1>4, <1>5, WindowStepKeeps DEF Whole

\* The element copied is one of the current window.
LEMMA CopyDataKeeps == IInv /\ CopyData => IInv'
<1> SUFFICES ASSUME IInv, CopyData PROVE IInv'
  OBVIOUS
<1>1. WindowStep
  BY DEF IInv, Ordered, MainInStep, Alive, WindowStep, CopyData, audioVars
<1>2. SenderType'
  BY ControllerAssumption
  DEF IInv, TypeOK, SenderType, SenderPCs, AudioType, Indices, CopyData, audioVars
<1>3. AudioType'
  BY Framed DEF IInv, TypeOK, CopyData
<1>4. MutexHeld' /\ DataWhole'
  BY ControllerAssumption
  DEF IInv, TypeOK, AudioType, Whole, MutexHeld, DataWhole, Indices, CopyData, audioVars
<1>5. CopyWhole' /\ FrameWhole'
  <2>1. /\ cpc = "copy" /\ cpc' = "copy" /\ ci \in Nat /\ ci < N /\ ci' = ci + 1
        /\ window' = window /\ N \in Nat
    BY ControllerAssumption DEF IInv, TypeOK, SenderType, CopyData, audioVars
  <2>2. fft_data[ci] = window
    BY <2>1 DEF IInv, TypeOK, AudioType, Whole, MutexHeld, DataWhole, Indices
  <2>3. ASSUME NEW k \in Indices, k < ci' PROVE localArray'[k] = window
    BY <2>1, <2>2, <2>3 DEF IInv, TypeOK, SenderType, Whole, CopyWhole, CopyData, Indices
  <2>4. QED
    BY <2>1, <2>3 DEF CopyWhole, FrameWhole, Indices
<1>6. QED
  BY <1>1, <1>2, <1>3, <1>4, <1>5, WindowStepKeeps DEF Whole

\* All elements have been copied, and they are those of one window.
LEMMA UnlockDataKeeps == IInv /\ UnlockData => IInv'
<1> SUFFICES ASSUME IInv, UnlockData PROVE IInv'
  OBVIOUS
<1>1. WindowStep
  BY DEF IInv, Ordered, MainInStep, Alive, WindowStep, UnlockData
<1>2. SenderType'
  BY ControllerAssumption
  DEF IInv, TypeOK, SenderType, SenderPCs, AudioType, Indices, UnlockData
<1>3. AudioType'
  BY ControllerAssumption DEF IInv, TypeOK, AudioType, Indices, UnlockData
<1>4. MutexHeld' /\ DataWhole'
  BY ControllerAssumption
  DEF IInv, TypeOK, AudioType, Whole, MutexHeld, DataWhole, Indices, UnlockData
<1>5. CopyWhole' /\ FrameWhole'
  BY ControllerAssumption
  DEF IInv, TypeOK, SenderType, Whole, MutexHeld, DataWhole, CopyWhole, FrameWhole, Indices,
      UnlockData
<1>6. QED
  BY <1>1, <1>2, <1>3, <1>4, <1>5, WindowStepKeeps DEF Whole

\* A callback starts while nobody copies.
LEMMA AudioLockKeeps == IInv /\ AudioLock => IInv'
<1> SUFFICES ASSUME IInv, AudioLock PROVE IInv'
  OBVIOUS
<1> (window % Windows) + 1 \in 0 .. Windows
  BY ControllerAssumption DEF IInv, TypeOK, AudioType
<1>1. WindowStep
  BY DEF IInv, Ordered, MainInStep, Alive, WindowStep, AudioLock, senderVars
<1>2. SenderType'
  BY Framed DEF IInv, TypeOK, AudioLock
<1>3. AudioType'
  BY ControllerAssumption DEF IInv, TypeOK, AudioType, Indices, AudioLock
<1>4. MutexHeld' /\ DataWhole'
  BY ControllerAssumption
  DEF IInv, TypeOK, AudioType, Whole, MutexHeld, DataWhole, Indices, AudioLock, senderVars
<1>5. CopyWhole' /\ FrameWhole'
  BY ControllerAssumption
  DEF IInv, TypeOK, SenderType, Whole, MutexHeld, DataWhole, CopyWhole, FrameWhole, Indices,
      AudioLock, senderVars
<1>6. QED
  BY <1>1, <1>2, <1>3, <1>4, <1>5, WindowStepKeeps DEF Whole

\* One more element of the window.
LEMMA AudioElementKeeps == IInv /\ AudioElement => IInv'
<1> SUFFICES ASSUME IInv, AudioElement PROVE IInv'
  OBVIOUS
<1>1. WindowStep
  BY DEF IInv, Ordered, MainInStep, Alive, WindowStep, AudioElement, senderVars
<1>2. SenderType'
  BY Framed DEF IInv, TypeOK, AudioElement
<1>3. AudioType'
  BY ControllerAssumption DEF IInv, TypeOK, AudioType, Indices, AudioElement
<1>4. MutexHeld' /\ DataWhole'
  BY ControllerAssumption
  DEF IInv, TypeOK, AudioType, Whole, MutexHeld, DataWhole, Indices, AudioElement, senderVars
<1>5. CopyWhole' /\ FrameWhole'
  BY ControllerAssumption
  DEF IInv, TypeOK, SenderType, Whole, MutexHeld, DataWhole, CopyWhole, FrameWhole, Indices,
      AudioElement, senderVars
<1>6. QED
  BY <1>1, <1>2, <1>3, <1>4, <1>5, WindowStepKeeps DEF Whole

\* The window is complete.
LEMMA AudioUnlockKeeps == IInv /\ AudioUnlock => IInv'
<1> SUFFICES ASSUME IInv, AudioUnlock PROVE IInv'
  OBVIOUS
<1>1. WindowStep
  BY DEF IInv, Ordered, MainInStep, Alive, WindowStep, AudioUnlock, senderVars
<1>2. SenderType'
  BY Framed DEF IInv, TypeOK, AudioUnlock
<1>3. AudioType'
  BY ControllerAssumption DEF IInv, TypeOK, AudioType, Indices, AudioUnlock
<1>4. MutexHeld' /\ DataWhole'
  BY ControllerAssumption
  DEF IInv, TypeOK, AudioType, Whole, MutexHeld, DataWhole, Indices, AudioUnlock, senderVars
<1>5. CopyWhole' /\ FrameWhole'
  BY ControllerAssumption
  DEF IInv, TypeOK, SenderType, Whole, MutexHeld, DataWhole, CopyWhole, FrameWhole, Indices,
      AudioUnlock, senderVars
<1>6. QED
  BY <1>1, <1>2, <1>3, <1>4, <1>5, WindowStepKeeps DEF Whole

-----------------------------------------------------------------------------
\* The server touches nothing of what the invariant relates.
LEMMA ServerKeeps ==
  ASSUME IInv,
         ServerStarts \/ ServerStops \/ SessionGone \/ ServerAnswers \/ ServerReads
  PROVE  IInv'
<1>1. UNCHANGED <<mainVars, senderVars, audioVars>>
  BY DEF ServerStarts, ServerStops, SessionGone, ServerAnswers, ServerReads
<1>2. NetworkType'
  <2>1. server' \in BOOLEAN /\ answered' \in BOOLEAN
    BY Zenon DEF IInv, TypeOK, NetworkType,
       ServerStarts, ServerStops, SessionGone, ServerAnswers, ServerReads
  <2>2. flight' \in 0 .. Buffer
    BY ControllerAssumption DEF IInv, TypeOK, NetworkType,
       ServerStarts, ServerStops, SessionGone, ServerAnswers, ServerReads
  <2>3. conn' \in {"none", "open", "silent", "fin", "reset", "broken"}
    BY DEF IInv, TypeOK, NetworkType,
       ServerStarts, ServerStops, SessionGone, ServerAnswers, ServerReads
  <2>4. QED
    BY <2>1, <2>2, <2>3 DEF NetworkType
<1>3. MainType' /\ UNCHANGED <<mpc, opened>>
  BY <1>1 DEF IInv, TypeOK, MainType, mainVars
<1>4. UNCHANGED <<cpc, ci, running, ready, failed, localArray>>
  BY <1>1 DEF senderVars
<1>5. TypeOK' /\ Whole'
  BY <1>1, <1>2, <1>3, <1>4, Framed, WholeKept DEF IInv, TypeOK
<1>6. Ordered'
  BY <1>1, <1>3, <1>4
  DEF IInv, Ordered, FailureSeen, MainInStep, SendsOnlyWhenReady, audioVars
<1>7. QED
  BY <1>5, <1>6 DEF IInv

\* The strengthened invariant, for every number of elements, turns,
\* descriptors and buffered frames.
THEOREM Invariance == Spec => []IInv
<1>1. Init => IInv
  <2> SUFFICES ASSUME Init PROVE IInv
    OBVIOUS
  <2>1. MainType
    <3>1. forever \in BOOLEAN /\ quit \in BOOLEAN /\ opened \in BOOLEAN /\ ~opened
      BY Zenon DEF Init
    <3>2. mpc \in MainPCs /\ i = 0 /\ leaked = 0
      BY Zenon DEF Init, MainPCs
    <3>3. QED
      BY <3>1, <3>2, ControllerAssumption DEF MainType
  <2>2. SenderType
    <3>1. running \in BOOLEAN /\ ready \in BOOLEAN /\ failed \in BOOLEAN
      BY Zenon DEF Init
    <3>2. cpc \in SenderPCs /\ ci = 0 /\ localArray = [k \in Indices |-> 0]
      BY Zenon DEF Init, SenderPCs
    <3>3. QED
      BY <3>1, <3>2, ControllerAssumption DEF SenderType
  <2>3. AudioType
    BY ControllerAssumption DEF Init, AudioType
  <2>4. NetworkType
    <3>1. server \in BOOLEAN /\ answered \in BOOLEAN
      BY Zenon DEF Init
    <3>2. conn = "none" /\ flight = 0
      BY Zenon DEF Init
    <3>3. QED
      BY <3>1, <3>2, ControllerAssumption DEF NetworkType
  <2>5. Whole
    BY ControllerAssumption DEF Init, Whole, MutexHeld, DataWhole, CopyWhole, FrameWhole
  <2>6. Ordered
    BY DEF Init, Ordered, FailureSeen, MainInStep, SendsOnlyWhenReady
  <2>7. QED
    BY <2>1, <2>2, <2>3, <2>4, <2>5, <2>6 DEF IInv, TypeOK
<1>2. IInv /\ UNCHANGED vars => IInv'
  <2> SUFFICES ASSUME IInv, UNCHANGED vars PROVE IInv'
    OBVIOUS
  <2>1. UNCHANGED <<mainVars, senderVars, audioVars, networkVars>>
    BY DEF vars
  <2>2. MainType' /\ MainInStep'
    BY <2>1 DEF IInv, TypeOK, Ordered, MainType, MainInStep, mainVars, senderVars, audioVars
  <2>3. QED
    BY <2>1, <2>2, MainStepKeeps DEF MainStep
<1>3. IInv /\ [Next]_vars => IInv'
  BY <1>2, MainKeeps, ConnectSucceedsKeeps, CloseConnectionKeeps, SocketKeeps, CheckKeeps,
     LockDataKeeps, CopyDataKeeps, UnlockDataKeeps, AudioLockKeeps, AudioElementKeeps,
     AudioUnlockKeeps, ServerKeeps
  DEF Next, Main, Sender, Audio
<1>4. QED
  BY <1>1, <1>3, PTL DEF Spec

\* The locals of main and of the sender, the audio buffers and the connection
\* keep their types: no index leaves the window, no thread its program.
THEOREM TypeCorrect == Spec => []TypeOK
<1>1. IInv => TypeOK
  BY DEF IInv
<1>2. QED
  BY <1>1, Invariance, PTL

\* No window that is sent is a mixture of two, whatever the callback's timing.
THEOREM FramesWhole == Spec => []FrameWhole
BY Invariance, PTL DEF IInv, Whole

\* No window is sent before the ready byte or after a failed call.
THEOREM ReadyFirst == Spec => []SendsOnlyWhenReady
BY Invariance, PTL DEF IInv, Ordered

\* The LocalController is destroyed when nobody uses it any more.
THEOREM NoUseAfterDestruction == Spec => []LocalControllerOutlivesUse
<1>1. IInv => LocalControllerOutlivesUse
  BY DEF IInv, TypeOK, AudioType, Whole, MutexHeld, Ordered, MainInStep,
         LocalControllerOutlivesUse
<1>2. QED
  BY <1>1, Invariance, PTL
=============================================================================
