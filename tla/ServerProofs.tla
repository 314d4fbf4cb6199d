---------------------------- MODULE ServerProofs ----------------------------
(***************************************************************************)
(* Proofs about the server, for any number of controllers, channels,       *)
(* descriptors and buffered frames.                                        *)
(*                                                                         *)
(* DescriptorsKept needs that a controller waits or has a Connection, and  *)
(* never both or twice; CleanShutdown that every open descriptor belongs   *)
(* to an element that is not destroyed yet, and which threads have stopped *)
(* at each step of main; SessionEndsForCause that running is cleared, in a *)
(* Connection that was never moved, only for a cause.  That sessions and   *)
(* channels are kept in step is an invariant of its own, on top of these.  *)
(***************************************************************************)
EXTENDS Server, Integers, FiniteSetTheorems, SequenceTheorems, TLAPS

USE DEF BadFd, Fds, MovedFromFd, Goto

Stopping == {"destroy", "joinSession", "exited"}

\* A controller in the backlog waits there once, and for its Connection.
Backlogged ==
  /\ \A k \in DOMAIN backlog :
       peer[backlog[k]] \in {"queued", "closed"} /\ pc[backlog[k]] = "none"
  /\ \A j, k \in DOMAIN backlog : backlog[j] = backlog[k] => j = k
  /\ \A c \in Clients : peer[c] = "idle" => pc[c] = "none"

\* The controllers with a thread are those in the vector, each there once.
Threaded ==
  /\ IsFiniteSet(Elements)
  /\ \A c \in Clients : pc[c] = "none" <=> c \notin Elements
  /\ \A j, k \in DOMAIN clients : clients[j] = clients[k] => j = k

\* Every open descriptor is that of an element that is not destroyed.
OpenOwned ==
  \A f \in Fds : open[f] # Nobody =>
    \E k \in DOMAIN clients : k > destroyed /\ fd[clients[k]] = f

\* What main has done before each of its steps.
MainInOrder ==
  /\ mpc = "wait" <=> listening
  /\ mpc # "wait" => quit
  /\ mpc \in {"wait", "stop"} => (accepting <=> apc = "accept")
  /\ mpc \in Stopping => apc = "stopped"
  /\ mpc \in {"wait", "stop", "join"} => destroyed = 0
  /\ mpc = "joinSession" => destroyed > 0
  /\ mpc = "exited" => destroyed = Len(clients)

\* The sessions of the destroyed elements have ended, but for the last one,
\* which main may be waiting for.
Joined ==
  \A k \in DOMAIN clients :
    k < destroyed \/ (k = destroyed /\ mpc # "joinSession") => pc[clients[k]] = "done"

\* Only a session that serves its controller has a channel.
ChannelsHeld == \A c \in Clients : got[c] # ChannelCount => pc[c] \in Serving

\* In a Connection that was never moved, running is cleared for a cause.
Cause(c) == quit \/ dangling[c] \/ (peer[c] = "closed" /\ inbox[c] = 0)
ClearedForCause == \A c \in Clients : pc[c] # "none" /\ ~running[c] => Cause(c)

Vector == Backlogged /\ Threaded /\ DescriptorsKept /\ OpenOwned
Order == MainInOrder /\ Joined /\ AcceptsUntilFull

IInv == TypeOK /\ Vector /\ Order /\ ChannelsHeld /\ ClearedForCause

-----------------------------------------------------------------------------
\* The invariant holds in the initial states.
LEMMA InitEstablishes == Init => IInv
<1> SUFFICES ASSUME Init PROVE IInv
  OBVIOUS
<1> USE ServerAssumption
<1>1. Elements = {}
  BY DEF Init, Elements
<1>2. IsFiniteSet(Elements) /\ Cardinality(Elements) = 0
  BY <1>1, FS_EmptySet
<1>3. TypeOK
  <2>1. ClientType /\ AcceptType
    BY DEF Init, ClientType, AcceptType
  <2>2. VectorType
    BY <1>2 DEF Init, VectorType
  <2>3. SessionType /\ PoolType
    BY DEF Init, Pool!Init, SessionType, PoolType, PCs
  <2>4. MainType
    BY DEF Init, MainType, MainPCs
  <2> QED  BY <2>1, <2>2, <2>3, <2>4 DEF TypeOK
<1>4. Vector
  BY <1>1, <1>2 DEF Init, Vector, Backlogged, Threaded, DescriptorsKept, OpenOwned
<1>5. Order
  BY DEF Init, Order, MainInOrder, Joined, AcceptsUntilFull, Stopping
<1>6. ChannelsHeld /\ ClearedForCause
  BY DEF Init, Pool!Init, ChannelsHeld, ClearedForCause
<1> QED  BY <1>3, <1>4, <1>5, <1>6 DEF IInv

-----------------------------------------------------------------------------
\* The session threads

\* A running session loses its descriptor, unless its Connection moved, only
\* to the destructors, which run after SIGINT.
LEMMA LostDescriptor ==
  ASSUME IInv, NEW c \in Clients, pc[c] # "none", ~dangling[c], ~DescriptorOpen(c)
  PROVE  quit
<1> USE DEF IInv, TypeOK, VectorType, MainType
<1>1. c \in Elements
  BY DEF Vector, Threaded
<1>2. PICK k \in DOMAIN clients : clients[k] = c
  BY <1>1 DEF Elements
<1>3. k \in 1 .. Len(clients)
  BY <1>2
<1>4. ~(k > destroyed)
  BY <1>2 DEF Vector, DescriptorsKept, DescriptorOpen
<1>5. destroyed # 0
  BY <1>3, <1>4
<1> QED  BY <1>5 DEF Order, MainInOrder, MainPCs, Stopping

\* A step of a thread that runs disturbs neither the vector nor the order in
\* which main stops the others.
LEMMA SessionFrame ==
  ASSUME IInv, NEW c \in Clients, pc[c] \notin {"none", "done"},
         NEW p \in PCs \ {"none"}, Goto(c, p), quit' \in BOOLEAN, quit => quit',
         UNCHANGED <<peer, acceptVars, vectorVars, open, mpc, destroyed>>
  PROVE  /\ Vector' /\ Order'
         /\ AcceptType' /\ VectorType' /\ MainType' /\ pc' \in [Clients -> PCs]
<1> USE DEF acceptVars, vectorVars, IInv
<1>1. pc \in [Clients -> PCs] /\ pc' \in [Clients -> PCs]
  BY DEF TypeOK, SessionType
<1>2. \A d \in Clients : /\ pc'[d] = "none" <=> pc[d] = "none"
                         /\ pc[d] = "done" => pc'[d] = "done"
  BY <1>1
<1>3. Elements' = Elements /\ FreeFds' = FreeFds
  BY DEF Elements, FreeFds
<1>4. AcceptType' /\ VectorType' /\ MainType'
  BY <1>3 DEF TypeOK, AcceptType, VectorType, MainType
<1>5. /\ \A k \in DOMAIN backlog : backlog[k] \in Clients
      /\ \A k \in DOMAIN clients : clients[k] \in Clients
  BY DEF TypeOK, AcceptType, VectorType
<1>6. Backlogged' /\ Threaded'
  BY <1>2, <1>3, <1>5 DEF Vector, Backlogged, Threaded
<1>7. DescriptorsKept' /\ OpenOwned'
  BY DEF Vector, DescriptorsKept, OpenOwned
<1>8. MainInOrder' /\ AcceptsUntilFull'
  BY <1>3 DEF Order, MainInOrder, AcceptsUntilFull, Stopping
<1>9. Joined'
  BY <1>2, <1>5 DEF Order, Joined
<1> QED  BY <1>1, <1>4, <1>6, <1>7, <1>8, <1>9 DEF Vector, Order

\* Causes last, so only the thread that steps has to have one for what it
\* clears.
LEMMA CausesLast ==
  ASSUME IInv, NEW c \in Clients, pc[c] # "none", NEW p, Goto(c, p), quit => quit',
         UNCHANGED <<peer, dangling>>,
         \A d \in Clients \ {c} : running'[d] = running[d] /\ inbox'[d] = inbox[d],
         ~running'[c] => Cause(c)'
  PROVE  ClearedForCause'
<1>1. pc \in [Clients -> PCs]
  BY DEF IInv, TypeOK, SessionType
<1>2. ASSUME NEW d \in Clients \ {c}, pc'[d] # "none", ~running'[d] PROVE Cause(d)'
  <2>1. pc[d] # "none" /\ ~running[d]
    BY <1>1, <1>2
  <2>2. Cause(d)
    BY <2>1 DEF IInv, ClearedForCause
  <2> QED  BY <2>2 DEF Cause
<1> QED  BY <1>2 DEF ClearedForCause

\* A thread holds its channel while it serves.
LEMMA ChannelKept ==
  ASSUME IInv, NEW c \in Clients, NEW p \in PCs, Goto(c, p), got' = got,
         pc[c] \in Serving => p \in Serving
  PROVE  ChannelsHeld'
<1>1. pc \in [Clients -> PCs]
  BY DEF IInv, TypeOK, SessionType
<1> QED  BY <1>1 DEF IInv, ChannelsHeld

\* A session's step keeps the invariant.
LEMMA SessionKeeps ==
  ASSUME IInv, NEW c \in Clients, Session(c) PROVE IInv'
<1> USE ServerAssumption
<1> USE DEF PCs, clientVars, mainVars, poolVars
<1>t. /\ ClientType /\ AcceptType /\ VectorType /\ SessionType /\ MainType /\ PoolType
  BY DEF IInv, TypeOK
<1>a. CASE Construct(c)
  <2>1. UNCHANGED <<running, peer, ready, inbox>> /\ Goto(c, "ready") /\ pc[c] = "start"
    BY <1>a DEF Construct
  <2>2. asked' = asked /\ \E ch \in 0 .. (ChannelCount - 1) :
          got' = [got EXCEPT ![c] = ch] /\ stage' = [stage EXCEPT ![c] = "in"]
    BY <1>a DEF Construct, Pool!AcquireDrum, Pool!AcquireLowest, Pool!Free, Pool!Channels
  <2>3. Vector' /\ Order' /\ AcceptType' /\ VectorType' /\ MainType' /\ pc' \in [Clients -> PCs]
    BY <1>a, <1>t, <2>1, SessionFrame DEF Construct, MainType
  <2>4. ClientType' /\ PoolType' /\ SessionType'
    BY <1>t, <2>1, <2>2, <2>3 DEF ClientType, PoolType, SessionType
  <2>5. ChannelsHeld'
    BY <1>t, <2>1, <2>2 DEF IInv, ChannelsHeld, Serving, SessionType, PoolType
  <2>6. ~running'[c] => Cause(c)'
    BY <1>a, <2>1 DEF Construct, IInv, ClearedForCause, Cause, vectorVars
  <2>7. ClearedForCause'
    BY <1>a, <2>1, <2>6, CausesLast DEF Construct, vectorVars
  <2> QED  BY <2>3, <2>4, <2>5, <2>7 DEF IInv, TypeOK
<1>b. CASE Throw(c)
  <2>1. /\ UNCHANGED <<running, peer, ready, inbox, got, asked>> /\ Goto(c, "done") /\ pc[c] = "start"
        /\ stage' = [stage EXCEPT ![c] = "refused"]
    BY <1>b DEF Throw, Pool!Refuse
  <2>3. Vector' /\ Order' /\ AcceptType' /\ VectorType' /\ MainType' /\ pc' \in [Clients -> PCs]
    BY <1>b, <1>t, <2>1, SessionFrame DEF Throw, MainType
  <2>4. ClientType' /\ PoolType' /\ SessionType'
    BY <1>t, <2>1, <2>3 DEF ClientType, PoolType, SessionType
  <2>5. ChannelsHeld'
    BY <2>1, ChannelKept DEF Serving
  <2>6. ~running'[c] => Cause(c)'
    BY <1>b, <2>1 DEF Throw, IInv, ClearedForCause, Cause, vectorVars
  <2>7. ClearedForCause'
    BY <1>b, <2>1, <2>6, CausesLast DEF Throw, vectorVars
  <2> QED  BY <2>3, <2>4, <2>5, <2>7 DEF IInv, TypeOK
<1>c. CASE SendReady(c) \/ Check(c) \/ Recv(c) \/ ReadFrame(c)
  <2>1. PICK p \in Serving : Goto(c, p)
    BY <1>c DEF SendReady, Check, Recv, ReadFrame, Serving
  <2>2. pc[c] \in Serving
    BY <1>c DEF SendReady, Check, Recv, ReadFrame, Serving
  <2>3. UNCHANGED <<peer, acceptVars, vectorVars, running, open, mainVars, poolVars>>
    BY <1>c DEF SendReady, Check, Recv, ReadFrame
  <2>4. /\ ready' \in [Clients -> BOOLEAN] /\ inbox' \in [Clients -> 0 .. Buffer]
        /\ \A d \in Clients \ {c} : inbox'[d] = inbox[d]
        /\ inbox[c] = 0 => inbox'[c] = 0
    <3>1. CASE SendReady(c)
      BY <1>t, <3>1 DEF SendReady, ReadySent, ClientType
    <3>2. CASE Check(c) \/ Recv(c)
      BY <1>t, <3>2 DEF Check, Recv, ClientType
    <3>3. CASE ReadFrame(c)
      BY <1>t, <3>3 DEF ReadFrame, ClientType
    <3> QED  BY <1>c, <3>1, <3>2, <3>3
  <2>5. Vector' /\ Order' /\ AcceptType' /\ VectorType' /\ MainType' /\ pc' \in [Clients -> PCs]
    BY <1>t, <2>1, <2>2, <2>3, SessionFrame DEF Serving, MainType
  <2>6. ClientType' /\ PoolType' /\ SessionType'
    BY <1>t, <2>3, <2>4, <2>5 DEF ClientType, PoolType, SessionType
  <2>7. ChannelsHeld'
    BY <2>1, <2>3, ChannelKept DEF Serving
  <2>8. ~running'[c] => Cause(c)'
    BY <2>2, <2>3, <2>4 DEF IInv, ClearedForCause, Cause, vectorVars, Serving
  <2>9. ClearedForCause'
    BY <2>1, <2>2, <2>3, <2>4, <2>8, CausesLast DEF vectorVars, Serving
  <2> QED  BY <2>5, <2>6, <2>7, <2>9 DEF IInv, TypeOK
<1>d. CASE SendReadyFails(c) \/ RecvFails(c) \/ ReadEof(c)
  <2>1. /\ Goto(c, "check") /\ pc[c] \in Serving /\ Fail(c)
        /\ UNCHANGED <<clientVars, acceptVars, vectorVars, open, mainVars, poolVars>>
    BY <1>d DEF SendReadyFails, RecvFails, ReadEof, Serving
  <2>2. /\ running' \in [Clients -> BOOLEAN]
        /\ \A d \in Clients \ {c} : running'[d] = running[d]
    BY <1>t, <2>1 DEF Fail, SessionType
  <2>3. Vector' /\ Order' /\ AcceptType' /\ VectorType' /\ MainType' /\ pc' \in [Clients -> PCs]
    BY <1>t, <2>1, SessionFrame DEF Serving, MainType
  <2>4. ClientType' /\ PoolType' /\ SessionType'
    BY <1>t, <2>1, <2>2, <2>3 DEF ClientType, PoolType, SessionType
  <2>5. ChannelsHeld'
    BY <2>1, ChannelKept DEF Serving
  <2>6. ~dangling[c] /\ ~ReadEof(c) => quit
    BY <1>d, <2>1, LostDescriptor DEF SendReadyFails, RecvFails, Serving
  <2>7. Cause(c)
    BY <2>6 DEF Cause, ReadEof, AtEof
  <2>8. ClearedForCause'
    BY <2>1, <2>2, <2>7, CausesLast DEF vectorVars, Serving, Cause
  <2> QED  BY <2>3, <2>4, <2>5, <2>8 DEF IInv, TypeOK
<1>e. CASE Release(c)
  <2>1. /\ Goto(c, "done") /\ pc[c] = "release"
        /\ UNCHANGED <<clientVars, acceptVars, vectorVars, running, open, mainVars, asked>>
        /\ stage' = [stage EXCEPT ![c] = "gone"]
        /\ got' = [got EXCEPT ![c] = ChannelCount]
    BY <1>e DEF Release, Pool!Release
  <2>3. Vector' /\ Order' /\ AcceptType' /\ VectorType' /\ MainType' /\ pc' \in [Clients -> PCs]
    BY <1>t, <2>1, SessionFrame DEF MainType
  <2>4. ClientType' /\ PoolType' /\ SessionType'
    BY <1>t, <2>1, <2>3 DEF ClientType, PoolType, SessionType
  <2>5. ChannelsHeld'
    BY <1>t, <2>1 DEF IInv, ChannelsHeld, Serving, SessionType, PoolType
  <2>6. ~running'[c] => Cause(c)'
    BY <2>1 DEF IInv, ClearedForCause, Cause, vectorVars
  <2>7. ClearedForCause'
    BY <2>1, <2>6, CausesLast DEF vectorVars
  <2> QED  BY <2>3, <2>4, <2>5, <2>7 DEF IInv, TypeOK
<1> QED  BY <1>a, <1>b, <1>c, <1>d, <1>e DEF Session

-----------------------------------------------------------------------------
\* The controllers, and SIGINT

\* A step of a controller, and SIGINT, keep the invariant.
LEMMA OutsideKeeps ==
  ASSUME IInv,
         Sigint \/ \E c \in Clients : Connect(c) \/ SendFrame(c) \/ Close(c)
  PROVE  IInv'
<1> USE ServerAssumption
<1> USE DEF clientVars, acceptVars, vectorVars, mainVars, poolVars
<1>t. /\ ClientType /\ AcceptType /\ VectorType /\ SessionType /\ MainType /\ PoolType
  BY DEF IInv, TypeOK
<1>1. /\ UNCHANGED <<listening, accepting, apc, vectorVars, running, open, pc, mpc,
                     destroyed, poolVars>>
  BY DEF Sigint, Connect, SendFrame, Close
<1>q. quit' = quit \/ quit' = TRUE
  BY DEF Sigint, Connect, SendFrame, Close
<1>2. Elements' = Elements /\ FreeFds' = FreeFds
  BY <1>1 DEF Elements, FreeFds
<1>3. VectorType' /\ SessionType' /\ MainType' /\ PoolType'
  <2>1. VectorType'
    BY <1>t, <1>1, <1>2 DEF VectorType
  <2>2. SessionType' /\ PoolType'
    BY <1>t, <1>1 DEF SessionType, PoolType
  <2>3. MainType'
    BY <1>t, <1>1, <1>q DEF MainType
  <2> QED  BY <2>1, <2>2, <2>3
<1>4. Threaded' /\ DescriptorsKept' /\ OpenOwned'
  BY <1>1, <1>2 DEF IInv, Vector, Threaded, DescriptorsKept, OpenOwned
<1>5. Order'
  <2>1. MainInOrder'
    <3>1. UNCHANGED <<listening, accepting, apc, mpc, destroyed, clients>>
      BY <1>1
    <3> QED  BY <1>q, <3>1 DEF IInv, Order, MainInOrder
  <2>2. Joined'
    BY <1>1 DEF IInv, Order, Joined
  <2>3. AcceptsUntilFull'
    BY <1>1, <1>2, <1>q DEF IInv, Order, AcceptsUntilFull
  <2> QED  BY <2>1, <2>2, <2>3 DEF Order
<1>6. ChannelsHeld'
  BY <1>1 DEF IInv, ChannelsHeld
<1>7. ClientType' /\ AcceptType' /\ Backlogged' /\ ClearedForCause'
  <2>1. CASE Sigint
    BY <1>t, <2>1 DEF Sigint, IInv, Vector, ClientType, AcceptType, Backlogged,
                      ClearedForCause, Cause
  <2>2. ASSUME NEW c \in Clients, Connect(c)
        PROVE  ClientType' /\ AcceptType' /\ Backlogged' /\ ClearedForCause'
    <3>1. /\ peer[c] = "idle" /\ pc[c] = "none"
          /\ peer' = [peer EXCEPT ![c] = "queued"]
          /\ UNCHANGED <<ready, inbox, quit>>
      BY <2>2 DEF Connect, IInv, Vector, Backlogged
    <3>2. /\ backlog' \in Seq(Clients)
          /\ Len(backlog') = Len(backlog) + 1
          /\ \A k \in 1 .. Len(backlog) : backlog'[k] = backlog[k]
          /\ backlog'[Len(backlog) + 1] = c
      BY <2>2, <1>t, AppendProperties DEF Connect, AcceptType
    <3>3. \A k \in DOMAIN backlog : backlog[k] # c
      BY <3>1 DEF IInv, Vector, Backlogged
    <3>4. ClientType' /\ AcceptType'
      BY <1>t, <1>1, <3>1, <3>2 DEF ClientType, AcceptType
    <3>5. Backlogged'
      <4>1. ASSUME NEW k \in DOMAIN backlog'
            PROVE  peer'[backlog'[k]] \in {"queued", "closed"} /\ pc'[backlog'[k]] = "none"
        <5>1. CASE k = Len(backlog) + 1
          BY <1>t, <1>1, <3>1, <3>2, <5>1 DEF ClientType
        <5>2. CASE k \in 1 .. Len(backlog)
          <6>1. backlog[k] \in Clients /\ backlog[k] # c
            BY <1>t, <3>3, <5>2 DEF AcceptType
          <6> QED  BY <1>t, <1>1, <3>1, <3>2, <5>2, <6>1
                   DEF IInv, Vector, Backlogged, ClientType
        <5> QED  BY <1>t, <3>2, <5>1, <5>2 DEF AcceptType
      <4>2. ASSUME NEW j \in DOMAIN backlog', NEW k \in DOMAIN backlog',
                   backlog'[j] = backlog'[k]
            PROVE  j = k
        <5>1. /\ j \in 1 .. Len(backlog) \/ j = Len(backlog) + 1
              /\ k \in 1 .. Len(backlog) \/ k = Len(backlog) + 1
          BY <1>t, <3>2 DEF AcceptType
        <5> QED  BY <1>t, <3>2, <3>3, <4>2, <5>1 DEF IInv, Vector, Backlogged, AcceptType
      <4>3. \A d \in Clients : peer'[d] = "idle" => pc'[d] = "none"
        BY <1>t, <1>1, <3>1 DEF IInv, Vector, Backlogged, ClientType
      <4> QED  BY <4>1, <4>2, <4>3 DEF Backlogged
    <3>6. ClearedForCause'
      BY <1>t, <1>1, <3>1 DEF IInv, ClearedForCause, Cause, ClientType
    <3> QED  BY <3>4, <3>5, <3>6
  <2>3. ASSUME NEW c \in Clients, SendFrame(c)
        PROVE  ClientType' /\ AcceptType' /\ Backlogged' /\ ClearedForCause'
    <3>1. ClientType' /\ AcceptType'
      BY <1>t, <2>3 DEF SendFrame, ClientType, AcceptType
    <3>2. Backlogged'
      BY <2>3 DEF SendFrame, IInv, Vector, Backlogged
    <3>3. ClearedForCause'
      BY <1>t, <2>3 DEF SendFrame, IInv, ClearedForCause, Cause, ClientType
    <3> QED  BY <3>1, <3>2, <3>3
  <2>4. ASSUME NEW c \in Clients, Close(c)
        PROVE  ClientType' /\ AcceptType' /\ Backlogged' /\ ClearedForCause'
    <3>1. ClientType' /\ AcceptType'
      BY <1>t, <2>4 DEF Close, ClientType, AcceptType
    <3>2. Backlogged'
      BY <1>t, <2>4 DEF Close, IInv, Vector, Backlogged, ClientType, AcceptType
    <3>3. ClearedForCause'
      BY <1>t, <2>4 DEF Close, IInv, ClearedForCause, Cause, ClientType
    <3> QED  BY <3>1, <3>2, <3>3
  <2> QED  BY <2>1, <2>2, <2>3, <2>4
<1> QED  BY <1>3, <1>4, <1>5, <1>6, <1>7 DEF IInv, TypeOK, Vector

\* SIGINT that interrupts a read keeps the invariant.
LEMMA InterruptKeeps ==
  ASSUME IInv, NEW c \in Clients, SigintInterrupts(c) PROVE IInv'
<1> USE DEF clientVars, poolVars
<1>t. /\ ClientType /\ SessionType /\ PoolType
  BY DEF IInv, TypeOK
<1>1. /\ Goto(c, "check") /\ pc[c] = "reading" /\ Fail(c) /\ quit' = TRUE
      /\ UNCHANGED <<clientVars, acceptVars, vectorVars, open, mpc, destroyed, poolVars>>
  BY DEF SigintInterrupts
<1>2. /\ running' \in [Clients -> BOOLEAN]
      /\ \A d \in Clients \ {c} : running'[d] = running[d]
  BY <1>t, <1>1 DEF Fail, SessionType
<1>3. Vector' /\ Order' /\ AcceptType' /\ VectorType' /\ MainType' /\ pc' \in [Clients -> PCs]
  BY <1>1, SessionFrame DEF PCs
<1>4. ClientType' /\ PoolType' /\ SessionType'
  BY <1>t, <1>1, <1>2, <1>3 DEF ClientType, PoolType, SessionType
<1>5. ChannelsHeld'
  BY <1>1, ChannelKept DEF Serving, PCs
<1>6. ClearedForCause'
  BY <1>1, <1>2, CausesLast DEF vectorVars, Cause
<1> QED  BY <1>3, <1>4, <1>5, <1>6 DEF IInv, TypeOK

-----------------------------------------------------------------------------
\* The accept thread

\* A controller is taken from the backlog into the vector: it keeps the
\* invariant, because it was in neither twice nor in both.
LEMMA AcceptKeeps ==
  ASSUME IInv, Accept PROVE IInv'
<1> DEFINE new == Head(backlog)
<1> USE ServerAssumption
<1>t. /\ ClientType /\ AcceptType /\ VectorType /\ SessionType /\ MainType /\ PoolType
  BY DEF IInv, TypeOK
<1>1. PICK cfd \in FreeFds : EmplaceBack(new, cfd)
  BY DEF Accept
<1>2. /\ backlog # <<>> /\ backlog' = Tail(backlog)
      /\ apc = "accept" /\ accepting
      /\ peer' = [peer EXCEPT ![new] = IF @ = "queued" THEN "open" ELSE @]
      /\ UNCHANGED <<ready, inbox, listening, accepting, apc, mainVars, poolVars>>
  BY DEF Accept
<1>3. /\ cfd \in Fds /\ open[cfd] = Nobody
  BY DEF FreeFds
<1>4. /\ new \in Clients /\ new = backlog[1]
      /\ Tail(backlog) \in Seq(Clients)
      /\ Len(Tail(backlog)) = Len(backlog) - 1
      /\ \A k \in 1 .. Len(Tail(backlog)) : Tail(backlog)[k] = backlog[k + 1]
  BY <1>t, <1>2, HeadTailProperties DEF AcceptType
<1>5. /\ 1 \in DOMAIN backlog /\ pc[new] = "none"
      /\ peer[new] \in {"queued", "closed"}
      /\ new \notin Elements
  BY <1>t, <1>2, <1>4 DEF IInv, Vector, Backlogged, Threaded, AcceptType
<1>6. /\ clients' \in Seq(Clients)
      /\ Len(clients') = Len(clients) + 1
      /\ \A k \in 1 .. Len(clients) : clients'[k] = clients[k]
      /\ clients'[Len(clients) + 1] = new
  BY <1>t, <1>1, <1>4, AppendProperties DEF EmplaceBack, VectorType
<1>7. \A k \in 1 .. Len(clients) : clients[k] \in Elements /\ clients[k] \in Clients
  BY <1>t DEF Elements, VectorType
<1>8. Elements' = Elements \cup {new}
  <2>1. /\ DOMAIN clients = 1 .. Len(clients) /\ Len(clients) \in Nat
        /\ DOMAIN clients' = 1 .. Len(clients) + 1
    BY <1>t, <1>6 DEF VectorType
  <2>2. Elements' = {clients'[k] : k \in 1 .. Len(clients) + 1}
    BY <2>1 DEF Elements
  <2>3. Elements' = {clients'[k] : k \in 1 .. Len(clients)} \cup {clients'[Len(clients) + 1]}
    BY <2>1, <2>2
  <2> QED  BY <1>6, <2>1, <2>3 DEF Elements
<1>9. IsFiniteSet(Elements') /\ Cardinality(Elements') = Len(clients')
  <2>1. IsFiniteSet(Elements) /\ Cardinality(Elements) = Len(clients)
    BY <1>t DEF IInv, Vector, Threaded, VectorType
  <2> QED  BY <1>5, <1>6, <1>8, <2>1, FS_AddElement
<1>10. destroyed = 0 /\ mpc \notin Stopping
  BY <1>t, <1>2 DEF IInv, Order, MainInOrder, Stopping, MainType, MainPCs
<1>11. /\ fd' = [fd EXCEPT ![new] = cfd]
       /\ running' = [running EXCEPT ![new] = TRUE]
       /\ pc' = [pc EXCEPT ![new] = "start"]
       /\ capacity' = NewCapacity
       /\ dangling' = [d \in Clients |-> dangling[d] \/ (Grows /\ d \in Elements)]
  BY <1>1 DEF EmplaceBack
<1>12. open' = [open EXCEPT ![cfd] = new]
  <2>1. Descriptors \notin Fds
    OBVIOUS
  <2> QED  BY <1>t, <1>1, <2>1 DEF EmplaceBack, VectorType
<1>13. TypeOK'
  <2>1. ClientType'
    BY <1>t, <1>2, <1>4 DEF ClientType
  <2>2. AcceptType'
    BY <1>t, <1>2, <1>4 DEF AcceptType
  <2>3. VectorType'
    <3>1. capacity' \in Nat /\ Len(clients') <= capacity'
      BY <1>t, <1>6, <1>11 DEF NewCapacity, Grows, VectorType
    <3>2. dangling' \in [Clients -> BOOLEAN]
      BY <1>t, <1>11 DEF VectorType
    <3>3. fd' \in [Clients -> Fds \cup {BadFd}] /\ open' \in [Fds -> Clients \cup {Nobody}]
      BY <1>t, <1>3, <1>4, <1>11, <1>12 DEF VectorType
    <3> QED  BY <1>6, <1>9, <3>1, <3>2, <3>3 DEF VectorType
  <2>4. SessionType'
    BY <1>t, <1>11 DEF SessionType, PCs
  <2>5. MainType' /\ PoolType'
    BY <1>t, <1>2, <1>6, <1>10 DEF MainType, PoolType, mainVars, poolVars
  <2> QED  BY <2>1, <2>2, <2>3, <2>4, <2>5 DEF TypeOK
<1>14. Backlogged'
  <2>1. ASSUME NEW k \in DOMAIN backlog'
        PROVE  /\ peer'[backlog'[k]] \in {"queued", "closed"} /\ pc'[backlog'[k]] = "none"
               /\ k + 1 \in DOMAIN backlog /\ backlog'[k] = backlog[k + 1]
    <3>1. k \in Nat /\ k + 1 \in DOMAIN backlog /\ k + 1 # 1 /\ backlog'[k] = backlog[k + 1]
      BY <1>t, <1>2, <1>4 DEF AcceptType
    <3>2. backlog[k + 1] # new /\ backlog[k + 1] \in Clients
      BY <1>t, <1>4, <1>5, <3>1 DEF IInv, Vector, Backlogged, AcceptType
    <3> QED  BY <1>t, <1>2, <1>4, <1>11, <3>1, <3>2
             DEF IInv, Vector, Backlogged, ClientType, SessionType
  <2>2. ASSUME NEW j \in DOMAIN backlog', NEW k \in DOMAIN backlog',
               backlog'[j] = backlog'[k]
        PROVE  j = k
    <3>1. j + 1 = k + 1 /\ j \in Nat /\ k \in Nat
      BY <1>t, <1>2, <1>4, <2>1, <2>2 DEF IInv, Vector, Backlogged, AcceptType
    <3> QED  BY <3>1
  <2>3. \A d \in Clients : peer'[d] = "idle" => pc'[d] = "none"
    BY <1>t, <1>2, <1>4, <1>5, <1>11 DEF IInv, Vector, Backlogged, ClientType, SessionType
  <2> QED  BY <2>1, <2>2, <2>3 DEF Backlogged
<1>15. Threaded'
  <2>1. \A d \in Clients : pc'[d] = "none" <=> d \notin Elements'
    BY <1>t, <1>4, <1>8, <1>11 DEF IInv, Vector, Threaded, SessionType
  <2>2. ASSUME NEW j \in DOMAIN clients', NEW k \in DOMAIN clients',
               clients'[j] = clients'[k]
        PROVE  j = k
    <3>1. /\ j \in 1 .. Len(clients) \/ j = Len(clients) + 1
          /\ k \in 1 .. Len(clients) \/ k = Len(clients) + 1
      BY <1>t, <1>6 DEF VectorType
    <3> QED  BY <1>t, <1>5, <1>6, <1>7, <2>2, <3>1 DEF IInv, Vector, Threaded, VectorType
  <2> QED  BY <1>9, <2>1, <2>2 DEF Threaded
<1>16. DescriptorsKept'
  <2> SUFFICES ASSUME NEW k \in DOMAIN clients'
               PROVE  fd'[clients'[k]] \in Fds /\ open'[fd'[clients'[k]]] = clients'[k]
    BY DEF DescriptorsKept
  <2>1. CASE k = Len(clients) + 1
    BY <1>t, <1>3, <1>4, <1>6, <1>11, <1>12, <2>1 DEF VectorType
  <2>2. CASE k \in 1 .. Len(clients)
    <3>1. /\ clients[k] # Nobody /\ clients[k] # new
      BY <1>5, <1>7, <2>2
    <3>2. fd[clients[k]] \in Fds /\ open[fd[clients[k]]] = clients[k]
      BY <1>t, <1>10, <2>2 DEF IInv, Vector, DescriptorsKept, VectorType
    <3> QED  BY <1>t, <1>3, <1>6, <1>7, <1>11, <1>12, <2>2, <3>1, <3>2 DEF VectorType
  <2> QED  BY <1>t, <1>6, <2>1, <2>2 DEF VectorType
<1>17. OpenOwned'
  <2> SUFFICES ASSUME NEW f \in Fds, open'[f] # Nobody
               PROVE  \E k \in DOMAIN clients' : k > destroyed' /\ fd'[clients'[k]] = f
    BY DEF OpenOwned
  <2>1. CASE f = cfd
    <3>1. /\ Len(clients) + 1 \in DOMAIN clients' /\ Len(clients) + 1 > destroyed'
          /\ fd'[clients'[Len(clients) + 1]] = f
      BY <1>t, <1>2, <1>4, <1>6, <1>10, <1>11, <2>1 DEF VectorType, mainVars
    <3> QED  BY <3>1
  <2>2. CASE f # cfd
    <3>1. open[f] # Nobody
      BY <1>t, <1>12, <2>2 DEF VectorType
    <3>2. PICK k \in DOMAIN clients : k > destroyed /\ fd[clients[k]] = f
      BY <3>1 DEF IInv, Vector, OpenOwned
    <3>3. k \in 1 .. Len(clients) /\ clients[k] # new
      BY <1>t, <1>5, <1>7 DEF VectorType
    <3>4. /\ k \in DOMAIN clients' /\ k > destroyed' /\ fd'[clients'[k]] = f
      BY <1>t, <1>2, <1>6, <1>7, <1>11, <3>2, <3>3 DEF VectorType, mainVars
    <3> QED  BY <3>4
  <2> QED  BY <2>1, <2>2
<1>18. Order'
  BY <1>t, <1>2, <1>6, <1>10
  DEF IInv, Order, MainInOrder, Joined, AcceptsUntilFull, Stopping, MainType, mainVars, VectorType
<1>19. ChannelsHeld'
  BY <1>t, <1>2, <1>5, <1>11 DEF IInv, ChannelsHeld, Serving, SessionType, poolVars
<1>20. ClearedForCause'
  BY <1>t, <1>2, <1>4, <1>5, <1>11
  DEF IInv, ClearedForCause, Cause, SessionType, ClientType, mainVars
<1> QED  BY <1>13, <1>14, <1>15, <1>16, <1>17, <1>18, <1>19, <1>20 DEF IInv, Vector

\* The end of the accept thread keeps the invariant: it stops at a full table
\* of descriptors or because main has told it to.
LEMMA AcceptEndKeeps ==
  ASSUME IInv, AcceptError \/ AcceptStop PROVE IInv'
<1> USE DEF clientVars, vectorVars, mainVars, poolVars
<1>t. /\ ClientType /\ AcceptType /\ VectorType /\ SessionType /\ MainType /\ PoolType
  BY DEF IInv, TypeOK
<1>1. /\ UNCHANGED <<clientVars, backlog, listening, vectorVars, running, open, pc,
                     mainVars, poolVars>>
      /\ apc = "accept" /\ apc' = "stopped" /\ accepting' = FALSE
  BY <1>t DEF AcceptError, AcceptStop, AcceptType
<1>2. Elements' = Elements /\ FreeFds' = FreeFds
  BY <1>1 DEF Elements, FreeFds
<1>3. TypeOK'
  <2>1. ClientType' /\ AcceptType' /\ SessionType'
    BY <1>t, <1>1 DEF ClientType, AcceptType, SessionType
  <2>2. VectorType'
    BY <1>t, <1>1, <1>2 DEF VectorType
  <2>3. MainType' /\ PoolType'
    BY <1>t, <1>1 DEF MainType, PoolType
  <2> QED  BY <2>1, <2>2, <2>3 DEF TypeOK
<1>4. Vector'
  BY <1>1, <1>2 DEF IInv, Vector, Backlogged, Threaded, DescriptorsKept, OpenOwned
<1>5. quit \/ FreeFds = {}
  BY <1>t DEF AcceptError, AcceptStop, NoDescriptor, NotListening, IInv, Order, MainInOrder
<1>6. MainInOrder'
  BY <1>1 DEF IInv, Order, MainInOrder
<1>7. Joined' /\ AcceptsUntilFull'
  BY <1>1, <1>2, <1>5 DEF IInv, Order, Joined, AcceptsUntilFull
<1>8. ChannelsHeld' /\ ClearedForCause'
  BY <1>1 DEF IInv, ChannelsHeld, ClearedForCause, Cause
<1> QED  BY <1>3, <1>4, <1>6, <1>7, <1>8 DEF IInv, Order

-----------------------------------------------------------------------------
\* The main thread

\* ~Server, up to the join of its thread, and the end of the program keep the
\* invariant.
LEMMA MainKeeps ==
  ASSUME IInv, CloseListening \/ StopAccepting \/ JoinAccept \/ JoinSession \/ Exit
  PROVE  IInv'
<1> USE DEF clientVars, acceptVars, vectorVars, poolVars
<1>t. /\ ClientType /\ AcceptType /\ VectorType /\ SessionType /\ MainType /\ PoolType
  BY DEF IInv, TypeOK
<1>1. /\ UNCHANGED <<ready, inbox, apc, vectorVars, running, open, pc, quit,
                     destroyed, poolVars>>
      /\ mpc' \in {"stop", "join", "destroy", "exited"}
  BY DEF CloseListening, StopAccepting, JoinAccept, JoinSession, Exit
<1>2. /\ peer' \in [Clients -> {"idle", "queued", "open", "closed"}]
      /\ \A d \in Clients : /\ peer[d] = "closed" => peer'[d] = "closed"
                            /\ peer'[d] = "idle" => peer[d] = "idle"
      /\ \/ peer' = peer /\ backlog' = backlog
         \/ backlog' = <<>>
  BY <1>t DEF CloseListening, StopAccepting, JoinAccept, JoinSession, Exit, ClientType
<1>3. quit
  BY DEF CloseListening, StopAccepting, JoinAccept, JoinSession, Exit,
         IInv, Order, MainInOrder
<1>4. Elements' = Elements
  BY <1>1 DEF Elements
<1>5. TypeOK'
  <2>1. ClientType' /\ SessionType' /\ PoolType'
    BY <1>t, <1>1, <1>2 DEF ClientType, SessionType, PoolType
  <2>2. AcceptType'
    <3>1. backlog' \in Seq(Clients)
      <4>1. <<>> \in Seq(Clients)
        OBVIOUS
      <4>2. backlog' = backlog \/ backlog' = <<>>
        BY <1>2
      <4> QED  BY <1>t, <4>1, <4>2 DEF AcceptType
    <3>2. listening' \in BOOLEAN /\ accepting' \in BOOLEAN
      BY <1>t DEF AcceptType, CloseListening, StopAccepting, JoinAccept, JoinSession, Exit
    <3>3. apc' \in {"accept", "stopped"}
      BY <1>t, <1>1 DEF AcceptType
    <3> QED  BY <3>1, <3>2, <3>3 DEF AcceptType
  <2>3. VectorType'
    BY <1>t, <1>1, <1>4 DEF VectorType
  <2>4. MainType'
    BY <1>t, <1>1 DEF MainType, MainPCs
  <2> QED  BY <2>1, <2>2, <2>3, <2>4 DEF TypeOK
<1>6. Backlogged'
  <2>1. \A d \in Clients : peer'[d] = "idle" => pc'[d] = "none"
    BY <1>1, <1>2 DEF IInv, Vector, Backlogged
  <2>2. CASE backlog' = <<>>
    BY <2>1, <2>2 DEF Backlogged
  <2>3. CASE peer' = peer /\ backlog' = backlog
    BY <1>1, <2>3 DEF IInv, Vector, Backlogged
  <2> QED  BY <1>2, <2>2, <2>3
<1>7. Threaded' /\ DescriptorsKept' /\ OpenOwned'
  BY <1>1, <1>4 DEF IInv, Vector, Threaded, DescriptorsKept, OpenOwned
<1>8. MainInOrder'
  <2> USE DEF IInv, Order, MainInOrder, Stopping
  <2>1. CASE CloseListening
    BY <2>1 DEF CloseListening
  <2>2. CASE StopAccepting
    BY <2>2 DEF StopAccepting
  <2>3. CASE JoinAccept
    BY <2>3 DEF JoinAccept, AcceptThreadEnded
  <2>4. CASE JoinSession
    BY <2>4 DEF JoinSession
  <2>5. CASE Exit
    BY <2>5 DEF Exit
  <2> QED  BY <2>1, <2>2, <2>3, <2>4, <2>5
<1>9. Joined'
  <2>1. CASE JoinSession
    BY <1>1, <2>1 DEF IInv, Order, Joined, JoinSession
  <2>2. CASE ~JoinSession
    <3>1. mpc # "joinSession"
      BY <2>2 DEF CloseListening, StopAccepting, JoinAccept, Exit
    <3> QED  BY <1>1, <3>1 DEF IInv, Order, Joined
  <2> QED  BY <2>1, <2>2
<1>10. AcceptsUntilFull' /\ ChannelsHeld' /\ ClearedForCause'
  BY <1>1, <1>3 DEF IInv, AcceptsUntilFull, ChannelsHeld, ClearedForCause, Cause
<1> QED  BY <1>5, <1>6, <1>7, <1>8, <1>9, <1>10 DEF IInv, Vector, Order

\* ~Connection closes the descriptor of its own element and no other, and
\* keeps the invariant.
LEMMA DestroyKeeps ==
  ASSUME IInv, DestroyConnection PROVE IInv'
<1> DEFINE c == clients[destroyed + 1]
<1> USE ServerAssumption
<1> USE DEF clientVars, acceptVars, vectorVars, poolVars
<1>t. /\ ClientType /\ AcceptType /\ VectorType /\ SessionType /\ MainType /\ PoolType
  BY DEF IInv, TypeOK
<1>1. /\ mpc = "destroy" /\ mpc' = "joinSession"
      /\ destroyed < Len(clients) /\ destroyed' = destroyed + 1
      /\ open' = [open EXCEPT ![fd[c]] = Nobody]
      /\ running' = [running EXCEPT ![c] = FALSE]
      /\ UNCHANGED <<clientVars, acceptVars, vectorVars, pc, quit, poolVars>>
  BY DEF DestroyConnection
<1>2. quit /\ destroyed \in Nat
  BY <1>t, <1>1 DEF IInv, Order, MainInOrder, MainType
<1>3. /\ destroyed + 1 \in DOMAIN clients /\ destroyed + 1 > destroyed
      /\ \A k \in DOMAIN clients : clients[k] \in Clients /\ k \in Nat
  BY <1>t, <1>1, <1>2 DEF VectorType
<1>4. c \in Clients /\ fd[c] \in Fds /\ open[fd[c]] = c
  BY <1>3 DEF IInv, Vector, DescriptorsKept
<1>5. Elements' = Elements
  BY <1>1 DEF Elements
<1>6. TypeOK'
  <2>1. ClientType' /\ AcceptType' /\ SessionType' /\ PoolType'
    BY <1>t, <1>1 DEF ClientType, AcceptType, SessionType, PoolType
  <2>2. VectorType'
    BY <1>t, <1>1, <1>5 DEF VectorType
  <2>3. MainType'
    BY <1>t, <1>1, <1>2 DEF MainType, MainPCs, VectorType
  <2> QED  BY <2>1, <2>2, <2>3 DEF TypeOK
<1>7. Backlogged' /\ Threaded'
  BY <1>1, <1>5 DEF IInv, Vector, Backlogged, Threaded
<1>8. DescriptorsKept'
  <2> SUFFICES ASSUME NEW k \in DOMAIN clients, k > destroyed + 1
               PROVE  fd[clients[k]] \in Fds /\ open'[fd[clients[k]]] = clients[k]
    BY <1>1 DEF DescriptorsKept
  <2>1. fd[clients[k]] \in Fds /\ open[fd[clients[k]]] = clients[k]
    BY <1>2, <1>3 DEF IInv, Vector, DescriptorsKept
  <2>2. clients[k] # c
    BY <1>2, <1>3 DEF IInv, Vector, Threaded
  <2> QED  BY <1>t, <1>1, <1>4, <2>1, <2>2 DEF VectorType
<1>9. OpenOwned'
  <2> SUFFICES ASSUME NEW f \in Fds, open'[f] # Nobody
               PROVE  \E k \in DOMAIN clients : k > destroyed + 1 /\ fd[clients[k]] = f
    BY <1>1 DEF OpenOwned
  <2>1. f # fd[c] /\ open[f] # Nobody
    BY <1>t, <1>1 DEF VectorType
  <2>2. PICK k \in DOMAIN clients : k > destroyed /\ fd[clients[k]] = f
    BY <2>1 DEF IInv, Vector, OpenOwned
  <2>3. k > destroyed + 1
    BY <1>2, <1>3, <2>1, <2>2
  <2> QED  BY <2>2, <2>3
<1>10. MainInOrder'
  BY <1>1, <1>2 DEF IInv, Order, MainInOrder, Stopping
<1>11. Joined'
  BY <1>1, <1>2, <1>3 DEF IInv, Order, Joined
<1>12. AcceptsUntilFull' /\ ChannelsHeld' /\ ClearedForCause'
  BY <1>1, <1>2 DEF IInv, AcceptsUntilFull, ChannelsHeld, ClearedForCause, Cause
<1> QED  BY <1>6, <1>7, <1>8, <1>9, <1>10, <1>11, <1>12 DEF IInv, Vector, Order

-----------------------------------------------------------------------------
\* A step that changes no variable keeps the invariant.
LEMMA StutterKeeps ==
  ASSUME IInv, UNCHANGED vars PROVE IInv'
<1> USE DEF vars, clientVars, acceptVars, vectorVars, mainVars, poolVars
<1>t. /\ ClientType /\ AcceptType /\ VectorType /\ SessionType /\ MainType /\ PoolType
  BY DEF IInv, TypeOK
<1>1. Elements' = Elements /\ FreeFds' = FreeFds
  BY DEF Elements, FreeFds
<1>2. TypeOK'
  <2>1. ClientType' /\ AcceptType' /\ SessionType'
    BY <1>t DEF ClientType, AcceptType, SessionType
  <2>2. VectorType'
    BY <1>t, <1>1 DEF VectorType
  <2>3. MainType' /\ PoolType'
    BY <1>t DEF MainType, PoolType
  <2> QED  BY <2>1, <2>2, <2>3 DEF TypeOK
<1>3. Vector'
  BY <1>1 DEF IInv, Vector, Backlogged, Threaded, DescriptorsKept, OpenOwned
<1>4. MainInOrder'
  BY DEF IInv, Order, MainInOrder
<1>5. Joined' /\ AcceptsUntilFull'
  BY <1>1 DEF IInv, Order, Joined, AcceptsUntilFull
<1>6. ChannelsHeld' /\ ClearedForCause'
  BY DEF IInv, ChannelsHeld, ClearedForCause, Cause
<1> QED  BY <1>2, <1>3, <1>4, <1>5, <1>6 DEF IInv, Order

\* Every step keeps the invariant.
LEMMA NextKeeps == IInv /\ [Next]_vars => IInv'
<1> SUFFICES ASSUME IInv, [Next]_vars PROVE IInv'
  OBVIOUS
<1>1. ASSUME NEW c \in Clients, Session(c) PROVE IInv'
  BY <1>1, SessionKeeps
<1>2. ASSUME NEW c \in Clients, SigintInterrupts(c) PROVE IInv'
  BY <1>2, InterruptKeeps
<1>3. CASE Sigint \/ \E c \in Clients : Connect(c) \/ SendFrame(c) \/ Close(c)
  BY <1>3, OutsideKeeps
<1>4. CASE AcceptThread
  BY <1>4, AcceptKeeps, AcceptEndKeeps DEF AcceptThread
<1>5. CASE Main
  BY <1>5, MainKeeps, DestroyKeeps DEF Main
<1>6. CASE UNCHANGED vars
  BY <1>6, StutterKeeps
<1> QED  BY <1>1, <1>2, <1>3, <1>4, <1>5, <1>6 DEF Next

\* IInv holds in every state the server reaches.
THEOREM Invariance == Spec => []IInv
  BY InitEstablishes, NextKeeps, PTL DEF Spec

\* Every variable keeps its type, and the vector of Connections (emplace_back
\* in accept_clients) holds no controller twice.
THEOREM TypeCorrect == Spec => []TypeOK
<1>1. IInv => TypeOK
  BY DEF IInv
<1> QED  BY <1>1, Invariance, PTL

\* However often the vector of Connections grows, every element that is not
\* destroyed keeps a descriptor of its own that is open.
THEOREM NothingClosed == Spec => []DescriptorsKept
<1>1. IInv => DescriptorsKept
  BY DEF IInv, Vector
<1> QED  BY <1>1, Invariance, PTL

\* accept_clients ends before SIGINT only when the descriptors have run out,
\* and no session gives one back.
THEOREM AcceptsOn == Spec => []AcceptsUntilFull
<1>1. IInv => AcceptsUntilFull
  BY DEF IInv, Order
<1> QED  BY <1>1, Invariance, PTL

\* The destructors of main's Server run in a safe order and leave neither a
\* descriptor nor a channel.
THEOREM ShutsDownCleanly == Spec => []CleanShutdown
<1>1. ASSUME IInv PROVE CleanShutdown
  <2> USE <1>1 DEF IInv
  <2>t. VectorType /\ SessionType /\ MainType /\ PoolType
    BY DEF TypeOK
  <2>1. mpc \in {"destroy", "joinSession", "exited"} => apc = "stopped"
    BY DEF Order, MainInOrder, Stopping
  <2>2. ASSUME mpc = "exited" PROVE \A f \in Fds : open[f] = Nobody
    <3>1. destroyed = Len(clients)
      BY <2>2 DEF Order, MainInOrder
    <3>2. \A k \in DOMAIN clients : ~(k > destroyed)
      BY <2>t, <3>1 DEF VectorType
    <3> QED  BY <3>2 DEF Vector, OpenOwned
  <2>3. ASSUME mpc = "exited", NEW c \in Clients PROVE got[c] = ChannelCount
    <3>1. destroyed = Len(clients)
      BY <2>3 DEF Order, MainInOrder
    <3>2. \A k \in DOMAIN clients : pc[clients[k]] = "done"
      BY <2>t, <2>3, <3>1 DEF VectorType, Order, Joined
    <3>3. pc[c] \in {"none", "done"}
      BY <3>2 DEF Vector, Threaded, Elements
    <3> QED  BY <3>3 DEF ChannelsHeld, Serving
  <2> QED  BY <2>1, <2>2, <2>3 DEF CleanShutdown, Order, Joined
<1> QED  BY <1>1, Invariance, PTL

\* A session whose Connection was never moved leaves the loop of socket_recv
\* only for SIGINT, or because its controller has gone and all it sent is read.
THEOREM EndsForCause == Spec => SessionEndsForCause
<1>1. ASSUME IInv, Next, NEW c \in Clients, pc[c] = "check", pc'[c] = "release"
      PROVE  quit \/ dangling[c] \/ (peer[c] = "closed" /\ inbox[c] = 0)
  <2>t. ClientType /\ VectorType /\ SessionType /\ AcceptType
    BY <1>1 DEF IInv, TypeOK
  <2>1. pc' # pc
    BY <1>1
  <2>2. CASE Check(c)
    <3>1. quit \/ dangling[c] \/ ~running[c]
      BY <2>t, <2>2, <1>1 DEF Check, Stays, ReadRunning, SessionType
    <3> QED  BY <1>1, <3>1 DEF IInv, ClearedForCause, Cause
  <2>3. ASSUME NEW d \in Clients, Session(d) \/ SigintInterrupts(d) PROVE Check(c)
    <3>1. \E p \in PCs : Goto(d, p) /\ (p = "release" => Check(d))
      BY <2>3 DEF Session, SigintInterrupts, Construct, Throw, SendReady, SendReadyFails,
                  Check, Recv, RecvFails, ReadFrame, ReadEof, Release, PCs
    <3> QED  BY <2>t, <1>1, <3>1 DEF SessionType
  <2>4. ~Accept
    <3>1. SUFFICES ASSUME Accept PROVE FALSE
      OBVIOUS
    <3>2. pc' = [pc EXCEPT ![Head(backlog)] = "start"]
      BY <3>1 DEF Accept, EmplaceBack
    <3> QED  BY <2>t, <1>1, <3>2 DEF SessionType
  <2>5. ASSUME Next, pc' # pc
        PROVE  Accept \/ \E d \in Clients : Session(d) \/ SigintInterrupts(d)
    BY <2>5 DEF Next, Connect, SendFrame, Close, AcceptThread, AcceptError, AcceptStop,
                Sigint, Main, CloseListening, StopAccepting, JoinAccept,
                DestroyConnection, JoinSession, Exit, vars
  <2> QED  BY <1>1, <2>1, <2>2, <2>3, <2>4, <2>5
<1>2. IInv /\ [Next]_vars =>
        [\A c \in Clients : pc[c] = "check" /\ pc'[c] = "release" =>
           quit \/ dangling[c] \/ (peer[c] = "closed" /\ inbox[c] = 0)]_vars
  BY <1>1
<1> QED  BY <1>2, Invariance, PTL DEF Spec, SessionEndsForCause

-----------------------------------------------------------------------------
\* The channels

\* Where a thread is says what it has of the pool, and what its controller was
\* told.
InStep ==
  \A c \in Clients :
    /\ stage[c] = "in" <=> pc[c] \in Serving
    /\ stage[c] = "out" <=> pc[c] \in {"none", "start"}
    /\ got[c] # ChannelCount <=> stage[c] = "in"
    /\ ready[c] => stage[c] \in {"in", "gone"}

\* No channel is held twice.
Exclusive ==
  \A c, d \in Clients : got[c] # ChannelCount /\ got[c] = got[d] => c = d

ChannelInv == InStep /\ Exclusive

\* A step that leaves the pool alone, and moves no thread to or from a place
\* where it has a channel, keeps the channels as they are.
LEMMA ChannelsAlone ==
  ASSUME ChannelInv, UNCHANGED <<stage, got>>,
         \A c \in Clients : /\ pc'[c] \in Serving <=> pc[c] \in Serving
                            /\ pc'[c] \in {"none", "start"} <=> pc[c] \in {"none", "start"}
                            /\ ready'[c] => ready[c] \/ stage[c] \in {"in", "gone"}
  PROVE  ChannelInv'
BY DEF ChannelInv, InStep, Exclusive

\* A session's step keeps the channels in step with its thread.
LEMMA SessionChannels ==
  ASSUME IInv, ChannelInv, NEW c \in Clients, Session(c) PROVE ChannelInv'
<1> USE DEF clientVars
<1>t. /\ ClientType /\ SessionType /\ PoolType
  BY DEF IInv, TypeOK
<1>1. CASE Construct(c)
  <2>1. PICK ch \in 0 .. (ChannelCount - 1) :
          /\ \A d \in Clients : got[d] # ch
          /\ got' = [got EXCEPT ![c] = ch]
          /\ stage' = [stage EXCEPT ![c] = "in"]
    BY <1>1, ServerAssumption
    DEF Construct, Pool!AcquireDrum, Pool!AcquireLowest, Pool!Free, Pool!Channels
  <2>2. pc' = [pc EXCEPT ![c] = "ready"] /\ ready' = ready /\ ch # ChannelCount
    BY <1>1, <2>1, ServerAssumption DEF Construct
  <2>3. InStep'
    BY <1>t, <2>1, <2>2 DEF ChannelInv, InStep, Serving, SessionType, PoolType
  <2>4. Exclusive'
    BY <1>t, <2>1 DEF ChannelInv, Exclusive, PoolType
  <2> QED  BY <2>3, <2>4 DEF ChannelInv
<1>2. CASE Throw(c)
  <2>1. /\ pc[c] = "start" /\ pc' = [pc EXCEPT ![c] = "done"]
        /\ stage[c] = "out" /\ stage' = [stage EXCEPT ![c] = "refused"]
        /\ UNCHANGED <<got, ready>>
    BY <1>2 DEF Throw, Pool!Refuse
  <2>2. InStep'
    BY <1>t, <2>1 DEF ChannelInv, InStep, Serving, SessionType, PoolType
  <2> QED  BY <2>1, <2>2 DEF ChannelInv, Exclusive
<1>3. CASE SendReady(c) \/ SendReadyFails(c) \/ Check(c) \/ Recv(c) \/ RecvFails(c)
           \/ ReadFrame(c) \/ ReadEof(c)
  <2>1. pc[c] \in Serving /\ \E p \in Serving : pc' = [pc EXCEPT ![c] = p]
    BY <1>3 DEF SendReady, SendReadyFails, Check, Recv, RecvFails, ReadFrame, ReadEof,
                Serving
  <2>2. UNCHANGED <<stage, got>> /\ (ready' = ready \/ ready' = [ready EXCEPT ![c] = TRUE])
    BY <1>3 DEF SendReady, SendReadyFails, Check, Recv, RecvFails, ReadFrame, ReadEof,
                ReadySent, poolVars
  <2>3. \A d \in Clients : /\ pc'[d] \in Serving <=> pc[d] \in Serving
                           /\ pc'[d] \in {"none", "start"} <=> pc[d] \in {"none", "start"}
    BY <1>t, <2>1 DEF SessionType, Serving
  <2>4. stage[c] = "in"
    BY <2>1 DEF ChannelInv, InStep
  <2>5. \A d \in Clients : ready'[d] => ready[d] \/ stage[d] \in {"in", "gone"}
    BY <1>t, <2>2, <2>4 DEF ClientType
  <2> QED  BY <2>2, <2>3, <2>5, ChannelsAlone
<1>4. CASE Release(c)
  <2>1. /\ pc[c] = "release" /\ pc' = [pc EXCEPT ![c] = "done"]
        /\ stage' = [stage EXCEPT ![c] = "gone"]
        /\ got' = [got EXCEPT ![c] = ChannelCount]
        /\ ready' = ready
    BY <1>4 DEF Release, Pool!Release
  <2>2. InStep'
    BY <1>t, <2>1 DEF ChannelInv, InStep, Serving, SessionType, PoolType
  <2>3. Exclusive'
    BY <1>t, <2>1 DEF ChannelInv, Exclusive, PoolType
  <2> QED  BY <2>2, <2>3 DEF ChannelInv
<1> QED  BY <1>1, <1>2, <1>3, <1>4 DEF Session

\* The other steps start a thread, which has no channel yet, or interrupt one
\* within its loop, or move none.
LEMMA OthersChannels ==
  ASSUME IInv, ChannelInv, [Next]_vars, ~ \E c \in Clients : Session(c)
  PROVE  ChannelInv'
<1>t. SessionType /\ AcceptType
  BY DEF IInv, TypeOK
<1>1. CASE Accept
  <2>1. /\ UNCHANGED <<stage, got, ready>>
        /\ pc' = [pc EXCEPT ![Head(backlog)] = "start"]
        /\ backlog # <<>>
    BY <1>1 DEF Accept, EmplaceBack, poolVars
  <2>2. Head(backlog) = backlog[1] /\ 1 \in DOMAIN backlog
    BY <1>t, <2>1 DEF AcceptType
  <2>3. pc[Head(backlog)] = "none"
    BY <2>2 DEF IInv, Vector, Backlogged
  <2>4. \A d \in Clients : /\ pc'[d] \in Serving <=> pc[d] \in Serving
                           /\ pc'[d] \in {"none", "start"} <=> pc[d] \in {"none", "start"}
    BY <1>t, <2>1, <2>3 DEF SessionType, Serving
  <2> QED  BY <2>1, <2>4, ChannelsAlone
<1>2. ASSUME NEW c \in Clients, SigintInterrupts(c) PROVE ChannelInv'
  <2>1. /\ UNCHANGED <<stage, got, ready>>
        /\ pc[c] = "reading" /\ pc' = [pc EXCEPT ![c] = "check"]
    BY <1>2 DEF SigintInterrupts, poolVars, clientVars
  <2>2. \A d \in Clients : /\ pc'[d] \in Serving <=> pc[d] \in Serving
                           /\ pc'[d] \in {"none", "start"} <=> pc[d] \in {"none", "start"}
    BY <1>t, <2>1 DEF SessionType, Serving
  <2> QED  BY <2>1, <2>2, ChannelsAlone
<1>3. ASSUME ~Accept, ~ \E c \in Clients : SigintInterrupts(c)
      PROVE  ChannelInv'
  <2> USE DEF poolVars, clientVars
  <2>1. \/ \E c \in Clients : Connect(c) \/ SendFrame(c) \/ Close(c)
        \/ AcceptError \/ AcceptStop \/ Sigint \/ Main \/ UNCHANGED vars
    BY <1>3 DEF Next, AcceptThread
  <2>2. UNCHANGED <<pc, stage, got, ready>>
    BY <2>1 DEF Connect, SendFrame, Close, AcceptError, AcceptStop, Sigint, Main,
                CloseListening, StopAccepting, JoinAccept, DestroyConnection,
                JoinSession, Exit, vars
  <2> QED  BY <2>2, ChannelsAlone
<1> QED  BY <1>1, <1>2, <1>3

\* Each thread's place, channel and ready byte go together.
LEMMA ChannelInvariance == Spec => []ChannelInv
<1>1. Init => ChannelInv
  BY DEF Init, Pool!Init, ChannelInv, InStep, Exclusive, Serving
<1>2. IInv /\ ChannelInv /\ [Next]_vars => ChannelInv'
  BY SessionChannels, OthersChannels
<1> QED  BY <1>1, <1>2, Invariance, PTL DEF Spec

\* At most as many controllers are served at once as there are channels, each
\* with a channel of its own, however many connect, leave or are refused.
THEOREM ChannelForEach == Spec => []ChannelEach
<1>1. ASSUME IInv, ChannelInv PROVE ChannelEach
  <2> DEFINE held == [c \in Served |-> got[c]]
  <2>1. \A c \in Clients : got[c] # ChannelCount <=> c \in Served
    BY <1>1 DEF ChannelInv, InStep, Served
  <2>2. \A c, d \in Served : got[c] = got[d] => c = d
    BY <1>1, <2>1 DEF ChannelInv, Exclusive, Served
  <2>3. \A c \in Served : got[c] \in 0 .. (ChannelCount - 1)
    <3>1. \A c \in Clients : got[c] \in 0 .. ChannelCount
      BY <1>1 DEF IInv, TypeOK, PoolType
    <3> QED  BY <2>1, <3>1, ServerAssumption DEF Served
  <2>4. held \in Injection(Served, 0 .. (ChannelCount - 1))
    BY <2>2, <2>3 DEF Injection, IsInjective
  <2>5. /\ IsFiniteSet(0 .. (ChannelCount - 1))
        /\ Cardinality(0 .. (ChannelCount - 1)) = ChannelCount
    BY ServerAssumption, FS_Interval
  <2>6. IsFiniteSet(Served) /\ Cardinality(Served) <= ChannelCount
    BY <2>4, <2>5, FS_Injection
  <2> QED  BY <2>1, <2>2, <2>6 DEF ChannelEach
<1> QED  BY <1>1, Invariance, ChannelInvariance, PTL

\* A controller that no channel was left for hears nothing, and its connection
\* outlives the thread that was to serve it, until the server is told to stop.
THEOREM RefusedHearsNothing == Spec => []RefusedLeftOpen
<1>1. ASSUME IInv, ChannelInv, NEW c \in Clients, stage[c] = "refused"
      PROVE  /\ ~ready[c] /\ pc[c] = "done"
             /\ ~quit => fd[c] \in Fds /\ open[fd[c]] = c
  <2>1. ~ready[c] /\ pc[c] \notin Serving /\ pc[c] \notin {"none", "start"}
    BY <1>1 DEF ChannelInv, InStep
  <2>2. pc[c] = "done"
    BY <1>1, <2>1 DEF IInv, TypeOK, SessionType, PCs, Serving
  <2>3. PICK k \in DOMAIN clients : clients[k] = c
    BY <1>1, <2>2 DEF IInv, Vector, Threaded, Elements
  <2>4. ASSUME ~quit PROVE fd[c] \in Fds /\ open[fd[c]] = c
    <3>1. mpc = "wait" /\ destroyed = 0
      BY <1>1, <2>4 DEF IInv, Order, MainInOrder
    <3>2. k > destroyed
      BY <1>1, <2>3, <3>1 DEF IInv, TypeOK, VectorType
    <3> QED  BY <1>1, <2>3, <3>2 DEF IInv, Vector, DescriptorsKept
  <2> QED  BY <2>1, <2>2, <2>4
<1>2. IInv /\ ChannelInv => RefusedLeftOpen
  BY <1>1 DEF RefusedLeftOpen
<1> QED  BY <1>2, Invariance, ChannelInvariance, PTL
=============================================================================
