------------------------------- MODULE Server -------------------------------
(***************************************************************************)
(* The MIDIOrDie server (server/main.cpp over socket/server.cpp and        *)
(* socket/connection.cpp): the thread that accepts controllers, one        *)
(* Connection object and one session thread per controller, and the main   *)
(* thread that waits for SIGINT and then destroys them all.                *)
(*                                                                         *)
(* A Connection lives in a std::vector that moves its elements when it     *)
(* grows, while the session thread keeps the address the object had when   *)
(* the thread was started: from then on dangling[c] holds, and the thread  *)
(* uses freed storage.  What it reads there is undefined: running may be   *)
(* either value; cfd is -1, as the move constructor left it, or whatever   *)
(* the allocator has written since, and is taken not to be open.           *)
(*                                                                         *)
(* One recv or send of a whole frame is one step that waits for the frame  *)
(* (the loops inside them are module Transfer); the broker's calls are the *)
(* steps of the atomic pool (module ChannelBroker implements it).          *)
(***************************************************************************)
EXTENDS Naturals, Sequences, FiniteSets

CONSTANTS Clients,        \* controllers; each connects at most once
          ChannelCount,   \* MIDI channels
          DrumChannel,
          Descriptors,    \* descriptors the process can have open for clients
          Buffer,         \* frames the network buffers for one connection
          Nobody          \* owns a descriptor that is not open

ASSUME ServerAssumption ==
  /\ ChannelCount \in Nat \ {0}
  /\ DrumChannel \in 0 .. (ChannelCount - 1)
  /\ Descriptors \in Nat \ {0}
  /\ Buffer \in Nat \ {0}
  /\ Nobody \notin Clients

BadFd == Descriptors      \* -1, or any number that is not an open descriptor
Fds == 0 .. (Descriptors - 1)

VARIABLES
  \* a controller: its end of the connection, and what it has been sent
  peer,           \* "idle", "queued" (in the backlog), "open" or "closed"
  ready,          \* it received the server's ready byte
  inbox,          \* frames it sent that the server has not read
  \* the listening socket and the accept thread
  backlog,        \* the controllers that wait for accept, oldest first
  listening,      \* sfd is open
  accepting,      \* Server::running
  apc,            \* the accept thread: "accept" or "stopped"
  \* the vector of Connections
  clients,        \* whose Connection each element is
  capacity,       \* clients.capacity()
  fd,             \* Connection::cfd of the element
  running,        \* Connection::running of the element
  dangling,       \* the session thread's this points to freed storage
  open,           \* the process's descriptor table
  \* the session threads
  pc,
  \* the main thread
  quit,           \* set by the SIGINT handler
  mpc,            \* where main, and the destructors it runs, have got to
  destroyed,      \* elements whose destructor has closed the descriptor
  \* the MIDI channels (module ChannelPool)
  asked, stage, got

clientVars == <<peer, ready, inbox>>
acceptVars == <<backlog, listening, accepting, apc>>
vectorVars == <<clients, capacity, fd, dangling>>
mainVars   == <<quit, mpc, destroyed>>
poolVars   == <<asked, stage, got>>
vars == <<clientVars, acceptVars, vectorVars, running, open, pc, mainVars, poolVars>>

Pool == INSTANCE ChannelPool WITH Threads <- Clients

Elements == {clients[k] : k \in DOMAIN clients}
FreeFds == {f \in Fds : open[f] = Nobody}

Init ==
  /\ peer = [c \in Clients |-> "idle"]
  /\ ready = [c \in Clients |-> FALSE]
  /\ inbox = [c \in Clients |-> 0]
  /\ backlog = <<>>
  /\ listening = TRUE
  /\ accepting = TRUE
  /\ apc = "accept"
  /\ clients = <<>>
  /\ capacity = 0
  /\ fd = [c \in Clients |-> BadFd]
  /\ running = [c \in Clients |-> FALSE]
  /\ dangling = [c \in Clients |-> FALSE]
  /\ open = [f \in Fds |-> Nobody]
  /\ pc = [c \in Clients |-> "none"]
  /\ quit = FALSE
  /\ mpc = "wait"
  /\ destroyed = 0
  /\ Pool!Init
  /\ \/ asked = [c \in Clients |-> TRUE]     \* the -d option, one for all
     \/ asked = [c \in Clients |-> FALSE]

-----------------------------------------------------------------------------
\* Controllers (controller/main.cpp), as far as the server sees them

Connect(c) ==
  /\ peer[c] = "idle"
  /\ listening
  /\ peer' = [peer EXCEPT ![c] = "queued"]
  /\ backlog' = Append(backlog, c)
  /\ UNCHANGED <<ready, inbox, listening, accepting, apc, vectorVars, running,
                 open, pc, mainVars, poolVars>>

\* after the ready byte, one frame every 40 ms while the network takes them
SendFrame(c) ==
  /\ peer[c] = "open"
  /\ ready[c]
  /\ inbox[c] < Buffer
  /\ inbox' = [inbox EXCEPT ![c] = @ + 1]
  /\ UNCHANGED <<peer, ready, acceptVars, vectorVars, running, open, pc,
                 mainVars, poolVars>>

\* the controller's process ends, at any time
Close(c) ==
  /\ peer[c] \in {"queued", "open"}
  /\ peer' = [peer EXCEPT ![c] = "closed"]
  /\ UNCHANGED <<ready, inbox, acceptVars, vectorVars, running, open, pc,
                 mainVars, poolVars>>

-----------------------------------------------------------------------------
\* The accept thread: accept_clients

\* mutant: the move constructor leaves other.cfd as it is
KeptFd(c) == fd[c]

\* the descriptor that the destructor of a moved-from Connection closes: the
\* move constructor has set it to -1
MovedFromFd(c) == BadFd

\* clients.emplace_back(cfd, f): a full vector moves to storage of twice the
\* size, where the new Connection is built first and the old ones are moved;
\* then the moved-from objects are destroyed and their storage is freed
Grows == Len(clients) = capacity

\* mutant: twice an empty vector's capacity is still nothing
Doubled == IF Grows THEN 2 * capacity ELSE capacity
NewCapacity == IF ~Grows THEN capacity ELSE IF capacity = 0 THEN 1 ELSE 2 * capacity

EmplaceBack(c, cfd) ==
  /\ clients' = Append(clients, c)
  /\ capacity' = NewCapacity
  /\ fd' = [fd EXCEPT ![c] = cfd]
  /\ running' = [running EXCEPT ![c] = TRUE]
  /\ dangling' = [d \in Clients |-> dangling[d] \/ (Grows /\ d \in Elements)]
  /\ open' = [f \in Fds |->
                IF f = cfd THEN c
                ELSE IF Grows /\ f \in {MovedFromFd(d) : d \in Elements}
                     THEN Nobody ELSE open[f]]
  /\ pc' = [pc EXCEPT ![c] = "start"]

Accept ==
  /\ apc = "accept" /\ accepting
  /\ listening
  /\ backlog # <<>>
  /\ \E cfd \in FreeFds :
       /\ \A f \in FreeFds : cfd <= f
       /\ EmplaceBack(Head(backlog), cfd)
  /\ backlog' = Tail(backlog)
  /\ peer' = [peer EXCEPT ![Head(backlog)] = IF @ = "queued" THEN "open" ELSE @]
  /\ UNCHANGED <<ready, inbox, listening, accepting, apc, mainVars, poolVars>>

\* errno of a failed accept that is not EAGAIN or EWOULDBLOCK
\* mutant: EAGAIN ends the loop as well
NoClient == backlog = <<>> \/ FreeFds = {}
NoDescriptor == FreeFds = {}          \* EMFILE, whether or not a client waits
NotListening == ~listening            \* EBADF

AcceptError ==
  /\ apc = "accept" /\ accepting
  /\ NoDescriptor \/ NotListening
  /\ accepting' = FALSE
  /\ apc' = "stopped"
  /\ UNCHANGED <<clientVars, backlog, listening, vectorVars, running, open, pc,
                 mainVars, poolVars>>

\* while(running) ends; with EAGAIN the loop just goes round
AcceptStop ==
  /\ apc = "accept" /\ ~accepting
  /\ apc' = "stopped"
  /\ UNCHANGED <<clientVars, backlog, listening, accepting, vectorVars, running,
                 open, pc, mainVars, poolVars>>

-----------------------------------------------------------------------------
\* The session threads: Connection::run calls socket_recv

\* what a thread finds behind its this: client->isrunning() and cfd
ReadRunning(c) == IF dangling[c] THEN BOOLEAN ELSE {running[c]}
DescriptorOpen(c) == ~dangling[c] /\ fd[c] \in Fds /\ open[fd[c]] = c

\* running = false after a failed read or write
Fail(c) == running' = IF dangling[c] THEN running ELSE [running EXCEPT ![c] = FALSE]

\* mutant: the ready byte is not sent
ReadyForgotten(c) == ready
ReadySent(c) == [ready EXCEPT ![c] = TRUE]

\* mutant: the loop of socket_recv does not look at quit
StaysWhileRunning(isrunning) == isrunning
Stays(isrunning) == isrunning /\ ~quit

\* mutants: a controller that has gone is enough, or that nothing has arrived
PeerGone(c) == peer[c] = "closed"
NothingThere(c) == inbox[c] = 0
AtEof(c) == inbox[c] = 0 /\ peer[c] = "closed"

Goto(c, p) == pc' = [pc EXCEPT ![c] = p]

\* MidiChannel channel(*ms, drum) and the Desynthesizer on it
Construct(c) ==
  /\ pc[c] = "start"
  /\ Pool!AcquireDrum(c) \/ Pool!AcquireLowest(c)
  /\ Goto(c, "ready")
  /\ UNCHANGED <<clientVars, acceptVars, vectorVars, running, open, mainVars>>

\* No_Channel is caught in run: the thread ends, the connection stays open
Throw(c) ==
  /\ pc[c] = "start"
  /\ Pool!Refuse(c)
  /\ Goto(c, "done")
  /\ UNCHANGED <<clientVars, acceptVars, vectorVars, running, open, mainVars>>

SendReady(c) ==
  /\ pc[c] = "ready"
  /\ DescriptorOpen(c)
  /\ ready' = ReadySent(c)
  /\ Goto(c, "check")
  /\ UNCHANGED <<peer, inbox, acceptVars, vectorVars, running, open, mainVars, poolVars>>

SendReadyFails(c) ==
  /\ pc[c] = "ready"
  /\ ~DescriptorOpen(c)
  /\ Fail(c)
  /\ Goto(c, "check")
  /\ UNCHANGED <<clientVars, acceptVars, vectorVars, open, mainVars, poolVars>>

\* while(client->isrunning() && !quit)
Check(c) ==
  /\ pc[c] = "check"
  /\ \E isrunning \in ReadRunning(c) :
       Goto(c, IF Stays(isrunning) THEN "recv" ELSE "release")
  /\ UNCHANGED <<clientVars, acceptVars, vectorVars, running, open, mainVars, poolVars>>

\* read() is entered: from here on it holds the open file, not the descriptor
Recv(c) ==
  /\ pc[c] = "recv"
  /\ DescriptorOpen(c)
  /\ Goto(c, "reading")
  /\ UNCHANGED <<clientVars, acceptVars, vectorVars, running, open, mainVars, poolVars>>

RecvFails(c) ==
  /\ pc[c] = "recv"
  /\ ~DescriptorOpen(c)
  /\ Fail(c)
  /\ Goto(c, "check")
  /\ UNCHANGED <<clientVars, acceptVars, vectorVars, open, mainVars, poolVars>>

\* a frame arrives; desynth.run follows
ReadFrame(c) ==
  /\ pc[c] = "reading"
  /\ inbox[c] > 0
  /\ inbox' = [inbox EXCEPT ![c] = @ - 1]
  /\ Goto(c, "check")
  /\ UNCHANGED <<peer, ready, acceptVars, vectorVars, running, open, mainVars, poolVars>>

ReadEof(c) ==
  /\ pc[c] = "reading"
  /\ AtEof(c)
  /\ Fail(c)
  /\ Goto(c, "check")
  /\ UNCHANGED <<clientVars, acceptVars, vectorVars, open, mainVars, poolVars>>

\* ~MidiChannel frees the channel, f returns and the thread ends
Release(c) ==
  /\ pc[c] = "release"
  /\ Pool!Release(c)
  /\ Goto(c, "done")
  /\ UNCHANGED <<clientVars, acceptVars, vectorVars, running, open, mainVars>>

Session(c) == \/ Construct(c) \/ Throw(c) \/ SendReady(c) \/ SendReadyFails(c)
              \/ Check(c) \/ Recv(c) \/ RecvFails(c)
              \/ ReadFrame(c) \/ ReadEof(c) \/ Release(c)

-----------------------------------------------------------------------------
\* SIGINT, and the main thread: when main returns, ~Server runs, then the
\* destructors of the vector's elements, first to last

Sigint ==
  /\ ~quit
  /\ quit' = TRUE
  /\ UNCHANGED <<clientVars, acceptVars, vectorVars, running, open, pc, mpc,
                 destroyed, poolVars>>

\* the handler runs on a session's thread and its read fails with EINTR:
\* sa_flags is not initialized, so SA_RESTART may be set or not
SigintInterrupts(c) ==
  /\ ~quit
  /\ quit' = TRUE
  /\ pc[c] = "reading"
  /\ Fail(c)
  /\ Goto(c, "check")
  /\ UNCHANGED <<clientVars, acceptVars, vectorVars, open, mpc, destroyed, poolVars>>

\* the loop in main ends, and ~Server closes sfd: the backlog is reset
CloseListening ==
  /\ mpc = "wait" /\ quit
  /\ listening' = FALSE
  /\ backlog' = <<>>
  /\ peer' = [c \in Clients |-> IF peer[c] = "queued" THEN "closed" ELSE peer[c]]
  /\ mpc' = "stop"
  /\ UNCHANGED <<ready, inbox, accepting, apc, vectorVars, running, open, pc,
                 quit, destroyed, poolVars>>

StopAccepting ==
  /\ mpc = "stop"
  /\ accepting' = FALSE
  /\ mpc' = "join"
  /\ UNCHANGED <<clientVars, backlog, listening, apc, vectorVars, running, open,
                 pc, quit, destroyed, poolVars>>

\* mutant: ~Server does not join its thread
NotJoined == TRUE
AcceptThreadEnded == apc = "stopped"

JoinAccept ==
  /\ mpc = "join"
  /\ AcceptThreadEnded
  /\ mpc' = "destroy"
  /\ UNCHANGED <<clientVars, acceptVars, vectorVars, running, open, pc, quit,
                 destroyed, poolVars>>

\* ~Connection: close(cfd), running = false, then join; a read that is
\* already waiting is not woken
DestroyConnection ==
  /\ mpc = "destroy"
  /\ destroyed < Len(clients)
  /\ LET c == clients[destroyed + 1] IN
       /\ open' = [open EXCEPT ![fd[c]] = Nobody]
       /\ running' = [running EXCEPT ![c] = FALSE]
  /\ destroyed' = destroyed + 1
  /\ mpc' = "joinSession"
  /\ UNCHANGED <<clientVars, acceptVars, vectorVars, pc, quit, poolVars>>

JoinSession ==
  /\ mpc = "joinSession"
  /\ pc[clients[destroyed]] = "done"
  /\ mpc' = "destroy"
  /\ UNCHANGED <<clientVars, acceptVars, vectorVars, running, open, pc, quit,
                 destroyed, poolVars>>

Exit ==
  /\ mpc = "destroy"
  /\ destroyed = Len(clients)
  /\ mpc' = "exited"
  /\ UNCHANGED <<clientVars, acceptVars, vectorVars, running, open, pc, quit,
                 destroyed, poolVars>>

Main == \/ CloseListening \/ StopAccepting \/ JoinAccept
        \/ DestroyConnection \/ JoinSession \/ Exit

AcceptThread == Accept \/ AcceptError \/ AcceptStop

-----------------------------------------------------------------------------
Next == \/ \E c \in Clients : \/ Connect(c) \/ SendFrame(c) \/ Close(c)
                              \/ Session(c) \/ SigintInterrupts(c)
        \/ AcceptThread
        \/ Sigint
        \/ Main
        \/ mpc = "exited" /\ UNCHANGED vars

Spec == Init /\ [][Next]_vars

\* every thread runs on, and a controller that was told to start goes on
\* sending; nothing makes a controller connect or leave, or a user interrupt
FairSpec == /\ Spec
            /\ WF_vars(AcceptThread)
            /\ WF_vars(Main)
            /\ \A c \in Clients : WF_vars(Session(c)) /\ WF_vars(SendFrame(c))

-----------------------------------------------------------------------------
PCs == {"none", "start", "ready", "check", "recv", "reading", "release", "done"}
MainPCs == {"wait", "stop", "join", "destroy", "joinSession", "exited"}

ClientType ==
  /\ peer \in [Clients -> {"idle", "queued", "open", "closed"}]
  /\ ready \in [Clients -> BOOLEAN]
  /\ inbox \in [Clients -> 0 .. Buffer]

AcceptType ==
  /\ backlog \in Seq(Clients)
  /\ listening \in BOOLEAN /\ accepting \in BOOLEAN
  /\ apc \in {"accept", "stopped"}

VectorType ==
  /\ clients \in Seq(Clients)
  /\ Cardinality(Elements) = Len(clients)
  /\ capacity \in Nat /\ Len(clients) <= capacity
  /\ fd \in [Clients -> Fds \cup {BadFd}]
  /\ dangling \in [Clients -> BOOLEAN]
  /\ open \in [Fds -> Clients \cup {Nobody}]

SessionType ==
  /\ running \in [Clients -> BOOLEAN]
  /\ pc \in [Clients -> PCs]

MainType ==
  /\ quit \in BOOLEAN
  /\ mpc \in MainPCs
  /\ destroyed \in 0 .. Len(clients)

PoolType ==
  /\ asked \in [Clients -> BOOLEAN]
  /\ stage \in [Clients -> {"out", "in", "refused", "gone"}]
  /\ got \in [Clients -> 0 .. ChannelCount]

\* Types of the server's state; the vector never holds a controller twice.
TypeOK == ClientType /\ AcceptType /\ VectorType /\ SessionType /\ MainType /\ PoolType

\* Growing the vector closes nobody's connection: until its own destructor
\* runs, every element has a descriptor that is open and is its controller's.
DescriptorsKept ==
  \A k \in DOMAIN clients : k > destroyed =>
    fd[clients[k]] \in Fds /\ open[fd[clients[k]]] = clients[k]

\* The accept thread gives up before the server is told to stop only when
\* the process has no descriptor left for one more controller.
AcceptsUntilFull == apc = "stopped" /\ ~quit => FreeFds = {}

\* The destructors run in a safe order: nobody adds to the vector once it is
\* being destroyed, no Connection goes away under a running session, and at
\* the end no descriptor and no channel is left.
CleanShutdown ==
  /\ mpc \in {"destroy", "joinSession", "exited"} => apc = "stopped"
  /\ \A k \in DOMAIN clients :
       k < destroyed \/ (k = destroyed /\ mpc # "joinSession")
         => pc[clients[k]] = "done"
  /\ mpc = "exited" => /\ \A f \in Fds : open[f] = Nobody
                       /\ \A c \in Clients : got[c] = ChannelCount

\* A session serves its controller from the end of the constructors to the
\* destructor of its MidiChannel.
Serving == {"ready", "check", "recv", "reading", "release"}
Served == {c \in Clients : pc[c] \in Serving}

\* The server plays for no more controllers at once than there are channels:
\* those being served have a channel each, no two the same, and nobody else
\* has one, whether it has yet to start, was refused or has ended.
ChannelEach ==
  /\ \A c \in Clients : got[c] # ChannelCount <=> c \in Served
  /\ \A c, d \in Served : got[c] = got[d] => c = d
  /\ IsFiniteSet(Served) /\ Cardinality(Served) <= ChannelCount

\* A controller that found no channel is left on its own (midi.cpp's No_Channel
\* is caught in Connection::run): it is never told to start, and until SIGINT
\* its connection stays open, even though its thread has ended.
RefusedLeftOpen ==
  \A c \in Clients : stage[c] = "refused" =>
    /\ ~ready[c] /\ pc[c] = "done"
    /\ ~quit => fd[c] \in Fds /\ open[fd[c]] = c

\* A session whose Connection was never moved leaves its loop only for
\* SIGINT or because its controller is gone and every frame has been read.
SessionEndsForCause ==
  [][\A c \in Clients : pc[c] = "check" /\ pc'[c] = "release" =>
       quit \/ dangling[c] \/ (peer[c] = "closed" /\ inbox[c] = 0)]_vars

\* After SIGINT the server exits: no thread it joins waits for ever.
QuitExits == quit ~> mpc = "exited"

\* A waiting controller gets its ready byte or finds the channels taken,
\* unless the server stops or its Connection moves first.
ClientAnswered ==
  \A c \in Clients : peer[c] = "queued" ~>
    ready[c] \/ stage[c] = "refused" \/ dangling[c] \/ quit \/ apc = "stopped"

\* A controller that the network makes wait can send again, unless the server
\* stops or its Connection moves.
FramesRead ==
  \A c \in Clients : inbox[c] = Buffer ~> inbox[c] < Buffer \/ dangling[c] \/ quit

\* README.md, section Socket: one Connection with a dedicated thread for each
\* client it accepts.  While the controller stays and the server is not told
\* to stop, the session that serves it goes on.
ServedWhileConnected ==
  \A c \in Clients : stage[c] = "gone" => peer[c] = "closed" \/ quit
=============================================================================
