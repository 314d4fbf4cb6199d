----------------------------- MODULE Controller -----------------------------
(***************************************************************************)
(* The controller program (controller/main.cpp, socket/client.cpp and      *)
(* localcontroller/localcontroller.cpp): the main thread that connects,    *)
(* waits and takes everything down again, the thread of its one            *)
(* Connection, which sends a window to the server every 40 ms, and the     *)
(* audio callback that leaves the windows in a LocalController.            *)
(*                                                                         *)
(* The server is the environment: it may be down, start and stop at any    *)
(* time, and the session that serves this controller may end without       *)
(* closing the connection, which is then silent (module Server: No_Channel *)
(* and a Connection that was moved).                                       *)
(***************************************************************************)
EXTENDS Naturals

CONSTANTS N,              \* elements of a window: OUTPUT_FFT_SIZE
          Windows,        \* windows are numbered modulo this
          Turns,          \* turns of main's loop without -f
          Descriptors,    \* descriptors the process can open
          Buffer          \* frames the network buffers

ASSUME ControllerAssumption ==
  /\ N \in Nat \ {0} /\ Windows \in Nat \ {0}
  /\ Turns \in Nat /\ Descriptors \in Nat \ {0} /\ Buffer \in Nat \ {0}

Indices == 0 .. (N - 1)

VARIABLES
  \* the main thread
  forever,                \* the option -f
  quit,                   \* set by the SIGINT handler
  mpc, i,                 \* where main has got to, its loop variable
  leaked,                 \* descriptors of attempts that failed, never closed
  opened,                 \* sfd of the Client, which is cfd of its Connection
  \* the connection's thread, in socket_send
  cpc, ci,                \* its next step, the index in GetData's copy
  running,                \* Connection::running
  ready,                  \* it has received the ready byte
  failed,                 \* one of its reads or writes has failed
  localArray,
  \* LocalController: the window left by the audio callback
  mtx, fft_data, apc, ai, window,
  \* the server and the connection to it
  server,                 \* it listens
  conn,                   \* "none", "open", "silent", "fin", "reset", "broken"
  answered,               \* the ready byte was sent
  flight                  \* frames the server has not read

mainVars == <<forever, quit, mpc, i, leaked, opened>>
senderVars == <<cpc, ci, running, ready, failed, localArray>>
audioVars == <<mtx, fft_data, apc, ai, window>>
networkVars == <<server, conn, answered, flight>>
vars == <<mainVars, senderVars, audioVars, networkVars>>

\* windows are numbered from 1; 0 is memory that was never written
Init ==
  /\ forever \in BOOLEAN /\ quit = FALSE
  /\ mpc = "connect" /\ i = 0 /\ leaked = 0 /\ opened = FALSE
  /\ cpc = "none" /\ ci = 0 /\ running = FALSE /\ ready = FALSE /\ failed = FALSE
  /\ localArray = [k \in Indices |-> 0]
  /\ mtx = "free" /\ apc = "idle" /\ ai = 0 /\ window = 0
  /\ fft_data = [k \in Indices |-> 0]
  /\ server = FALSE /\ conn = "none" /\ answered = FALSE /\ flight = 0

Alive == mpc \notin {"exited", "killed"}

-----------------------------------------------------------------------------
\* The parts of the code that the checks below mutate, each after its mutant

\* mutant: the result of socket() is not looked at
SocketUnchecked == TRUE
HasDescriptor == leaked < Descriptors

\* mutant: the loop of main does not look at quit
TurnsLeft == i < Turns
KeepsWaiting == i < Turns /\ ~quit

\* mutant: ~Connection does not join its thread
NotJoined == TRUE
SenderEnded == cpc = "ended"

\* mutant: a failed read or write leaves running as it was
FailureIgnored == failed' = TRUE /\ UNCHANGED running
Fail == failed' = TRUE /\ running' = FALSE

\* mutant: the mutex is not taken
MutexIgnored == TRUE
MutexFree == mtx = "free"

-----------------------------------------------------------------------------
\* main: while(!quit) make a Client

\* socket() has no descriptor: No_Socket leaves the loop and ends main
NoSocket ==
  /\ mpc = "connect" /\ ~quit
  /\ ~HasDescriptor
  /\ mpc' = "return"
  /\ UNCHANGED <<forever, quit, i, leaked, opened, senderVars, audioVars, networkVars>>

\* Connection_Error, thrown by the constructor: ~Client does not run, and the
\* base class closes nothing; main waits a second and tries again
ConnectFails ==
  /\ mpc = "connect" /\ ~quit
  /\ HasDescriptor
  /\ leaked' = leaked + 1
  /\ UNCHANGED <<forever, quit, mpc, i, opened, senderVars, audioVars, networkVars>>

ConnectSucceeds ==
  /\ mpc = "connect" /\ ~quit
  /\ HasDescriptor
  /\ server
  /\ opened' = TRUE
  /\ conn' = "open"
  /\ cpc' = "recv" /\ running' = TRUE
  /\ mpc' = "loop"
  /\ UNCHANGED <<forever, quit, i, leaked, ci, ready, failed, localArray,
                 audioVars, server, answered, flight>>

StopTrying ==
  /\ mpc = "connect" /\ quit
  /\ mpc' = "loop"
  /\ UNCHANGED <<forever, quit, i, leaked, opened, senderVars, audioVars, networkVars>>

\* for(int i = 0; i < 1000 && !quit; forever ? i : i++)
Turn ==
  /\ mpc = "loop"
  /\ KeepsWaiting
  /\ i' = IF forever THEN i ELSE i + 1
  /\ UNCHANGED <<forever, quit, mpc, leaked, opened, senderVars, audioVars, networkVars>>

\* the try block ends, and with it the unique_ptr to the Client, if any
LoopEnds ==
  /\ mpc = "loop"
  /\ ~KeepsWaiting
  /\ mpc' = IF cpc = "none" THEN "return" ELSE "closeClient"
  /\ UNCHANGED <<forever, quit, i, leaked, opened, senderVars, audioVars, networkVars>>

\* ~Client closes sfd, then ~Connection closes the same number, which nothing
\* has opened in between, and clears running
CloseClient ==
  /\ mpc = "closeClient"
  /\ opened' = FALSE
  /\ mpc' = "closeConnection"
  /\ UNCHANGED <<forever, quit, i, leaked, senderVars, audioVars, networkVars>>

CloseConnection ==
  /\ mpc = "closeConnection"
  /\ running' = FALSE
  /\ mpc' = "join"
  /\ UNCHANGED <<forever, quit, i, leaked, opened, cpc, ci, ready, failed, localArray,
                 audioVars, networkVars>>

Join ==
  /\ mpc = "join"
  /\ SenderEnded
  /\ mpc' = "return"
  /\ UNCHANGED <<forever, quit, i, leaked, opened, senderVars, audioVars, networkVars>>

\* main has returned and ~LocalController runs: Pa_StopStream starts no more
\* callbacks and waits for the one in progress, then the arrays are deleted
StopStream ==
  /\ mpc = "return"
  /\ mpc' = "stopStream"
  /\ UNCHANGED <<forever, quit, i, leaked, opened, senderVars, audioVars, networkVars>>

DestroyLocalController ==
  /\ mpc = "stopStream"
  /\ apc = "idle"
  /\ mpc' = "exited"
  /\ UNCHANGED <<forever, quit, i, leaked, opened, senderVars, audioVars, networkVars>>

Main == \/ NoSocket \/ ConnectFails \/ ConnectSucceeds \/ StopTrying
        \/ Turn \/ LoopEnds
        \/ CloseClient \/ CloseConnection \/ Join
        \/ StopStream \/ DestroyLocalController

Sigint ==
  /\ Alive /\ ~quit
  /\ quit' = TRUE
  /\ UNCHANGED <<forever, mpc, i, leaked, opened, senderVars, audioVars, networkVars>>

-----------------------------------------------------------------------------
\* socket_send, on the connection's thread

\* a read or write on a descriptor that main has closed
BadDescriptor ==
  /\ Alive /\ cpc \in {"recv", "send"} /\ ~opened
  /\ Fail /\ cpc' = "check"
  /\ UNCHANGED <<mainVars, ci, ready, localArray, audioVars, networkVars>>

\* read or write is entered: from here on main's close changes nothing
EnterCall ==
  /\ Alive /\ cpc \in {"recv", "send"} /\ opened
  /\ cpc' = IF cpc = "recv" THEN "reading" ELSE "writing"
  /\ UNCHANGED <<mainVars, ci, running, ready, failed, localArray, audioVars, networkVars>>

\* sa_flags is not initialized: SIGINT may make the call fail with EINTR
SigintInterrupts ==
  /\ Alive /\ ~quit /\ cpc \in {"reading", "writing"}
  /\ quit' = TRUE
  /\ Fail /\ cpc' = "check"
  /\ UNCHANGED <<forever, mpc, i, leaked, opened, ci, ready, localArray,
                 audioVars, networkVars>>

RecvReady ==
  /\ Alive /\ cpc = "reading"
  /\ answered /\ conn # "reset"
  /\ ready' = TRUE
  /\ cpc' = "check"
  /\ UNCHANGED <<mainVars, ci, running, failed, localArray, audioVars, networkVars>>

RecvFails ==
  /\ Alive /\ cpc = "reading"
  /\ conn = "reset" \/ (conn = "fin" /\ ~answered)
  /\ Fail /\ cpc' = "check"
  /\ UNCHANGED <<mainVars, ci, ready, localArray, audioVars, networkVars>>

\* while(client->isrunning() && !quit)
Check ==
  /\ Alive /\ cpc = "check"
  /\ cpc' = IF running /\ ~quit THEN "lock" ELSE "ended"
  /\ ci' = 0
  /\ UNCHANGED <<mainVars, running, ready, failed, localArray, audioVars, networkVars>>

\* lc.GetData(localArray.data())
LockData ==
  /\ Alive /\ cpc = "lock"
  /\ MutexFree /\ mtx' = "sender"
  /\ cpc' = "copy"
  /\ UNCHANGED <<mainVars, ci, running, ready, failed, localArray, fft_data, apc, ai,
                 window, networkVars>>

CopyData ==
  /\ Alive /\ cpc = "copy" /\ ci < N
  /\ localArray' = [localArray EXCEPT ![ci] = fft_data[ci]]
  /\ ci' = ci + 1
  /\ UNCHANGED <<mainVars, cpc, running, ready, failed, audioVars, networkVars>>

UnlockData ==
  /\ Alive /\ cpc = "copy" /\ ci = N
  /\ mtx' = "free"
  /\ cpc' = "send"
  /\ UNCHANGED <<mainVars, ci, running, ready, failed, localArray, fft_data, apc, ai,
                 window, networkVars>>

\* the network takes the frame
Write ==
  /\ Alive /\ cpc = "writing"
  /\ conn \in {"open", "silent"} /\ flight < Buffer
  /\ flight' = flight + 1
  /\ cpc' = "check"
  /\ UNCHANGED <<mainVars, ci, running, ready, failed, localArray, audioVars,
                 server, conn, answered>>

\* the server has closed its end: the frame is lost, and the answer to it
\* breaks the connection sooner or later
WriteAfterFin ==
  /\ Alive /\ cpc = "writing"
  /\ conn = "fin" /\ conn' \in {"fin", "broken"}
  /\ cpc' = "check"
  /\ UNCHANGED <<mainVars, ci, running, ready, failed, localArray, audioVars,
                 server, answered, flight>>

\* ECONNRESET, once
WriteFails ==
  /\ Alive /\ cpc = "writing"
  /\ conn = "reset" /\ conn' = "broken"
  /\ Fail /\ cpc' = "check"
  /\ UNCHANGED <<mainVars, ci, ready, localArray, audioVars, server, answered, flight>>

\* EPIPE comes with SIGPIPE, which nothing handles or ignores
Sigpipe ==
  /\ Alive /\ cpc = "writing"
  /\ conn = "broken"
  /\ mpc' = "killed"
  /\ UNCHANGED <<forever, quit, i, leaked, opened, senderVars, audioVars, networkVars>>

Sender == \/ BadDescriptor \/ EnterCall \/ RecvReady \/ RecvFails \/ Check
          \/ CopyData \/ UnlockData
          \/ Write \/ WriteAfterFin \/ WriteFails \/ Sigpipe

-----------------------------------------------------------------------------
\* LocalController::callback, on PortAudio's thread

AudioLock ==
  /\ Alive /\ apc = "idle" /\ mpc # "stopStream"
  /\ MutexFree /\ mtx' = "audio"
  /\ window' = (window % Windows) + 1
  /\ apc' = "transform" /\ ai' = 0
  /\ UNCHANGED <<mainVars, senderVars, fft_data, networkVars>>

AudioElement ==
  /\ Alive /\ apc = "transform" /\ ai < N
  /\ fft_data' = [fft_data EXCEPT ![ai] = window]
  /\ ai' = ai + 1
  /\ UNCHANGED <<mainVars, senderVars, mtx, apc, window, networkVars>>

AudioUnlock ==
  /\ Alive /\ apc = "transform" /\ ai = N
  /\ mtx' = "free"
  /\ apc' = "idle"
  /\ UNCHANGED <<mainVars, senderVars, fft_data, ai, window, networkVars>>

Audio == AudioLock \/ AudioElement \/ AudioUnlock

-----------------------------------------------------------------------------
\* The server

ServerStarts ==
  /\ ~server
  /\ server' = TRUE
  /\ UNCHANGED <<mainVars, senderVars, audioVars, conn, answered, flight>>

\* its connections are closed: with a reset if it had not read everything, or
\* had not accepted this one yet
ServerStops ==
  /\ server
  /\ server' = FALSE
  /\ conn' \in (IF conn \notin {"open", "silent"} THEN {conn}
                ELSE IF flight > 0 THEN {"reset"}
                ELSE IF answered THEN {"fin"} ELSE {"fin", "reset"})
  /\ UNCHANGED <<mainVars, senderVars, audioVars, answered, flight>>

\* No_Channel, or the session ends because its Connection was moved
SessionGone ==
  /\ conn = "open"
  /\ conn' = "silent"
  /\ UNCHANGED <<mainVars, senderVars, audioVars, server, answered, flight>>

ServerAnswers ==
  /\ conn = "open" /\ ~answered
  /\ answered' = TRUE
  /\ UNCHANGED <<mainVars, senderVars, audioVars, server, conn, flight>>

ServerReads ==
  /\ conn = "open" /\ flight > 0
  /\ flight' = flight - 1
  /\ UNCHANGED <<mainVars, senderVars, audioVars, server, conn, answered>>

-----------------------------------------------------------------------------
Next == \/ Main \/ Sigint
        \/ Sender \/ LockData \/ SigintInterrupts
        \/ Audio
        \/ ServerStarts \/ ServerStops \/ SessionGone
        \/ ServerAnswers \/ ServerReads

Spec == Init /\ [][Next]_vars

\* every thread runs on, GetData gets the mutex between two callbacks, which
\* are 40 ms apart, and a session that goes on answers and reads
FairSpec == /\ Spec
            /\ WF_vars(Main) /\ WF_vars(Sender) /\ SF_vars(LockData)
            /\ WF_vars(Audio)
            /\ WF_vars(ServerAnswers) /\ WF_vars(ServerReads)

-----------------------------------------------------------------------------
MainPCs == {"connect", "loop", "closeClient", "closeConnection", "join", "return",
            "stopStream", "exited", "killed"}
SenderPCs == {"none", "recv", "reading", "check", "lock", "copy", "send", "writing",
              "ended"}

MainType ==
  /\ forever \in BOOLEAN /\ quit \in BOOLEAN /\ opened \in BOOLEAN
  /\ mpc \in MainPCs /\ i \in 0 .. Turns
  /\ leaked \in 0 .. Descriptors /\ (opened => leaked < Descriptors)

SenderType ==
  /\ cpc \in SenderPCs /\ ci \in 0 .. N
  /\ running \in BOOLEAN /\ ready \in BOOLEAN /\ failed \in BOOLEAN
  /\ localArray \in [Indices -> 0 .. Windows]

AudioType ==
  /\ mtx \in {"free", "sender", "audio"}
  /\ fft_data \in [Indices -> 0 .. Windows]
  /\ apc \in {"idle", "transform"} /\ ai \in 0 .. N /\ window \in 0 .. Windows

NetworkType ==
  /\ server \in BOOLEAN /\ answered \in BOOLEAN /\ flight \in 0 .. Buffer
  /\ conn \in {"none", "open", "silent", "fin", "reset", "broken"}

\* Types of the controller's state; it never has more descriptors than there are.
TypeOK == MainType /\ SenderType /\ AudioType /\ NetworkType

\* GetData returns the window that the latest callback left, never a mixture
\* of two, and that is what is sent.
FrameWhole ==
  /\ cpc = "copy" /\ ci = N => \A k \in Indices : localArray[k] = window
  /\ cpc \in {"send", "writing"} => \A k \in Indices : localArray[k] = localArray[0]

\* The LocalController, a global, is destroyed after the thread that takes
\* windows out of it and the callback that fills it have ended.
LocalControllerOutlivesUse ==
  mpc = "exited" => cpc \in {"none", "ended"} /\ apc = "idle" /\ mtx = "free"

\* Windows go only to a server that has sent its ready byte, and after a read
\* or write has failed the connection is not touched again.
SendsOnlyWhenReady ==
  cpc \in {"lock", "copy", "send", "writing"} => ready /\ ~failed

\* Told to stop, by SIGINT or by the end of its turns, the program ends,
\* whatever its thread is doing, unless the server keeps a connection that
\* nobody serves: only then does the join wait.
StopsWhenTold ==
  (quit \/ (~forever /\ cpc # "none")) ~> (~Alive \/ conn = "silent")

\* controller/main.cpp:85, "Keep looping on connection error in case server has
\* not been set up": until it is told to quit the controller goes on trying.
KeepsLooping == mpc \in {"return", "stopStream", "exited"} /\ cpc = "none" => quit
=============================================================================
