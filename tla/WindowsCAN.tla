------------------------------ MODULE WindowsCAN ------------------------------
(***************************************************************************)
(* WindowsCANInterface::Impl (src/src/platform/windows_can.cpp): a UDP     *)
(* gateway with its receive thread, and a simulation that answers every    *)
(* Period-th message on the thread that sends it.  Both run the receive    *)
(* callback under callback_mutex_ and fill the queue behind receive().     *)
(*                                                                         *)
(* Winsock and the gateway are external: sockets are numbered in the order *)
(* in which they are made, frames in the order in which they are made or   *)
(* read.                                                                   *)
(***************************************************************************)
EXTENDS Naturals, FiniteSets, SequencesExt

CONSTANTS
    Users,          \* threads that call the interface
    Ops,            \* Ops[u]: the operations thread u calls
    Reopen,         \* may init be called on an open interface?
    Period,         \* the simulation answers every Period-th message (10 in the code)
    MaxInits,       \* bound: gateway sockets, hence receive threads, in a behaviour
    MaxSends,       \* bound: no message is sent once as many are counted
    MaxFrames,      \* bound: no message is sent, no frame read, once there
                    \* were as many
    NoThread        \* a std::thread that is not joinable; nobody

Operations == {"simulate", "gateway", "close", "register", "send", "receive"}

\* INVALID_SOCKET
NoSocket == 0

RxThreads == 1 .. MaxInits
Actors == Users \cup RxThreads

ASSUME WindowsCANAssumption ==
    /\ Ops \in [Users -> SUBSET Operations]
    /\ Reopen \in BOOLEAN
    /\ Period \in Nat \ {0}
    /\ MaxInits \in Nat
    /\ MaxSends \in Nat
    /\ MaxFrames \in Nat
    /\ Users \cap RxThreads = {}
    /\ NoThread \notin Actors

VARIABLES
    is_open,            \* is_open_
    simulation_mode,    \* simulation_mode_
    use_gateway,        \* use_gateway_
    sock,               \* gateway_socket_
    sockets,            \* the sockets the process has open
    made,               \* number of sockets made
    winsock,            \* WSAStartups that no WSACleanup has undone
    should_stop,        \* should_stop_
    rx_thread,          \* rx_thread_: the thread it can join
    callback,           \* is callback_ set?
    callback_owner,     \* the thread that holds callback_mutex_
    rx_queue,           \* rx_queue_
    count,              \* sim_message_count_
    pc,                 \* where each thread is
    frame,              \* the frame each thread works on
    frames,             \* number of frames answered or read
    seen,               \* history: frames that went through the callback block
    taken,              \* history: frames that receive() returned
    answers,            \* history: simulated answers to the messages of each user
    lastInit,           \* history: the latest init called
    strayed,            \* history: a message went to the gateway although lastInit
                        \* was for simulation
    reopened,           \* history: init was called on an open interface
    terminated          \* std::terminate was called

modeVars   == <<is_open, simulation_mode, use_gateway>>
socketVars == <<sock, sockets, made, winsock>>
threadVars == <<should_stop, rx_thread>>
callVars   == <<callback, callback_owner, seen>>
queueVars  == <<rx_queue, taken>>
frameVars  == <<frame, frames>>
simVars    == <<count, answers>>
trafficVars == <<callVars, queueVars, frameVars, simVars>>
initVars   == <<lastInit, reopened, strayed>>
vars == <<modeVars, socketVars, threadVars, trafficVars, initVars, pc, terminated>>

\* Next uses none of the operators marked (bug): they are the forms that the
\* properties are tried against.

Alive(k) == pc[k] \notin {"unborn", "done"}

At(a, from, to) == pc[a] = from /\ pc' = [pc EXCEPT ![a] = to]

-----------------------------------------------------------------------------
(* init *)

CallsInit(u, mode) ==
    /\ mode \in Ops[u]
    /\ Reopen \/ ~is_open
    /\ lastInit' = mode
    /\ reopened' = (reopened \/ is_open)
    /\ UNCHANGED strayed

\* init("sim"), and any name that is not a gateway's (initAdapter).
InitSimulation(u) ==
    /\ CallsInit(u, "simulate")
    /\ pc[u] = "idle"
    /\ simulation_mode' = TRUE
    /\ is_open' = TRUE
    /\ UNCHANGED <<use_gateway, socketVars, threadVars, trafficVars, pc, terminated>>

\* initGateway.  A wrong address, or a WSAStartup that fails, changes nothing.
StartWinsock(u) ==
    /\ CallsInit(u, "gateway")
    /\ made < MaxInits
    /\ \/ At(u, "idle", "socket") /\ winsock' = winsock + 1
       \/ pc[u] = "idle" /\ UNCHANGED <<pc, winsock>>
    /\ UNCHANGED <<modeVars, sock, sockets, made, threadVars, trafficVars, terminated>>

\* (bug) A socket() that fails returns without WSACleanup.
SocketLeaks(u) ==
    /\ \/ /\ At(u, "socket", "mark")
          /\ made' = made + 1
          /\ sock' = made + 1
          /\ sockets' = sockets \cup {made + 1}
       \/ /\ At(u, "socket", "idle")
          /\ sock' = NoSocket
          /\ UNCHANGED <<made, sockets>>
    /\ UNCHANGED <<modeVars, winsock, threadVars, trafficVars, initVars, terminated>>

CreateSocket(u) ==
    /\ \/ /\ At(u, "socket", "mark")
          /\ made' = made + 1
          /\ sock' = made + 1
          /\ sockets' = sockets \cup {made + 1}
          /\ UNCHANGED winsock
       \/ /\ At(u, "socket", "idle")
          /\ sock' = NoSocket
          /\ winsock' = winsock - 1
          /\ UNCHANGED <<made, sockets>>
    /\ UNCHANGED <<modeVars, threadVars, trafficVars, initVars, terminated>>

\* use_gateway_ = true; is_open_ = true;
MarkGateway(u) ==
    /\ At(u, "mark", "start")
    /\ use_gateway' = TRUE
    /\ is_open' = TRUE
    /\ UNCHANGED <<simulation_mode, socketVars, threadVars, trafficVars, initVars,
                   terminated>>

\* startReceiveThread
LowerStop(u) ==
    /\ At(u, "start", "launch")
    /\ should_stop' = FALSE
    /\ UNCHANGED <<modeVars, socketVars, rx_thread, trafficVars, initVars, terminated>>

\* rx_thread_ = std::thread(...).  Assigning to a thread that is joinable
\* calls std::terminate.  The thread has the number of its socket.
Launch(u) ==
    /\ pc[u] = "launch"
    /\ IF rx_thread # NoThread
       THEN terminated' = TRUE /\ UNCHANGED <<rx_thread, pc>>
       ELSE /\ rx_thread' = made
            /\ pc' = [pc EXCEPT ![u] = "idle", ![made] = "while"]
            /\ UNCHANGED terminated
    /\ UNCHANGED <<modeVars, socketVars, should_stop, trafficVars, initVars>>

-----------------------------------------------------------------------------
(* close, and the destructor: stopReceiveThread, closeInterface *)

CallClose(u) ==
    /\ "close" \in Ops[u]
    /\ At(u, "idle", "join")
    /\ should_stop' = TRUE
    /\ UNCHANGED <<modeVars, socketVars, rx_thread, trafficVars, initVars, terminated>>

\* if (rx_thread_.joinable()) rx_thread_.join();
Join(u) ==
    /\ rx_thread # NoThread => pc[rx_thread] = "done"
    /\ At(u, "join", "shut")
    /\ rx_thread' = NoThread
    /\ UNCHANGED <<modeVars, socketVars, should_stop, trafficVars, initVars, terminated>>

\* (bug) close leaves the socket open and only forgets that the interface is.
ShutNothing(u) ==
    /\ At(u, "shut", "closed")
    /\ UNCHANGED <<modeVars, socketVars, threadVars, trafficVars, initVars, terminated>>

\* closesocket, INVALID_SOCKET, WSACleanup
Shut(u) ==
    /\ At(u, "shut", "closed")
    /\ IF use_gateway /\ sock # NoSocket
       THEN /\ sockets' = sockets \ {sock}
            /\ sock' = NoSocket
            /\ winsock' = winsock - 1
       ELSE UNCHANGED <<sockets, sock, winsock>>
    /\ UNCHANGED <<modeVars, made, threadVars, trafficVars, initVars, terminated>>

\* is_open_ = false; the two modes keep their values.
MarkClosed(u) ==
    /\ At(u, "closed", "idle")
    /\ is_open' = FALSE
    /\ UNCHANGED <<simulation_mode, use_gateway, socketVars, threadVars, trafficVars,
                   initVars, terminated>>

-----------------------------------------------------------------------------
(* registerCallback and receive *)

RegisterCallback(u) ==
    /\ "register" \in Ops[u]
    /\ pc[u] = "idle"
    /\ callback_owner = NoThread
    /\ callback' \in BOOLEAN
    /\ UNCHANGED <<modeVars, socketVars, threadVars, callback_owner, seen, queueVars,
                   frameVars, simVars, initVars, pc, terminated>>

\* receive with a frame in the queue; without one it waits and returns false.
Receive(u) ==
    /\ "receive" \in Ops[u]
    /\ pc[u] = "idle"
    /\ rx_queue # << >>
    /\ rx_queue' = Tail(rx_queue)
    /\ taken' = Append(taken, Head(rx_queue))
    /\ UNCHANGED <<modeVars, socketVars, threadVars, callVars, frameVars, simVars, initVars,
                   pc, terminated>>

-----------------------------------------------------------------------------
(* send *)

\* if (!is_open_) return false.
CheckOpen(u) ==
    /\ "send" \in Ops[u]
    /\ count < MaxSends /\ frames < MaxFrames
    /\ IF is_open THEN At(u, "idle", "mode") ELSE pc[u] = "idle" /\ UNCHANGED pc
    /\ UNCHANGED <<modeVars, socketVars, threadVars, trafficVars, initVars, terminated>>

\* if (simulation_mode_) ... if (use_gateway_) ...
ChooseMode(u) ==
    /\ IF simulation_mode THEN At(u, "mode", "count")
       ELSE IF use_gateway THEN At(u, "mode", "sendto") ELSE At(u, "mode", "idle")
    /\ UNCHANGED <<modeVars, socketVars, threadVars, trafficVars, initVars, terminated>>

\* (bug) The counter is a plain integer: an increment may be lost.
CountMaybe(u) ==
    /\ At(u, "count", "test")
    /\ count' \in {count, count + 1}
    /\ UNCHANGED <<modeVars, socketVars, threadVars, callVars, queueVars, frameVars,
                   answers, initVars, terminated>>

\* sim_message_count_++
CountMessage(u) ==
    /\ At(u, "count", "test")
    /\ count' = count + 1
    /\ UNCHANGED <<modeVars, socketVars, threadVars, callVars, queueVars, frameVars,
                   answers, initVars, terminated>>

\* if (sim_message_count_ % 10 == 0): a second look at the counter.
TestCount(u) ==
    /\ IF count % Period = 0
       THEN /\ At(u, "test", "push")
            /\ frames' = frames + 1
            /\ frame' = [frame EXCEPT ![u] = frames + 1]
            /\ answers' = [answers EXCEPT ![u] = @ + 1]
       ELSE At(u, "test", "idle") /\ UNCHANGED <<frameVars, answers>>
    /\ UNCHANGED <<modeVars, socketVars, threadVars, callVars, queueVars, count, initVars,
                   terminated>>

\* sendto, which fails without a socket and may fail with one.
SendTo(u) ==
    /\ At(u, "sendto", "idle")
    /\ \/ UNCHANGED strayed
       \/ sock \in sockets /\ strayed' = (strayed \/ lastInit # "gateway")
    /\ UNCHANGED <<modeVars, socketVars, threadVars, trafficVars, lastInit, reopened,
                   terminated>>

-----------------------------------------------------------------------------
(* Frames to the user: a simulated answer is queued and then given to the  *)
(* callback, a frame of the gateway the other way round.                   *)

\* rx_queue_.push(...)
Push(a) ==
    /\ At(a, "push", IF a \in Users THEN "lock" ELSE "while")
    /\ rx_queue' = Append(rx_queue, frame[a])
    /\ UNCHANGED <<modeVars, socketVars, threadVars, callVars, taken, frameVars, simVars,
                   initVars, terminated>>

AfterCallback(a) == IF a \in Users THEN "idle" ELSE "push"

\* (bug) try_lock: the callback misses a frame that comes while it runs.
CallOrSkip(a) ==
    /\ IF callback /\ callback_owner = NoThread
       THEN At(a, "lock", "call") /\ callback_owner' = a
       ELSE At(a, "lock", AfterCallback(a)) /\ UNCHANGED callback_owner
    /\ seen' = IF callback_owner = NoThread THEN Append(seen, frame[a]) ELSE seen
    /\ UNCHANGED <<modeVars, socketVars, threadVars, callback, queueVars, frameVars,
                   simVars, initVars, terminated>>

\* lock_guard; if (callback_) callback_(frame);
LockAndCall(a) ==
    /\ callback_owner = NoThread
    /\ IF callback
       THEN At(a, "lock", "call") /\ callback_owner' = a
       ELSE At(a, "lock", AfterCallback(a)) /\ UNCHANGED callback_owner
    /\ seen' = Append(seen, frame[a])
    /\ UNCHANGED <<modeVars, socketVars, threadVars, callback, queueVars, frameVars,
                   simVars, initVars, terminated>>

CallbackReturns(a) ==
    /\ At(a, "call", AfterCallback(a))
    /\ callback_owner' = NoThread
    /\ UNCHANGED <<modeVars, socketVars, threadVars, callback, seen, queueVars, frameVars,
                   simVars, initVars, terminated>>

-----------------------------------------------------------------------------
(* The receive thread *)

\* receiveLoop: while (!should_stop_).  It is started with use_gateway_ set,
\* which nothing resets: each turn calls receiveFromGateway.
TestStop(k) ==
    /\ At(k, "while", IF should_stop THEN "done" ELSE "recvfrom")
    /\ UNCHANGED <<modeVars, socketVars, threadVars, trafficVars, initVars, terminated>>

\* (bug) No timeout is set on the socket: recvfrom waits for a datagram.
ReceiveBlocks(k) ==
    /\ frames < MaxFrames
    /\ sock \in sockets
    /\ At(k, "recvfrom", "lock")
    /\ frames' = frames + 1
    /\ frame' = [frame EXCEPT ![k] = frames + 1]
    /\ UNCHANGED <<modeVars, socketVars, threadVars, callVars, queueVars, simVars, initVars,
                   terminated>>

\* recvfrom: a datagram of 69 bytes; or another one, an error or, after 100 ms,
\* nothing.
ReceiveFrom(k) ==
    /\ \/ At(k, "recvfrom", "while") /\ UNCHANGED frameVars
       \/ /\ frames < MaxFrames
          /\ sock \in sockets
          /\ At(k, "recvfrom", "lock")
          /\ frames' = frames + 1
          /\ frame' = [frame EXCEPT ![k] = frames + 1]
    /\ UNCHANGED <<modeVars, socketVars, threadVars, callVars, queueVars, simVars, initVars,
                   terminated>>

-----------------------------------------------------------------------------
Init ==
    /\ is_open = FALSE /\ simulation_mode = FALSE /\ use_gateway = FALSE
    /\ sock = NoSocket /\ sockets = {} /\ made = 0 /\ winsock = 0
    /\ should_stop = FALSE /\ rx_thread = NoThread
    /\ callback = FALSE /\ callback_owner = NoThread /\ seen = << >>
    /\ rx_queue = << >> /\ taken = << >>
    /\ frame = [a \in Actors |-> 0] /\ frames = 0
    /\ count = 0 /\ answers = [u \in Users |-> 0]
    /\ lastInit = "none" /\ reopened = FALSE /\ strayed = FALSE /\ terminated = FALSE
    /\ pc = [a \in Actors |-> IF a \in Users THEN "idle" ELSE "unborn"]

\* The steps of a call that user u has begun.
UserStep(u) ==
    \/ CreateSocket(u)
    \/ MarkGateway(u)
    \/ LowerStop(u)
    \/ Launch(u)
    \/ Join(u)
    \/ Shut(u)
    \/ MarkClosed(u)
    \/ ChooseMode(u)
    \/ CountMessage(u)
    \/ TestCount(u)
    \/ SendTo(u)

Deliver(a) == Push(a) \/ LockAndCall(a) \/ CallbackReturns(a)

ReceiveStep(k) == TestStop(k) \/ ReceiveFrom(k) \/ Deliver(k)

Next ==
    /\ ~terminated
    /\ \/ \E u \in Users :
             \/ InitSimulation(u)
             \/ StartWinsock(u)
             \/ CallClose(u)
             \/ RegisterCallback(u)
             \/ Receive(u)
             \/ CheckOpen(u)
             \/ UserStep(u)
             \/ Deliver(u)
       \/ \E k \in RxThreads : ReceiveStep(k)

Spec == Init /\ [][Next]_vars

(***************************************************************************)
(* Threads run, recvfrom returns after 100 ms at the latest, and the       *)
(* callback returns.  Nobody has to call the interface, and no frame has   *)
(* to come.                                                                *)
(***************************************************************************)
FairSpec ==
    /\ Spec
    /\ \A u \in Users : WF_vars(~terminated /\ (UserStep(u) \/ Deliver(u)))
    /\ \A k \in RxThreads : WF_vars(~terminated /\ ReceiveStep(k))

-----------------------------------------------------------------------------
(* Properties *)

\* Places of a user that is not opening or closing the interface.
Outside == {"idle", "mode", "count", "test", "sendto", "push", "lock", "call"}

Settled == \A u \in Users : pc[u] \in Outside

(***************************************************************************)
(* One message in Period is answered at most: no thread gets a second      *)
(* answer for the same turn of the counter, although the increment and the *)
(* test are two looks at it and other threads count in between.  (An       *)
(* answer may be lost, or two threads each get one, in that gap.)          *)
(***************************************************************************)
AnswerRate == \A u \in Users : answers[u] * Period <= count

(***************************************************************************)
(* The queue and the callback get the same frames, each once, from         *)
(* whatever threads they come; and while the interface has not simulated,  *)
(* in the same order, which is the order of reading.                       *)
(***************************************************************************)
QueueAgrees ==
    LET queued == taken \o rx_queue
    IN  /\ (\A a \in Actors : pc[a] \notin {"push", "lock", "call"}) =>
             /\ Len(seen) = frames /\ ToSet(seen) = 1 .. frames
             /\ Len(queued) = frames /\ ToSet(queued) = 1 .. frames
        /\ ~simulation_mode => IsPrefix(queued, seen) /\ IsPrefix(seen, [i \in 1 .. frames |-> i])

(***************************************************************************)
(* Between inits and closes the process has the interface's socket and no  *)
(* other, none when it is closed, Winsock started once for each, and a     *)
(* receive thread only while it is open: after a close the callback, which *)
(* captures the driver, is not called by one any more.                     *)
(***************************************************************************)
NothingLeaked ==
    ~reopened /\ Settled =>
        /\ sockets = {sock} \ {NoSocket}
        /\ winsock = Cardinality(sockets)
        /\ ~is_open => sockets = {}
        /\ \A k \in RxThreads : Alive(k) => is_open /\ rx_thread = k

(***************************************************************************)
(* After an init for simulation no message goes to the gateway, not even   *)
(* one whose thread looked at the mode before it.                          *)
(***************************************************************************)
SimulationStaysHome == strayed => reopened

\* close returns, whatever comes from the gateway, unless the program ends.
CloseReturns == \A u \in Users : pc[u] = "join" ~> pc[u] = "idle" \/ terminated
=============================================================================
