------------------------------- MODULE LinuxCAN -------------------------------
(***************************************************************************)
(* LinuxCANInterface::Impl (src/src/platform/linux_can.cpp): a SocketCAN   *)
(* socket, the receive thread that reads it, the receive callback and the  *)
(* queue behind receive(), and init and close while other threads send.    *)
(*                                                                         *)
(* The kernel is external: a table of file descriptors, the lowest free    *)
(* one handed out, shared with the rest of the process.  Frames are        *)
(* numbered in the order in which they are read.                           *)
(***************************************************************************)
EXTENDS Naturals, SequencesExt

CONSTANTS
    Users,          \* threads that call the interface
    Ops,            \* Ops[u]: the operations thread u calls
    Reopen,         \* may init be called on an open interface?
    Fds,            \* file descriptors of the process
    MaxInits,       \* bound: receive threads created in a behaviour
    MaxFrames,      \* bound: frames read in a behaviour
    NoThread        \* a std::thread that is not joinable; nobody

Operations == {"init", "close", "register", "send", "receive"}

\* sock_ of an interface without a socket (-1).
NoSocket == 0

ASSUME LinuxCANAssumption ==
    /\ Ops \in [Users -> SUBSET Operations]
    /\ Reopen \in BOOLEAN
    /\ Fds \subseteq Nat \ {NoSocket}
    /\ MaxInits \in Nat
    /\ MaxFrames \in Nat
    /\ NoThread \notin 1 .. MaxInits

RxThreads == 1 .. MaxInits

VARIABLES
    table,              \* what each file descriptor refers to
    sock,               \* sock_
    is_open,            \* is_open_
    should_stop,        \* should_stop_
    rx_thread,          \* rx_thread_: the thread it can join
    callback,           \* is callback_ set?
    callback_owner,     \* the receive thread that holds callback_mutex_
    rx_queue,           \* rx_queue_
    upc,                \* where each user thread is
    checked,            \* the value of sock_ that send has checked
    sentTo,             \* what the last send of each user wrote to
    rpc,                \* where each receive thread is
    fd,                 \* fds[0].fd of each receive thread
    frame,              \* the frame each receive thread works on
    received,           \* number of frames read
    seen,               \* history: frames that went through the callback block
    taken,              \* history: frames that receive() returned
    terminated,         \* std::terminate was called
    reopened            \* history: init was called on an open interface

socketVars == <<table, sock, is_open>>
threadVars == <<should_stop, rx_thread>>
rxVars     == <<rpc, fd, frame, received, callback_owner, seen>>
queueVars  == <<rx_queue, taken>>
sendVars   == <<checked, sentTo>>
endVars    == <<terminated, reopened>>
vars == <<socketVars, threadVars, rxVars, queueVars, sendVars, upc, callback, endVars>>

\* Next uses none of the operators marked (bug): they are the forms that the
\* properties are tried against.

Alive(k) == rpc[k] \notin {"unborn", "done"}

At(u, from, to) == upc[u] = from /\ upc' = [upc EXCEPT ![u] = to]

Moves(k, from, to) == rpc[k] = from /\ rpc' = [rpc EXCEPT ![k] = to]

-----------------------------------------------------------------------------
(* The kernel *)

LowestFree(f) == table[f] = "free" /\ \A g \in Fds : table[g] = "free" => f <= g

\* Another part of the process opens or closes a file of its own.
OtherFile ==
    /\ \E f \in Fds :
         \/ LowestFree(f) /\ table' = [table EXCEPT ![f] = "other"]
         \/ table[f] = "other" /\ table' = [table EXCEPT ![f] = "free"]
    /\ UNCHANGED <<sock, is_open, threadVars, rxVars, queueVars, sendVars, upc, callback,
                   endVars>>

-----------------------------------------------------------------------------
(* init *)

\* init: socket().
CreateSocket(u) ==
    /\ "init" \in Ops[u]
    /\ Reopen \/ ~is_open
    /\ \E k \in RxThreads : rpc[k] = "unborn"
    /\ \/ \E f \in Fds :
            /\ LowestFree(f)
            /\ table' = [table EXCEPT ![f] = "can"]
            /\ sock' = f
            /\ At(u, "idle", "setup")
       \/ sock' = NoSocket /\ upc[u] = "idle" /\ UNCHANGED <<table, upc>>
    /\ reopened' = (reopened \/ is_open)
    /\ UNCHANGED <<is_open, threadVars, rxVars, queueVars, sendVars, callback, terminated>>

\* (bug) A step that fails returns without closing the socket.
SetupLeaks(u) ==
    /\ At(u, "setup", "open") \/ At(u, "setup", "idle")
    /\ UNCHANGED <<socketVars, threadVars, rxVars, queueVars, sendVars, callback, endVars>>

\* setsockopt, ioctl and bind; if one fails, closeSocket.
Setup(u) ==
    /\ At(u, "setup", "open") \/ At(u, "setup", "stop")
    /\ UNCHANGED <<socketVars, threadVars, rxVars, queueVars, sendVars, callback, endVars>>

MarkOpen(u) ==
    /\ At(u, "open", "start")
    /\ is_open' = TRUE
    /\ UNCHANGED <<table, sock, threadVars, rxVars, queueVars, sendVars, callback, endVars>>

\* startReceiveThread (rx_mode is THREADED: nothing sets it otherwise).
LowerStop(u) ==
    /\ At(u, "start", "launch")
    /\ should_stop' = FALSE
    /\ UNCHANGED <<socketVars, rx_thread, rxVars, queueVars, sendVars, callback, endVars>>

\* rx_thread_ = std::thread(...).  Assigning to a thread that is joinable
\* calls std::terminate.
Launch(u) ==
    /\ At(u, "launch", "idle")
    /\ IF rx_thread # NoThread
       THEN terminated' = TRUE /\ UNCHANGED <<rx_thread, rpc>>
       ELSE /\ UNCHANGED terminated
            /\ \E k \in RxThreads :
                 /\ rpc[k] = "unborn"
                 /\ \A j \in 1 .. k - 1 : rpc[j] # "unborn"
                 /\ rpc' = [rpc EXCEPT ![k] = "enter"]
                 /\ rx_thread' = k
    /\ UNCHANGED <<socketVars, should_stop, fd, frame, received, callback_owner, seen,
                   queueVars, sendVars, callback, reopened>>

-----------------------------------------------------------------------------
(* close, and the way out of an init that failed: closeSocket *)

CallClose(u) ==
    /\ "close" \in Ops[u]
    /\ At(u, "idle", "stop")
    /\ UNCHANGED <<socketVars, threadVars, rxVars, queueVars, sendVars, callback, endVars>>

\* stopReceiveThread
RaiseStop(u) ==
    /\ At(u, "stop", "join")
    /\ should_stop' = TRUE
    /\ UNCHANGED <<socketVars, rx_thread, rxVars, queueVars, sendVars, callback, endVars>>

\* (bug) The thread is detached instead of joined.
DetachThread(u) ==
    /\ At(u, "join", "shut")
    /\ rx_thread' = NoThread
    /\ UNCHANGED <<socketVars, should_stop, rxVars, queueVars, sendVars, callback, endVars>>

\* if (rx_thread_.joinable()) rx_thread_.join();
Join(u) ==
    /\ rx_thread # NoThread => rpc[rx_thread] = "done"
    /\ At(u, "join", "shut")
    /\ rx_thread' = NoThread
    /\ UNCHANGED <<socketVars, should_stop, rxVars, queueVars, sendVars, callback, endVars>>

\* if (sock_ >= 0) ::close(sock_);
Shut(u) ==
    /\ At(u, "shut", "forget")
    /\ table' = IF sock = NoSocket THEN table ELSE [table EXCEPT ![sock] = "free"]
    /\ UNCHANGED <<sock, is_open, threadVars, rxVars, queueVars, sendVars, callback, endVars>>

\* sock_ = -1;
Forget(u) ==
    /\ At(u, "forget", "mark")
    /\ sock' = NoSocket
    /\ UNCHANGED <<table, is_open, threadVars, rxVars, queueVars, sendVars, callback, endVars>>

MarkClosed(u) ==
    /\ At(u, "mark", "idle")
    /\ is_open' = FALSE
    /\ UNCHANGED <<table, sock, threadVars, rxVars, queueVars, sendVars, callback, endVars>>

-----------------------------------------------------------------------------
(* registerCallback, send, receive *)

RegisterCallback(u) ==
    /\ "register" \in Ops[u]
    /\ upc[u] = "idle"
    /\ callback_owner = NoThread
    /\ callback' \in BOOLEAN
    /\ UNCHANGED <<socketVars, threadVars, rxVars, queueVars, sendVars, upc, endVars>>

\* send: if (!is_open_ || sock_ < 0) return false.
CheckOpen(u) ==
    /\ "send" \in Ops[u]
    /\ IF is_open /\ sock # NoSocket
       THEN /\ At(u, "idle", "write")
            /\ checked' = [checked EXCEPT ![u] = sock]
            /\ UNCHANGED sentTo
       ELSE /\ upc[u] = "idle"
            /\ sentTo' = [sentTo EXCEPT ![u] = "nothing"]
            /\ UNCHANGED <<upc, checked>>
    /\ UNCHANGED <<socketVars, threadVars, rxVars, queueVars, callback, endVars>>

\* ::write, which fails on a descriptor that is not open and may fail on one
\* that is.  sock_ is a plain int read twice: the compiler may keep the value.
Write(u) ==
    /\ At(u, "write", "idle")
    /\ \E f \in {checked[u], sock} :
         \/ sentTo' = [sentTo EXCEPT ![u] = "nothing"]
         \/ /\ f # NoSocket
            /\ table[f] # "free"
            /\ sentTo' = [sentTo EXCEPT ![u] = table[f]]
    /\ UNCHANGED <<socketVars, threadVars, rxVars, queueVars, checked, callback, endVars>>

\* receive with a frame in the queue; without one it waits and returns false.
Receive(u) ==
    /\ "receive" \in Ops[u]
    /\ upc[u] = "idle"
    /\ rx_queue # << >>
    /\ rx_queue' = Tail(rx_queue)
    /\ taken' = Append(taken, Head(rx_queue))
    /\ UNCHANGED <<socketVars, threadVars, rxVars, sendVars, upc, callback, endVars>>

-----------------------------------------------------------------------------
(* The receive thread *)

\* receiveLoop: fds[0].fd = sock_.
EnterLoop(k) ==
    /\ Moves(k, "enter", "while")
    /\ fd' = [fd EXCEPT ![k] = sock]
    /\ UNCHANGED <<socketVars, threadVars, frame, received, callback_owner, seen, queueVars,
                   sendVars, upc, callback, endVars>>

\* (bug) while (true)
LoopForever(k) ==
    /\ Moves(k, "while", "poll")
    /\ UNCHANGED <<socketVars, threadVars, fd, frame, received, callback_owner, seen,
                   queueVars, sendVars, upc, callback, endVars>>

\* while (!should_stop_)
TestStop(k) ==
    /\ IF should_stop THEN Moves(k, "while", "done") ELSE Moves(k, "while", "poll")
    /\ UNCHANGED <<socketVars, threadVars, fd, frame, received, callback_owner, seen,
                   queueVars, sendVars, upc, callback, endVars>>

\* poll: timeout, error, or something to read.
Poll(k) ==
    /\ Moves(k, "poll", "while") \/ Moves(k, "poll", "read")
    /\ UNCHANGED <<socketVars, threadVars, fd, frame, received, callback_owner, seen,
                   queueVars, sendVars, upc, callback, endVars>>

\* receiveAndProcess: ::read(sock_), which may also find nothing or fail.
Read(k) ==
    /\ \/ Moves(k, "read", "while") /\ UNCHANGED <<received, frame>>
       \/ /\ Moves(k, "read", "lock")
          /\ received < MaxFrames
          /\ received' = received + 1
          /\ frame' = [frame EXCEPT ![k] = received + 1]
    /\ UNCHANGED <<socketVars, threadVars, fd, callback_owner, seen, queueVars, sendVars, upc,
                   callback, endVars>>

\* lock_guard; if (callback_) callback_(frame);
LockAndCall(k) ==
    /\ callback_owner = NoThread
    /\ IF callback
       THEN Moves(k, "lock", "call") /\ callback_owner' = k
       ELSE Moves(k, "lock", "push") /\ UNCHANGED callback_owner
    /\ seen' = Append(seen, frame[k])
    /\ UNCHANGED <<socketVars, threadVars, fd, frame, received, queueVars, sendVars, upc,
                   callback, endVars>>

CallbackReturns(k) ==
    /\ Moves(k, "call", "push")
    /\ callback_owner' = NoThread
    /\ UNCHANGED <<socketVars, threadVars, fd, frame, received, seen, queueVars, sendVars, upc,
                   callback, endVars>>

\* rx_queue_.push(frame)
Push(k) ==
    /\ Moves(k, "push", "while")
    /\ rx_queue' = Append(rx_queue, frame[k])
    /\ UNCHANGED <<socketVars, threadVars, fd, frame, received, callback_owner, seen, taken,
                   sendVars, upc, callback, endVars>>

-----------------------------------------------------------------------------
Init ==
    /\ table = [f \in Fds |-> "free"]
    /\ sock = NoSocket
    /\ is_open = FALSE
    /\ should_stop = FALSE
    /\ rx_thread = NoThread
    /\ callback = FALSE
    /\ callback_owner = NoThread
    /\ rx_queue = << >>
    /\ upc = [u \in Users |-> "idle"]
    /\ checked = [u \in Users |-> NoSocket]
    /\ sentTo = [u \in Users |-> "nothing"]
    /\ rpc = [k \in RxThreads |-> "unborn"]
    /\ fd = [k \in RxThreads |-> NoSocket]
    /\ frame = [k \in RxThreads |-> 0]
    /\ received = 0
    /\ seen = << >>
    /\ taken = << >>
    /\ terminated = FALSE
    /\ reopened = FALSE

\* The steps of a call that user u has begun.
UserStep(u) ==
    \/ Setup(u)
    \/ MarkOpen(u)
    \/ LowerStop(u)
    \/ Launch(u)
    \/ RaiseStop(u)
    \/ Join(u)
    \/ Shut(u)
    \/ Forget(u)
    \/ MarkClosed(u)
    \/ Write(u)

ReceiveStep(k) ==
    \/ EnterLoop(k)
    \/ TestStop(k)
    \/ Poll(k)
    \/ Read(k)
    \/ LockAndCall(k)
    \/ CallbackReturns(k)
    \/ Push(k)

Next ==
    /\ ~terminated
    /\ \/ \E u \in Users :
             \/ CreateSocket(u)
             \/ CallClose(u)
             \/ RegisterCallback(u)
             \/ CheckOpen(u)
             \/ Receive(u)
             \/ UserStep(u)
       \/ \E k \in RxThreads : ReceiveStep(k)
       \/ OtherFile

Spec == Init /\ [][Next]_vars

(***************************************************************************)
(* Threads run, poll returns after 10 ms at the latest, and the callback   *)
(* returns.  Nobody has to call the interface, and no frame has to come.   *)
(***************************************************************************)
FairSpec ==
    /\ Spec
    /\ \A u \in Users : WF_vars(~terminated /\ UserStep(u))
    /\ \A k \in RxThreads : WF_vars(~terminated /\ ReceiveStep(k))

-----------------------------------------------------------------------------
(* Properties *)

\* Every variable has its type, and callback_mutex_ is held by the thread
\* that is in the callback.
TypeOK ==
    /\ table \in [Fds -> {"free", "can", "other"}]
    /\ sock \in Fds \cup {NoSocket}
    /\ is_open \in BOOLEAN
    /\ should_stop \in BOOLEAN
    /\ rx_thread \in RxThreads \cup {NoThread}
    /\ callback \in BOOLEAN
    /\ callback_owner \in RxThreads \cup {NoThread}
    /\ rx_queue \in Seq(Nat)
    /\ upc \in [Users -> {"idle", "setup", "open", "start", "launch", "stop", "join",
                          "shut", "forget", "mark", "write"}]
    /\ checked \in [Users -> Fds \cup {NoSocket}]
    /\ sentTo \in [Users -> {"nothing", "can", "other"}]
    /\ rpc \in [RxThreads -> {"unborn", "enter", "while", "poll", "read", "lock", "call",
                              "push", "done"}]
    /\ fd \in [RxThreads -> Fds \cup {NoSocket}]
    /\ frame \in [RxThreads -> Nat]
    /\ received \in Nat
    /\ seen \in Seq(Nat)
    /\ taken \in Seq(Nat)
    /\ terminated \in BOOLEAN
    /\ reopened \in BOOLEAN
    /\ \A k \in RxThreads : rpc[k] = "call" <=> callback_owner = k

(***************************************************************************)
(* Every frame read goes through the callback and then to receive(), once  *)
(* and in the order of reading, also across close and init.                *)
(***************************************************************************)
QueueFollowsCallback ==
    /\ IsPrefix(taken \o rx_queue, seen)
    /\ IsPrefix(seen, [i \in 1 .. received |-> i])
    /\ (\A k \in RxThreads : ~Alive(k)) => Len(taken \o rx_queue) = received

(***************************************************************************)
(* When close has returned, or an init has failed, no receive thread is    *)
(* left: the callback, which captures the driver, is not called any more.  *)
(***************************************************************************)
QuietAfterClose ==
    ~is_open /\ (\A u \in Users : upc[u] \in {"idle", "write"}) => \A k \in RxThreads : ~Alive(k)

(***************************************************************************)
(* Between calls the process has the interface's socket open if the        *)
(* interface is open, and no other CAN socket: a failed init leaks none.   *)
(***************************************************************************)
NothingLeaked ==
    ~reopened /\ (\A u \in Users : upc[u] \in {"idle", "write"}) =>
        {f \in Fds : table[f] = "can"} = IF is_open THEN {sock} ELSE {}

(***************************************************************************)
(* The receive thread polls and reads the interface's own open socket,     *)
(* never a descriptor that was closed or that is now another file.         *)
(***************************************************************************)
ReadsOwnSocket ==
    \A k \in RxThreads :
        ~reopened /\ rpc[k] \in {"poll", "read"} =>
            fd[k] = sock /\ sock \in Fds /\ table[sock] = "can"

\* close returns, whatever comes on the bus, unless the program ends.
CloseReturns == \A u \in Users : upc[u] = "stop" ~> upc[u] = "idle" \/ terminated

(***************************************************************************)
(* A send that returns true has written to the CAN socket ("true if        *)
(* successfully queued/sent").                                             *)
(***************************************************************************)
SentOnBus == \A u \in Users : sentTo[u] # "other"
=============================================================================
