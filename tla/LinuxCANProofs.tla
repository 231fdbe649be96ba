---------------------------- MODULE LinuxCANProofs ----------------------------
(***************************************************************************)
(* The SocketCAN interface with one thread that opens and closes it and    *)
(* any number that send, receive and register: what its receive thread     *)
(* reads, delivers and leaves behind, for any number of opens, frames and  *)
(* file descriptors.                                                       *)
(***************************************************************************)
EXTENDS LinuxCAN, TLAPS, SequenceTheorems

\* One thread calls init and close: the driver's owner.
SoleController ==
    \A u, v \in Users :
        Ops[u] \cap {"init", "close"} # {} /\ Ops[v] \cap {"init", "close"} # {} => u = v

\* The places of init and close.
Places == {"setup", "open", "start", "launch", "stop", "join", "shut", "forget", "mark"}

-----------------------------------------------------------------------------
(* The inductive invariant *)

RoleInv ==
    \A u \in Users : upc[u] \in Places => Ops[u] \cap {"init", "close"} # {}

\* A receive thread that runs is the one that close joins.
ThreadInv ==
    /\ \A k \in RxThreads : Alive(k) => rx_thread = k
    /\ rx_thread # NoThread => is_open
    /\ \A u \in Users : upc[u] \in {"start", "launch"} => is_open
    /\ \A u \in Users : upc[u] \in {"shut", "forget", "mark"} => rx_thread = NoThread

\* sock_ is the one CAN socket, from socket() to ::close.
SocketInv ==
    ~reopened =>
        /\ \A f \in Fds : table[f] = "can" => f = sock
        /\ sock # NoSocket /\ (\A u \in Users : upc[u] # "forget") => table[sock] = "can"
        /\ \A u \in Users :
             /\ upc[u] = "forget" => \A f \in Fds : table[f] # "can"
             /\ upc[u] \in {"setup", "open", "start", "launch"} => sock # NoSocket
             /\ upc[u] = "mark" => sock = NoSocket
        /\ is_open /\ (\A u \in Users : upc[u] \notin {"forget", "mark"}) => sock # NoSocket
        /\ ~is_open /\ (\A u \in Users : upc[u] \notin Places) => sock = NoSocket

LoopInv ==
    ~reopened => \A k \in RxThreads : Alive(k) /\ rpc[k] # "enter" => fd[k] = sock

Numbers(n) == [i \in 1 .. n |-> i]

\* The frames are numbered as they are read; at most one is on its way.
FrameInv ==
    /\ seen = Numbers(Len(seen))
    /\ \A k \in RxThreads :
         /\ rpc[k] = "lock" => frame[k] = received /\ received = Len(seen) + 1
         /\ rpc[k] \in {"call", "push"} =>
              /\ frame[k] = Len(seen) /\ Len(seen) > 0
              /\ taken \o rx_queue = Numbers(Len(seen) - 1)
    /\ (\A k \in RxThreads : rpc[k] # "lock") => received = Len(seen)
    /\ (\A k \in RxThreads : rpc[k] \notin {"call", "push"}) => taken \o rx_queue = seen

CanInv == TypeOK /\ RoleInv /\ ThreadInv /\ SocketInv /\ LoopInv /\ FrameInv

-----------------------------------------------------------------------------
(* Types and roles *)

USE DEF socketVars, threadVars, rxVars, queueVars, sendVars, endVars, At, Moves

Loop == {"unborn", "enter", "while", "poll", "read", "lock", "call", "push", "done"}

Owner == \A k \in RxThreads : rpc[k] = "call" <=> callback_owner = k

\* A step of a receive thread that neither enters nor leaves the callback.
LEMMA MoveTypes ==
    ASSUME TypeOK, NEW k \in RxThreads, rpc[k] # "call", NEW p \in Loop \ {"call"},
           rpc' = [rpc EXCEPT ![k] = p], callback_owner' = callback_owner
    PROVE  rpc' \in [RxThreads -> Loop] /\ Owner'
BY DEF TypeOK, Loop, Owner

LEMMA TypesKept ==
    ASSUME TypeOK, Next
    PROVE  TypeOK'
<1>1. ASSUME NEW u \in Users, CreateSocket(u) PROVE TypeOK'
  BY <1>1 DEF CreateSocket, TypeOK
<1>2. ASSUME NEW u \in Users, CallClose(u) PROVE TypeOK'
  BY <1>2 DEF CallClose, TypeOK
<1>3. ASSUME NEW u \in Users, RegisterCallback(u) PROVE TypeOK'
  BY <1>3 DEF RegisterCallback, TypeOK
<1>4. ASSUME NEW u \in Users, CheckOpen(u) PROVE TypeOK'
  BY <1>4 DEF CheckOpen, TypeOK
<1>5. ASSUME NEW u \in Users, Receive(u) PROVE TypeOK'
  BY <1>5 DEF Receive, TypeOK
<1>6. ASSUME NEW u \in Users, Setup(u) PROVE TypeOK'
  BY <1>6 DEF Setup, TypeOK
<1>7. ASSUME NEW u \in Users, MarkOpen(u) PROVE TypeOK'
  BY <1>7 DEF MarkOpen, TypeOK
<1>8. ASSUME NEW u \in Users, LowerStop(u) PROVE TypeOK'
  BY <1>8 DEF LowerStop, TypeOK
<1>9. ASSUME NEW u \in Users, Launch(u) PROVE TypeOK'
  BY <1>9 DEF Launch, TypeOK
<1>10. ASSUME NEW u \in Users, RaiseStop(u) PROVE TypeOK'
  BY <1>10 DEF RaiseStop, TypeOK
<1>11. ASSUME NEW u \in Users, Join(u) PROVE TypeOK'
  BY <1>11 DEF Join, TypeOK
<1>12. ASSUME NEW u \in Users, Shut(u) PROVE TypeOK'
  BY <1>12 DEF Shut, TypeOK
<1>13. ASSUME NEW u \in Users, Forget(u) PROVE TypeOK'
  BY <1>13 DEF Forget, TypeOK
<1>14. ASSUME NEW u \in Users, MarkClosed(u) PROVE TypeOK'
  BY <1>14 DEF MarkClosed, TypeOK
<1>15. ASSUME NEW u \in Users, Write(u) PROVE TypeOK'
  <2>1. sentTo' \in [Users -> {"nothing", "can", "other"}]
    <3>1. \A f \in {checked[u], sock} : f # NoSocket => f \in Fds
      BY <1>15 DEF TypeOK
    <3>2. \A f \in Fds : table[f] # "free" => table[f] \in {"nothing", "can", "other"}
      BY <1>15 DEF TypeOK
    <3> QED
      BY <1>15, <3>1, <3>2 DEF Write, TypeOK
  <2>2. upc' = [upc EXCEPT ![u] = "idle"]
    BY <1>15 DEF Write
  <2>3. UNCHANGED <<socketVars, threadVars, rxVars, queueVars, checked, callback, endVars>>
    BY <1>15 DEF Write
  <2> QED
    BY <1>15, <2>1, <2>2, <2>3 DEF TypeOK
<1>16. ASSUME NEW k \in RxThreads, EnterLoop(k) PROVE TypeOK'
  BY <1>16 DEF EnterLoop, TypeOK
<1>17. ASSUME NEW k \in RxThreads, TestStop(k) PROVE TypeOK'
  <2>1. \E p \in {"done", "poll"} : rpc[k] = "while" /\ rpc' = [rpc EXCEPT ![k] = p]
    BY <1>17 DEF TestStop
  <2>2. rpc' \in [RxThreads -> Loop] /\ Owner'
    BY <1>17, <2>1, MoveTypes DEF Loop, TestStop
  <2> QED
    BY <1>17, <2>2 DEF TestStop, TypeOK, Loop, Owner
<1>18. ASSUME NEW k \in RxThreads, Poll(k) PROVE TypeOK'
  <2>1. \E p \in {"while", "read"} : rpc[k] = "poll" /\ rpc' = [rpc EXCEPT ![k] = p]
    BY <1>18 DEF Poll
  <2>2. rpc' \in [RxThreads -> Loop] /\ Owner'
    BY <1>18, <2>1, MoveTypes DEF Loop, Poll
  <2> QED
    BY <1>18, <2>2 DEF Poll, TypeOK, Loop, Owner
<1>19. ASSUME NEW k \in RxThreads, Read(k) PROVE TypeOK'
  <2>1. \E p \in {"while", "lock"} : rpc[k] = "read" /\ rpc' = [rpc EXCEPT ![k] = p]
    BY <1>19 DEF Read
  <2>2. rpc' \in [RxThreads -> Loop] /\ Owner'
    BY <1>19, <2>1, MoveTypes DEF Loop, Read
  <2>3. received' \in Nat /\ frame' \in [RxThreads -> Nat]
    <3>1. received \in Nat /\ frame \in [RxThreads -> Nat]
      BY DEF TypeOK
    <3>2. received + 1 \in Nat
      BY <3>1
    <3>3. \/ received' = received /\ frame' = frame
          \/ received' = received + 1 /\ frame' = [frame EXCEPT ![k] = received + 1]
      BY <1>19 DEF Read
    <3> QED
      BY <3>1, <3>2, <3>3
  <2> QED
    BY <1>19, <2>2, <2>3 DEF Read, TypeOK, Loop, Owner
<1>20. ASSUME NEW k \in RxThreads, LockAndCall(k) PROVE TypeOK'
  <2>1. callback_owner = NoThread /\ k # NoThread /\ rpc[k] = "lock"
    BY <1>20, LinuxCANAssumption DEF LockAndCall, RxThreads
  <2>2. rpc' \in [RxThreads -> Loop] /\ Owner' /\ callback_owner' \in RxThreads \cup {NoThread}
    <3>1. CASE callback
      <4>1. rpc' = [rpc EXCEPT ![k] = "call"] /\ callback_owner' = k
        BY <1>20, <3>1 DEF LockAndCall
      <4>2. \A j \in RxThreads : rpc[j] # "call"
        BY <2>1, LinuxCANAssumption DEF TypeOK, RxThreads
      <4> QED
        BY <1>20, <4>1, <4>2 DEF TypeOK, Loop, Owner
    <3>2. CASE ~callback
      <4>1. rpc' = [rpc EXCEPT ![k] = "push"] /\ callback_owner' = callback_owner
        BY <1>20, <3>2 DEF LockAndCall
      <4> QED
        BY <1>20, <2>1, <4>1, MoveTypes DEF Loop
    <3> QED
      BY <3>1, <3>2
  <2>3. seen' \in Seq(Nat)
    BY <1>20 DEF LockAndCall, TypeOK
  <2> QED
    BY <1>20, <2>2, <2>3 DEF LockAndCall, TypeOK, Loop, Owner
<1>21. ASSUME NEW k \in RxThreads, CallbackReturns(k) PROVE TypeOK'
  <2>1. /\ rpc[k] = "call" /\ rpc' = [rpc EXCEPT ![k] = "push"] /\ callback_owner' = NoThread
    BY <1>21 DEF CallbackReturns
  <2>2. callback_owner = k
    BY <1>21, <2>1 DEF TypeOK
  <2>3. \A j \in RxThreads : j # NoThread /\ (j # k => rpc[j] # "call")
    BY <2>2, LinuxCANAssumption DEF TypeOK, RxThreads
  <2>4. rpc' \in [RxThreads -> Loop] /\ Owner'
    BY <1>21, <2>1, <2>3 DEF TypeOK, Loop, Owner
  <2> QED
    BY <1>21, <2>1, <2>4 DEF CallbackReturns, TypeOK, Loop, Owner
<1>22. ASSUME NEW k \in RxThreads, Push(k) PROVE TypeOK'
  BY <1>22 DEF Push, TypeOK
<1>23. ASSUME OtherFile PROVE TypeOK'
  BY <1>23 DEF OtherFile, LowestFree, TypeOK
<1> QED
  BY <1>1, <1>2, <1>3, <1>4, <1>5, <1>6, <1>7, <1>8, <1>9, <1>10, <1>11, <1>12, <1>13, <1>14,
     <1>15, <1>16, <1>17, <1>18, <1>19, <1>20, <1>21, <1>22, <1>23
     DEF Next, UserStep, ReceiveStep

LEMMA RolesKept ==
    ASSUME TypeOK, RoleInv, Next
    PROVE  RoleInv'
<1>1. ASSUME NEW u \in Users, NEW p, upc' = [upc EXCEPT ![u] = p],
             p \in Places => upc[u] \in Places \/ Ops[u] \cap {"init", "close"} # {}
      PROVE  RoleInv'
  BY <1>1 DEF TypeOK, RoleInv
<1>2. upc' = upc => RoleInv'
  BY DEF RoleInv
<1>3. ASSUME NEW u \in Users, CreateSocket(u) PROVE RoleInv'
  BY <1>1, <1>2, <1>3 DEF CreateSocket
<1>4. ASSUME NEW u \in Users, CallClose(u) PROVE RoleInv'
  BY <1>1, <1>4 DEF CallClose
<1>5. ASSUME NEW u \in Users, RegisterCallback(u) \/ CheckOpen(u) \/ Receive(u) PROVE RoleInv'
  BY <1>1, <1>2, <1>5 DEF RegisterCallback, CheckOpen, Receive, Places
<1>6. ASSUME NEW u \in Users, UserStep(u) PROVE RoleInv'
  <2>1. \E p \in Places \cup {"idle"} :
          upc' = [upc EXCEPT ![u] = p] /\ (p # "idle" => upc[u] \in Places)
    BY <1>6 DEF UserStep, Setup, MarkOpen, LowerStop, Launch, RaiseStop, Join, Shut, Forget,
                MarkClosed, Write, Places
  <2> QED
    BY <1>1, <2>1 DEF Places
<1>7. ASSUME NEW k \in RxThreads, ReceiveStep(k) PROVE RoleInv'
  BY <1>2, <1>7 DEF ReceiveStep, EnterLoop, TestStop, Poll, Read, LockAndCall, CallbackReturns,
                    Push
<1>8. OtherFile => RoleInv'
  BY <1>2 DEF OtherFile
<1> QED
  BY <1>3, <1>4, <1>5, <1>6, <1>7, <1>8 DEF Next

\* The thread that is in init or close is there alone.
LEMMA Alone ==
    ASSUME SoleController, RoleInv, NEW u \in Users,
           upc[u] \in Places \/ Ops[u] \cap {"init", "close"} # {}
    PROVE  \A v \in Users : v # u => upc[v] \notin Places
BY DEF SoleController, RoleInv

-----------------------------------------------------------------------------
(* The receive thread *)

LEMMA NobodyAlive ==
    ASSUME ThreadInv, rx_thread = NoThread
    PROVE  \A k \in RxThreads : ~Alive(k)
BY LinuxCANAssumption DEF ThreadInv, RxThreads

\* A receive thread that takes a step was alive before it.
LEMMA ReceiveMoves ==
    ASSUME TypeOK, NEW k \in RxThreads, ReceiveStep(k)
    PROVE  /\ Alive(k) /\ UNCHANGED <<socketVars, threadVars, upc, taken, endVars>>
           /\ \E p \in Loop \ {"unborn", "enter"} : rpc' = [rpc EXCEPT ![k] = p]
<1>1. UNCHANGED <<socketVars, threadVars, upc, taken, endVars>>
  BY DEF ReceiveStep, EnterLoop, TestStop, Poll, Read, LockAndCall, CallbackReturns, Push
<1>2. Alive(k)
  BY DEF ReceiveStep, EnterLoop, TestStop, Poll, Read, LockAndCall, CallbackReturns, Push, Alive
<1>3. \E p \in Loop \ {"unborn", "enter"} : rpc' = [rpc EXCEPT ![k] = p]
  BY DEF ReceiveStep, EnterLoop, TestStop, Poll, Read, LockAndCall, CallbackReturns, Push, Loop
<1> QED
  BY <1>1, <1>2, <1>3

LEMMA ThreadsKept ==
    ASSUME SoleController, TypeOK, RoleInv, ThreadInv, Next
    PROVE  ThreadInv'
\* A user moves, and nothing else that matters changes.
<1>1. ASSUME NEW u \in Users, NEW p, upc' = [upc EXCEPT ![u] = p],
             UNCHANGED <<rx_thread, is_open, rpc>>,
             p \in {"start", "launch"} => is_open,
             p \in {"shut", "forget", "mark"} => rx_thread = NoThread
      PROVE  ThreadInv'
  BY <1>1 DEF TypeOK, ThreadInv, Alive
<1>2. UNCHANGED <<rx_thread, is_open, rpc, upc>> => ThreadInv'
  BY DEF ThreadInv, Alive
<1>3. ASSUME NEW u \in Users, CreateSocket(u) PROVE ThreadInv'
  BY <1>1, <1>2, <1>3 DEF CreateSocket
<1>4. ASSUME NEW u \in Users, CallClose(u) \/ Setup(u) \/ RaiseStop(u) PROVE ThreadInv'
  BY <1>1, <1>4 DEF CallClose, Setup, RaiseStop
<1>5. ASSUME NEW u \in Users, RegisterCallback(u) \/ CheckOpen(u) \/ Receive(u) \/ Write(u)
      PROVE  ThreadInv'
  BY <1>1, <1>2, <1>5 DEF RegisterCallback, CheckOpen, Receive, Write
<1>6. ASSUME NEW u \in Users, MarkOpen(u) PROVE ThreadInv'
  BY <1>6 DEF MarkOpen, TypeOK, ThreadInv, Alive
<1>7. ASSUME NEW u \in Users, LowerStop(u) PROVE ThreadInv'
  <2>1. is_open
    BY <1>7 DEF LowerStop, ThreadInv
  <2> QED
    BY <1>1, <1>7, <2>1 DEF LowerStop
<1>8. ASSUME NEW u \in Users, Shut(u) \/ Forget(u) PROVE ThreadInv'
  <2>1. rx_thread = NoThread
    BY <1>8 DEF Shut, Forget, ThreadInv
  <2> QED
    BY <1>1, <1>8, <2>1 DEF Shut, Forget
<1>9. ASSUME NEW u \in Users, Launch(u) PROVE ThreadInv'
  <2>1. /\ upc[u] = "launch" /\ upc' = [upc EXCEPT ![u] = "idle"] /\ is_open' = is_open
    BY <1>9 DEF Launch
  <2>2. is_open
    BY <2>1 DEF ThreadInv
  <2>3. CASE rx_thread # NoThread
    BY <1>1, <1>9, <2>1, <2>3 DEF Launch
  <2>4. CASE rx_thread = NoThread
    <3>1. PICK k \in RxThreads : rpc' = [rpc EXCEPT ![k] = "enter"] /\ rx_thread' = k
      BY <1>9, <2>4 DEF Launch
    <3>2. \A j \in RxThreads : Alive(j)' => rx_thread' = j
      BY <2>4, <3>1, NobodyAlive DEF TypeOK, Alive
    <3>3. \A v \in Users : upc'[v] \notin Places
      BY <2>1, Alone DEF Places, TypeOK
    <3> QED
      BY <2>1, <2>2, <3>2, <3>3 DEF ThreadInv, Places
  <2> QED
    BY <2>3, <2>4
<1>10. ASSUME NEW u \in Users, Join(u) PROVE ThreadInv'
  <2>1. /\ rx_thread' = NoThread /\ UNCHANGED <<rpc, is_open>>
        /\ upc' = [upc EXCEPT ![u] = "shut"]
        /\ rx_thread # NoThread => rpc[rx_thread] = "done"
    BY <1>10 DEF Join
  <2>2. \A k \in RxThreads : ~Alive(k)
    BY <2>1, NobodyAlive DEF ThreadInv, Alive
  <2> QED
    BY <2>1, <2>2 DEF ThreadInv, TypeOK, Alive
<1>11. ASSUME NEW u \in Users, MarkClosed(u) PROVE ThreadInv'
  <2>1. /\ upc[u] = "mark" /\ upc' = [upc EXCEPT ![u] = "idle"]
        /\ UNCHANGED <<rx_thread, rpc>>
    BY <1>11 DEF MarkClosed
  <2>2. rx_thread = NoThread
    BY <2>1 DEF ThreadInv
  <2>3. \A v \in Users : upc'[v] \notin Places
    BY <2>1, Alone DEF Places, TypeOK
  <2> QED
    BY <2>1, <2>2, <2>3, NobodyAlive DEF ThreadInv, Alive, Places
<1>12. ASSUME NEW k \in RxThreads, ReceiveStep(k) PROVE ThreadInv'
  <2>1. /\ Alive(k) /\ UNCHANGED <<rx_thread, is_open, upc>>
        /\ \E p : rpc' = [rpc EXCEPT ![k] = p]
    BY <1>12, ReceiveMoves
  <2> QED
    BY <2>1 DEF ThreadInv, Alive, TypeOK
<1>13. OtherFile => ThreadInv'
  BY <1>2 DEF OtherFile
<1> QED
  BY <1>3, <1>4, <1>5, <1>6, <1>7, <1>8, <1>9, <1>10, <1>11, <1>12, <1>13 DEF Next, UserStep

-----------------------------------------------------------------------------
(* The socket *)

LEMMA SocketsKept ==
    ASSUME SoleController, TypeOK, RoleInv, ThreadInv, SocketInv, Next
    PROVE  SocketInv'
<1>1. NoSocket \notin Fds
  BY LinuxCANAssumption
\* A user moves, and the socket stays as it is.
<1>2. ASSUME NEW u \in Users, NEW p, upc' = [upc EXCEPT ![u] = p],
             UNCHANGED <<table, sock, is_open, reopened>>,
             upc[u] \notin {"forget", "mark"}, p \notin {"forget", "mark"},
             ~reopened /\ p \in {"setup", "open", "start", "launch"} => sock # NoSocket,
             p \in Places \/ upc[u] \notin Places \/ is_open
      PROVE  SocketInv'
  BY <1>2 DEF TypeOK, SocketInv, Places
<1>3. UNCHANGED <<table, sock, is_open, reopened, upc>> => SocketInv'
  BY DEF SocketInv
<1>4. ASSUME NEW u \in Users, CreateSocket(u) PROVE SocketInv'
  <2>1. SUFFICES ASSUME ~reopened' PROVE SocketInv'
    BY DEF SocketInv
  <2>2. ~reopened /\ ~is_open /\ is_open' = is_open /\ "init" \in Ops[u] /\ upc[u] = "idle"
    BY <1>4, <2>1 DEF CreateSocket
  <2>3. \A v \in Users : upc[v] \notin Places
    BY <2>2, Alone DEF Places
  <2>4. sock = NoSocket /\ \A f \in Fds : table[f] # "can"
    BY <1>1, <2>2, <2>3 DEF SocketInv
  <2>5. CASE UNCHANGED <<table, upc>> /\ sock' = NoSocket
    BY <2>2, <2>3, <2>4, <2>5 DEF SocketInv, Places
  <2>6. ASSUME NEW f \in Fds, table' = [table EXCEPT ![f] = "can"], sock' = f,
               upc' = [upc EXCEPT ![u] = "setup"]
        PROVE  SocketInv'
    <3>1. \A v \in Users : upc'[v] \notin Places \/ upc'[v] = "setup"
      BY <2>3, <2>6 DEF TypeOK
    <3>2. upc'[u] \in Places
      BY <2>6 DEF TypeOK, Places
    <3>3. \A g \in Fds : table'[g] = "can" <=> g = f
      BY <2>4, <2>6 DEF TypeOK
    <3> QED
      BY <1>1, <2>2, <2>6, <3>1, <3>2, <3>3 DEF SocketInv, Places
  <2>7. \/ UNCHANGED <<table, upc>> /\ sock' = NoSocket
        \/ \E f \in Fds : /\ table' = [table EXCEPT ![f] = "can"] /\ sock' = f
                         /\ upc' = [upc EXCEPT ![u] = "setup"]
    BY <1>4 DEF CreateSocket
  <2> QED
    BY <2>5, <2>6, <2>7
<1>5. ASSUME NEW u \in Users, CallClose(u) \/ RaiseStop(u) \/ Join(u) PROVE SocketInv'
  BY <1>2, <1>5 DEF CallClose, RaiseStop, Join, Places
<1>6. ASSUME NEW u \in Users, RegisterCallback(u) \/ CheckOpen(u) \/ Receive(u) \/ Write(u)
      PROVE  SocketInv'
  BY <1>2, <1>3, <1>6 DEF RegisterCallback, CheckOpen, Receive, Write, Places
<1>7. ASSUME NEW u \in Users, Setup(u) \/ LowerStop(u) PROVE SocketInv'
  <2>1. ~reopened => sock # NoSocket
    BY <1>7 DEF Setup, LowerStop, SocketInv
  <2> QED
    BY <1>2, <1>7, <2>1 DEF Setup, LowerStop, Places
<1>8. ASSUME NEW u \in Users, Launch(u) PROVE SocketInv'
  <2>1. /\ upc[u] = "launch" /\ upc' = [upc EXCEPT ![u] = "idle"]
        /\ UNCHANGED <<table, sock, is_open, reopened>>
    BY <1>8 DEF Launch
  <2>2. is_open
    BY <2>1 DEF ThreadInv
  <2> QED
    BY <2>1, <2>2 DEF SocketInv, TypeOK, Places
<1>9. ASSUME NEW u \in Users, MarkOpen(u) PROVE SocketInv'
  <2>1. /\ upc[u] = "open" /\ upc' = [upc EXCEPT ![u] = "start"] /\ is_open' = TRUE
        /\ UNCHANGED <<table, sock, reopened>>
    BY <1>9 DEF MarkOpen
  <2>2. ~reopened => sock # NoSocket
    BY <2>1 DEF SocketInv
  <2> QED
    BY <2>1, <2>2 DEF SocketInv, TypeOK
<1>10. ASSUME NEW u \in Users, Shut(u) PROVE SocketInv'
  <2>1. /\ upc[u] = "shut" /\ upc' = [upc EXCEPT ![u] = "forget"]
        /\ UNCHANGED <<sock, is_open, reopened>>
        /\ table' = IF sock = NoSocket THEN table ELSE [table EXCEPT ![sock] = "free"]
    BY <1>10 DEF Shut
  <2>2. ~reopened => \A f \in Fds : table'[f] # "can"
    <3>1. ~reopened => \A f \in Fds : table[f] = "can" => f = sock
      BY DEF SocketInv
    <3>2. table \in [Fds -> {"free", "can", "other"}] /\ sock \in Fds \cup {NoSocket}
      BY DEF TypeOK
    <3> QED
      BY <1>1, <2>1, <3>1, <3>2
  <2>3. /\ upc'[u] = "forget"
        /\ \A v \in Users : v # u => upc'[v] \notin Places
    BY <2>1, Alone DEF Places, TypeOK
  <2> QED
    BY <2>1, <2>2, <2>3 DEF SocketInv, Places
<1>11. ASSUME NEW u \in Users, Forget(u) PROVE SocketInv'
  <2>1. /\ upc[u] = "forget" /\ upc' = [upc EXCEPT ![u] = "mark"] /\ sock' = NoSocket
        /\ UNCHANGED <<table, is_open, reopened>>
    BY <1>11 DEF Forget
  <2>2. ~reopened => \A f \in Fds : table'[f] # "can"
    BY <2>1 DEF SocketInv
  <2>3. /\ upc'[u] = "mark"
        /\ \A v \in Users : v # u => upc'[v] \notin Places
    BY <2>1, Alone DEF Places, TypeOK
  <2> QED
    BY <2>1, <2>2, <2>3 DEF SocketInv, Places
<1>12. ASSUME NEW u \in Users, MarkClosed(u) PROVE SocketInv'
  <2>1. /\ upc[u] = "mark" /\ upc' = [upc EXCEPT ![u] = "idle"] /\ is_open' = FALSE
        /\ UNCHANGED <<table, sock, reopened>>
    BY <1>12 DEF MarkClosed
  <2>2. ~reopened => sock = NoSocket
    BY <2>1 DEF SocketInv
  <2>3. \A v \in Users : upc'[v] \notin Places
    BY <2>1, Alone DEF Places, TypeOK
  <2> QED
    BY <2>1, <2>2, <2>3 DEF SocketInv, Places
<1>13. ASSUME NEW k \in RxThreads, ReceiveStep(k) PROVE SocketInv'
  BY <1>3, <1>13, ReceiveMoves
<1>14. ASSUME OtherFile PROVE SocketInv'
  <2>1. UNCHANGED <<sock, is_open, reopened, upc>>
    BY <1>14 DEF OtherFile
  <2>2. \A f \in Fds : table'[f] = "can" <=> table[f] = "can"
    BY <1>14 DEF OtherFile, LowestFree, TypeOK
  <2>3. sock # NoSocket => sock \in Fds
    BY DEF TypeOK
  <2> QED
    BY <2>1, <2>2, <2>3 DEF SocketInv
<1> QED
  BY <1>4, <1>5, <1>6, <1>7, <1>8, <1>9, <1>10, <1>11, <1>12, <1>13, <1>14 DEF Next, UserStep

LEMMA LoopsKept ==
    ASSUME SoleController, TypeOK, RoleInv, ThreadInv, LoopInv, Next
    PROVE  LoopInv'
<1>1. SUFFICES ASSUME ~reopened', NEW k \in RxThreads, Alive(k)', rpc'[k] # "enter"
               PROVE  fd'[k] = sock'
  BY DEF LoopInv
<1>2. ASSUME NEW u \in Users, CreateSocket(u) PROVE FALSE
  <2>1. ~is_open /\ rpc' = rpc
    BY <1>1, <1>2 DEF CreateSocket
  <2> QED
    BY <1>1, <2>1, NobodyAlive DEF ThreadInv, Alive
<1>3. ASSUME NEW u \in Users, Forget(u) PROVE FALSE
  <2>1. rx_thread = NoThread /\ rpc' = rpc
    BY <1>3 DEF Forget, ThreadInv
  <2> QED
    BY <1>1, <2>1, NobodyAlive DEF Alive
<1>4. UNCHANGED <<reopened, rpc, fd, sock>> => fd'[k] = sock'
  BY <1>1 DEF LoopInv, Alive
<1>5. ASSUME NEW u \in Users, Launch(u) PROVE fd'[k] = sock'
  <2>1. /\ UNCHANGED <<reopened, fd, sock>>
        /\ rpc' = rpc \/ \E j \in RxThreads : rpc' = [rpc EXCEPT ![j] = "enter"]
    BY <1>5 DEF Launch
  <2> QED
    BY <1>1, <2>1 DEF LoopInv, Alive, TypeOK
<1>6. ASSUME NEW u \in Users,
             \/ CallClose(u) \/ RegisterCallback(u) \/ CheckOpen(u) \/ Receive(u)
             \/ Setup(u) \/ MarkOpen(u) \/ LowerStop(u) \/ RaiseStop(u) \/ Join(u) \/ Shut(u)
             \/ MarkClosed(u) \/ Write(u)
      PROVE  fd'[k] = sock'
  BY <1>4, <1>6 DEF CallClose, RegisterCallback, CheckOpen, Receive, Setup, MarkOpen, LowerStop,
                    RaiseStop, Join, Shut, MarkClosed, Write
<1>7. ASSUME NEW j \in RxThreads, ReceiveStep(j) PROVE fd'[k] = sock'
  <2>1. sock' = sock /\ reopened' = reopened
    BY <1>7, ReceiveMoves
  <2>2. CASE EnterLoop(j)
    BY <1>1, <2>1, <2>2 DEF EnterLoop, LoopInv, Alive, TypeOK
  <2>3. CASE ~EnterLoop(j)
    <3>1. /\ fd' = fd
          /\ rpc[j] \notin {"unborn", "enter", "done"}
          /\ \E p : rpc' = [rpc EXCEPT ![j] = p]
      BY <1>7, <2>3 DEF ReceiveStep, TestStop, Poll, Read, LockAndCall, CallbackReturns, Push
    <3> QED
      BY <1>1, <2>1, <3>1 DEF LoopInv, Alive, TypeOK
  <2> QED
    BY <2>2, <2>3
<1>8. OtherFile => fd'[k] = sock'
  BY <1>4 DEF OtherFile
<1> QED
  BY <1>2, <1>3, <1>5, <1>6, <1>7, <1>8 DEF Next, UserStep

-----------------------------------------------------------------------------
(* The frames *)

LEMMA NumbersGrow ==
    ASSUME NEW n \in Nat
    PROVE  /\ Numbers(n) \in Seq(Nat) /\ Len(Numbers(n)) = n
           /\ Append(Numbers(n), n + 1) = Numbers(n + 1)
<1>1. Numbers(n) \in Seq(Nat) /\ Len(Numbers(n)) = n
  BY DEF Numbers
<1>2. Numbers(n + 1) \in Seq(Nat) /\ Len(Numbers(n + 1)) = n + 1
  BY DEF Numbers
<1>3. Append(Numbers(n), n + 1) \in Seq(Nat) /\ Len(Append(Numbers(n), n + 1)) = n + 1
  BY <1>1
<1>4. ASSUME NEW i \in 1 .. n + 1 PROVE Append(Numbers(n), n + 1)[i] = Numbers(n + 1)[i]
  BY <1>1 DEF Numbers
<1> QED
  BY <1>1, <1>2, <1>3, <1>4, SeqEqual

\* receive() takes a frame from the queue.
LEMMA HeadMoves ==
    ASSUME NEW t \in Seq(Nat), NEW q \in Seq(Nat), q # << >>
    PROVE  Append(t, Head(q)) \o Tail(q) = t \o q
<1>1. Head(q) \in Nat /\ Tail(q) \in Seq(Nat) /\ Len(q) > 0 /\ Len(Tail(q)) = Len(q) - 1
  BY EmptySeq
<1> DEFINE a == Append(t, Head(q))
<1>2. a \in Seq(Nat) /\ Len(a) = Len(t) + 1
  BY <1>1
<1>3. a \o Tail(q) \in Seq(Nat) /\ Len(a \o Tail(q)) = Len(t) + Len(q)
  BY <1>1, <1>2
<1>4. t \o q \in Seq(Nat) /\ Len(t \o q) = Len(t) + Len(q)
  OBVIOUS
<1>5. ASSUME NEW i \in 1 .. Len(t) + Len(q) PROVE (a \o Tail(q))[i] = (t \o q)[i]
  BY <1>1, <1>2
<1> QED
  BY <1>3, <1>4, <1>5, SeqEqual

\* The receive thread appends one.
LEMMA TailGrows ==
    ASSUME NEW t \in Seq(Nat), NEW q \in Seq(Nat), NEW x \in Nat
    PROVE  t \o Append(q, x) = Append(t \o q, x)
<1>1. t \o Append(q, x) \in Seq(Nat) /\ Len(t \o Append(q, x)) = Len(t) + Len(q) + 1
  OBVIOUS
<1>2. Append(t \o q, x) \in Seq(Nat) /\ Len(Append(t \o q, x)) = Len(t) + Len(q) + 1
  OBVIOUS
<1>3. ASSUME NEW i \in 1 .. Len(t) + Len(q) + 1
      PROVE  (t \o Append(q, x))[i] = Append(t \o q, x)[i]
  OBVIOUS
<1> QED
  BY <1>1, <1>2, <1>3, SeqEqual

LEMMA FramesKept ==
    ASSUME TypeOK, ThreadInv, FrameInv, Next
    PROVE  FrameInv'
<1>1. UNCHANGED <<rpc, frame, received, seen, taken, rx_queue>> => FrameInv'
  BY DEF FrameInv
<1>2. ASSUME NEW k \in RxThreads, NEW p, rpc' = [rpc EXCEPT ![k] = p],
             UNCHANGED <<frame, received, seen, taken, rx_queue>>,
             rpc[k] \notin {"lock", "call", "push"}, p \notin {"lock", "call", "push"}
      PROVE  FrameInv'
  BY <1>2 DEF FrameInv, TypeOK
<1>3. ASSUME NEW k \in RxThreads, rpc[k] \in {"read", "lock", "call", "push"}
      PROVE  \A j \in RxThreads : j # k => rpc[j] \notin {"lock", "call", "push"}
  BY <1>3 DEF ThreadInv, Alive
<1>4. /\ taken \in Seq(Nat) /\ rx_queue \in Seq(Nat) /\ seen \in Seq(Nat)
      /\ Len(seen) \in Nat /\ received \in Nat
      /\ frame \in [RxThreads -> Nat] /\ rpc \in [RxThreads -> Loop]
  BY DEF TypeOK, Loop
<1>5. ASSUME NEW u \in Users, Launch(u) PROVE FrameInv'
  <2>1. /\ UNCHANGED <<frame, received, seen, taken, rx_queue>>
        /\ \/ rpc' = rpc
           \/ \E k \in RxThreads : rpc[k] = "unborn" /\ rpc' = [rpc EXCEPT ![k] = "enter"]
    BY <1>5 DEF Launch
  <2> QED
    BY <1>1, <1>2, <2>1
<1>6. ASSUME NEW u \in Users, Receive(u) PROVE FrameInv'
  <2>1. taken' \o rx_queue' = taken \o rx_queue
    BY <1>4, <1>6, HeadMoves DEF Receive
  <2>2. UNCHANGED <<rpc, frame, received, seen>>
    BY <1>6 DEF Receive
  <2> QED
    BY <2>1, <2>2 DEF FrameInv
<1>7. ASSUME NEW u \in Users,
             \/ CreateSocket(u) \/ CallClose(u) \/ RegisterCallback(u) \/ CheckOpen(u)
             \/ Setup(u) \/ MarkOpen(u) \/ LowerStop(u) \/ RaiseStop(u) \/ Join(u) \/ Shut(u)
             \/ Forget(u) \/ MarkClosed(u) \/ Write(u)
      PROVE  FrameInv'
  BY <1>1, <1>7 DEF CreateSocket, CallClose, RegisterCallback, CheckOpen, Setup, MarkOpen,
                    LowerStop, RaiseStop, Join, Shut, Forget, MarkClosed, Write
<1>8. ASSUME NEW k \in RxThreads, EnterLoop(k) \/ TestStop(k) \/ Poll(k) PROVE FrameInv'
  <2>1. /\ UNCHANGED <<frame, received, seen, taken, rx_queue>>
        /\ rpc[k] \in {"enter", "while", "poll"}
        /\ \E p \in {"while", "done", "poll", "read"} : rpc' = [rpc EXCEPT ![k] = p]
    BY <1>8 DEF EnterLoop, TestStop, Poll
  <2> QED
    BY <1>2, <2>1
<1>9. ASSUME NEW k \in RxThreads, Read(k) PROVE FrameInv'
  <2>1. CASE Moves(k, "read", "while") /\ UNCHANGED <<received, frame>>
    BY <1>2, <1>9, <2>1 DEF Read
  <2>2. CASE /\ Moves(k, "read", "lock")
             /\ received' = received + 1
             /\ frame' = [frame EXCEPT ![k] = received + 1]
    <3>1. UNCHANGED <<seen, taken, rx_queue>>
      BY <1>9 DEF Read
    <3>2. \A j \in RxThreads : rpc[j] \notin {"lock", "call", "push"}
      BY <1>3, <2>2
    <3>3. received = Len(seen) /\ taken \o rx_queue = seen
      BY <3>2 DEF FrameInv
    <3>4. rpc'[k] = "lock" /\ \A j \in RxThreads : j # k => rpc'[j] = rpc[j]
      BY <1>4, <2>2
    <3>5. frame'[k] = received + 1
      BY <1>4, <2>2
    <3> QED
      BY <1>4, <2>2, <3>1, <3>2, <3>3, <3>4, <3>5 DEF FrameInv
  <2> QED
    BY <1>9, <2>1, <2>2 DEF Read
<1>10. ASSUME NEW k \in RxThreads, LockAndCall(k) PROVE FrameInv'
  <2>1. /\ rpc[k] = "lock" /\ seen' = Append(seen, frame[k])
        /\ UNCHANGED <<frame, received, taken, rx_queue>>
    BY <1>10 DEF LockAndCall
  <2>2. \E p \in {"call", "push"} : rpc' = [rpc EXCEPT ![k] = p]
    BY <1>10 DEF LockAndCall
  <2>3. /\ rpc'[k] \in {"call", "push"}
        /\ \A j \in RxThreads : j # k => rpc'[j] \notin {"lock", "call", "push"}
    BY <1>3, <1>4, <2>1, <2>2
  <2>4. frame[k] = Len(seen) + 1 /\ received = Len(seen) + 1 /\ seen = Numbers(Len(seen))
    BY <2>1 DEF FrameInv
  <2>5. taken \o rx_queue = Numbers(Len(seen))
    <3>1. \A j \in RxThreads : rpc[j] \notin {"call", "push"}
      BY <1>3, <2>1
    <3> QED
      BY <2>4, <3>1 DEF FrameInv
  <2>6. seen' = Numbers(Len(seen) + 1) /\ Len(seen') = Len(seen) + 1
    BY <1>4, <2>1, <2>4, NumbersGrow
  <2>7. Len(seen') - 1 = Len(seen)
    BY <1>4, <2>6
  <2> QED
    BY <1>4, <2>1, <2>3, <2>4, <2>5, <2>6, <2>7 DEF FrameInv
<1>11. ASSUME NEW k \in RxThreads, CallbackReturns(k) PROVE FrameInv'
  <2>1. /\ rpc[k] = "call" /\ rpc' = [rpc EXCEPT ![k] = "push"]
        /\ UNCHANGED <<seen, frame, received, taken, rx_queue>>
    BY <1>11 DEF CallbackReturns
  <2>2. /\ rpc'[k] = "push"
        /\ \A j \in RxThreads : j # k => rpc'[j] = rpc[j] /\ rpc'[j] \notin {"lock", "call", "push"}
    BY <1>3, <1>4, <2>1
  <2>3. received = Len(seen)
    BY <1>3, <2>1 DEF FrameInv
  <2>4. /\ frame[k] = Len(seen) /\ Len(seen) > 0 /\ seen = Numbers(Len(seen))
        /\ taken \o rx_queue = Numbers(Len(seen) - 1)
    BY <2>1 DEF FrameInv
  <2> QED
    BY <2>1, <2>2, <2>3, <2>4 DEF FrameInv
<1>12. ASSUME NEW k \in RxThreads, Push(k) PROVE FrameInv'
  <2>1. /\ rpc[k] = "push" /\ rpc' = [rpc EXCEPT ![k] = "while"]
        /\ rx_queue' = Append(rx_queue, frame[k])
        /\ UNCHANGED <<seen, frame, received, taken>>
    BY <1>12 DEF Push
  <2>2. \A j \in RxThreads : rpc'[j] \notin {"lock", "call", "push"}
    BY <1>3, <1>4, <2>1
  <2>3. /\ frame[k] = Len(seen) /\ Len(seen) > 0 /\ seen = Numbers(Len(seen))
        /\ taken \o rx_queue = Numbers(Len(seen) - 1)
    BY <2>1 DEF FrameInv
  <2>4. received = Len(seen)
    BY <1>3, <2>1 DEF FrameInv
  <2>5. taken' \o rx_queue' = Append(Numbers(Len(seen) - 1), Len(seen))
    <3>1. frame[k] \in Nat
      BY <1>4
    <3>2. taken \o Append(rx_queue, frame[k]) = Append(taken \o rx_queue, frame[k])
      BY <1>4, <3>1, TailGrows
    <3> QED
      BY <2>1, <2>3, <3>2
  <2>6. Append(Numbers(Len(seen) - 1), Len(seen)) = Numbers(Len(seen))
    <3>1. Len(seen) - 1 \in Nat /\ (Len(seen) - 1) + 1 = Len(seen)
      BY <1>4, <2>3
    <3> QED
      BY <3>1, NumbersGrow
  <2> QED
    BY <2>1, <2>2, <2>3, <2>4, <2>5, <2>6 DEF FrameInv
<1>13. OtherFile => FrameInv'
  BY <1>1 DEF OtherFile
<1> QED
  BY <1>5, <1>6, <1>7, <1>8, <1>9, <1>10, <1>11, <1>12, <1>13 DEF Next, UserStep, ReceiveStep

-----------------------------------------------------------------------------
(* The theorems *)

LEMMA InitTypes == Init => TypeOK
<1> SUFFICES ASSUME Init PROVE TypeOK
  OBVIOUS
<1>1. << >> \in Seq(Nat) /\ NoSocket \in Fds \cup {NoSocket} /\ 0 \in Nat
  OBVIOUS
<1>2. rx_queue \in Seq(Nat) /\ seen \in Seq(Nat) /\ taken \in Seq(Nat) /\ received \in Nat
  BY <1>1 DEF Init
<1>3. /\ table \in [Fds -> {"free", "can", "other"}]
      /\ upc \in [Users -> {"idle", "setup", "open", "start", "launch", "stop", "join",
                            "shut", "forget", "mark", "write"}]
      /\ checked \in [Users -> Fds \cup {NoSocket}]
      /\ sentTo \in [Users -> {"nothing", "can", "other"}]
      /\ rpc \in [RxThreads -> Loop]
      /\ fd \in [RxThreads -> Fds \cup {NoSocket}]
      /\ frame \in [RxThreads -> Nat]
  BY <1>1 DEF Init, Loop
<1>4. \A k \in RxThreads : rpc[k] # "call" /\ callback_owner # k
  BY LinuxCANAssumption DEF Init, RxThreads
<1> QED
  BY <1>1, <1>2, <1>3, <1>4 DEF Init, TypeOK, Loop

LEMMA InitCan == Init => CanInv
<1> SUFFICES ASSUME Init PROVE CanInv
  OBVIOUS
<1>1. TypeOK
  BY InitTypes
<1>2. RoleInv /\ ThreadInv /\ LoopInv
  BY DEF Init, RoleInv, ThreadInv, LoopInv, Places, Alive
<1>3. SocketInv
  BY DEF Init, SocketInv, Places
<1>4. FrameInv
  <2>1. seen = << >> /\ taken = << >> /\ rx_queue = << >> /\ received = 0
    BY DEF Init
  <2>2. Numbers(0) \in Seq(Nat) /\ Len(Numbers(0)) = 0
    BY NumbersGrow
  <2>3. Numbers(0) = << >>
    BY <2>2, EmptySeq
  <2>4. << >> \o << >> = << >> /\ Len(<< >>) = 0
    OBVIOUS
  <2>5. \A k \in RxThreads : rpc[k] = "unborn"
    BY DEF Init
  <2> QED
    BY <2>1, <2>3, <2>4, <2>5 DEF FrameInv
<1> QED
  BY <1>1, <1>2, <1>3, <1>4 DEF CanInv

LEMMA StepCan ==
    ASSUME SoleController, CanInv, [Next]_vars
    PROVE  CanInv'
<1>1. CASE Next
  BY <1>1, TypesKept, RolesKept, ThreadsKept, SocketsKept, LoopsKept, FramesKept DEF CanInv
<1>2. CASE UNCHANGED vars
  <2>1. TypeOK' /\ RoleInv' /\ ThreadInv'
    BY <1>2 DEF vars, rxVars, CanInv, TypeOK, RoleInv, ThreadInv, Alive
  <2>2. SocketInv' /\ LoopInv'
    BY <1>2 DEF vars, rxVars, CanInv, SocketInv, LoopInv, Alive
  <2>3. FrameInv'
    BY <1>2 DEF vars, rxVars, CanInv, FrameInv
  <2> QED
    BY <2>1, <2>2, <2>3 DEF CanInv
<1> QED
  BY <1>1, <1>2

(***************************************************************************)
(* Whoever calls init, close, send, receive and registerCallback, and in   *)
(* whatever order, every variable of the interface keeps its type, and     *)
(* callback_mutex_ is held by the thread that is in the callback and by    *)
(* nobody else.                                                            *)
(***************************************************************************)
THEOREM CanTypes == Spec => []TypeOK
<1>1. TypeOK /\ [Next]_vars => TypeOK'
  <2> SUFFICES ASSUME TypeOK, [Next]_vars PROVE TypeOK'
    OBVIOUS
  <2>1. CASE UNCHANGED vars
    BY <2>1 DEF vars, rxVars, TypeOK
  <2> QED
    BY <2>1, TypesKept
<1> QED
  BY <1>1, InitTypes, PTL DEF Spec

(***************************************************************************)
(* The inductive invariant of the interface with one controlling thread:   *)
(* the receive thread that runs is the one that rx_thread_ joins, sock_ is *)
(* the one CAN socket, and at most one frame is on its way from read to    *)
(* the queue.                                                              *)
(***************************************************************************)
THEOREM CanInvariant ==
    ASSUME SoleController
    PROVE  Spec => []CanInv
<1>1. CanInv /\ [Next]_vars => CanInv'
  BY StepCan
<1> QED
  BY <1>1, InitCan, PTL DEF Spec

(***************************************************************************)
(* After a close or a failed init no receive thread is left that could     *)
(* call the driver's callback, however often the interface is opened.      *)
(***************************************************************************)
THEOREM CloseSilences ==
    ASSUME SoleController
    PROVE  Spec => []QuietAfterClose
<1>1. CanInv => QuietAfterClose
  BY NobodyAlive DEF CanInv, ThreadInv, QuietAfterClose
<1> QED
  BY <1>1, CanInvariant, PTL

(***************************************************************************)
(* Between calls the interface owns its one socket if it is open and none  *)
(* otherwise: neither a failed init nor a close leaves one behind.         *)
(***************************************************************************)
THEOREM NoSocketLeaks ==
    ASSUME SoleController
    PROVE  Spec => []NothingLeaked
<1>1. CanInv => NothingLeaked
  <2> SUFFICES ASSUME CanInv, ~reopened, \A u \in Users : upc[u] \in {"idle", "write"}
               PROVE  {f \in Fds : table[f] = "can"} = IF is_open THEN {sock} ELSE {}
    BY DEF NothingLeaked
  <2>1. \A u \in Users : upc[u] \notin Places
    BY DEF Places
  <2>2. \A f \in Fds : table[f] = "can" => f = sock
    BY DEF CanInv, SocketInv
  <2>3. CASE is_open
    <3>1. sock # NoSocket /\ table[sock] = "can" /\ sock \in Fds
      BY <2>1, <2>3 DEF CanInv, SocketInv, Places, TypeOK
    <3> QED
      BY <2>2, <2>3, <3>1
  <2>4. CASE ~is_open
    <3>1. sock = NoSocket
      BY <2>1, <2>4 DEF CanInv, SocketInv
    <3> QED
      BY <2>2, <2>4, <3>1, LinuxCANAssumption
  <2> QED
    BY <2>3, <2>4
<1> QED
  BY <1>1, CanInvariant, PTL

(***************************************************************************)
(* The receive thread polls and reads sock_, and sock_ is its CAN socket:  *)
(* no descriptor is closed, or handed to another file, under it.           *)
(***************************************************************************)
THEOREM ReadsItsSocket ==
    ASSUME SoleController
    PROVE  Spec => []ReadsOwnSocket
<1>1. CanInv => ReadsOwnSocket
  <2> SUFFICES ASSUME CanInv, NEW k \in RxThreads, ~reopened, rpc[k] \in {"poll", "read"}
               PROVE  fd[k] = sock /\ sock \in Fds /\ table[sock] = "can"
    BY DEF ReadsOwnSocket
  <2>1. Alive(k) /\ fd[k] = sock
    BY DEF CanInv, LoopInv, Alive
  <2>2. rx_thread # NoThread
    BY <2>1, LinuxCANAssumption DEF CanInv, ThreadInv, RxThreads
  <2>3. is_open /\ \A u \in Users : upc[u] \notin {"shut", "forget", "mark"}
    BY <2>2 DEF CanInv, ThreadInv
  <2>4. sock # NoSocket /\ table[sock] = "can"
    BY <2>3 DEF CanInv, SocketInv
  <2> QED
    BY <2>1, <2>4 DEF CanInv, TypeOK
<1> QED
  BY <1>1, CanInvariant, PTL

(***************************************************************************)
(* What receive() has returned and what waits in rx_queue_ is what the     *)
(* callback saw, which is what was read, in that order, and a thread that  *)
(* is joined leaves nothing out: for any number of frames, opens and       *)
(* closes.                                                                 *)
(***************************************************************************)
THEOREM QueueAfterCallback ==
    ASSUME SoleController
    PROVE  Spec => []QueueFollowsCallback
<1>1. CanInv => QueueFollowsCallback
  <2> SUFFICES ASSUME CanInv PROVE QueueFollowsCallback
    OBVIOUS
  <2> DEFINE queued == taken \o rx_queue
  <2>1. /\ seen = Numbers(Len(seen)) /\ Len(seen) \in Nat /\ received \in Nat
    BY DEF CanInv, FrameInv, TypeOK
  <2>2. received \in {Len(seen), Len(seen) + 1}
    BY DEF CanInv, FrameInv
  <2>3. queued = seen \/ (Len(seen) > 0 /\ queued = Numbers(Len(seen) - 1))
    <3>1. ASSUME NEW k \in RxThreads, rpc[k] \in {"call", "push"}
          PROVE  Len(seen) > 0 /\ queued = Numbers(Len(seen) - 1)
      BY <3>1 DEF CanInv, FrameInv
    <3>2. (\A k \in RxThreads : rpc[k] \notin {"call", "push"}) => queued = seen
      BY DEF CanInv, FrameInv
    <3> HIDE DEF queued
    <3> QED
      BY <3>1, <3>2
  <2>4. ASSUME NEW a \in Nat, NEW b \in Nat, a <= b PROVE IsPrefix(Numbers(a), Numbers(b))
    <3>1. Len(Numbers(a)) = a /\ Len(Numbers(b)) = b
      BY NumbersGrow
    <3>2. SubSeq(Numbers(a), 1, a) = Numbers(a) /\ SubSeq(Numbers(b), 1, a) = Numbers(a)
      BY <2>4 DEF Numbers
    <3> QED
      BY <2>4, <3>1, <3>2 DEF IsPrefix
  <2>5. IsPrefix(queued, seen)
    <3>1. CASE queued = seen
      BY <2>1, <2>4, <3>1
    <3>2. CASE Len(seen) > 0 /\ queued = Numbers(Len(seen) - 1)
      <4>1. Len(seen) - 1 \in Nat /\ Len(seen) - 1 <= Len(seen)
        BY <2>1, <3>2
      <4> QED
        BY <2>1, <2>4, <3>2, <4>1
    <3> QED
      BY <2>3, <3>1, <3>2
  <2>6. IsPrefix(seen, [i \in 1 .. received |-> i])
    <3>1. Len(seen) <= received
      BY <2>1, <2>2
    <3> QED
      BY <2>1, <2>4, <3>1 DEF Numbers
  <2>7. ASSUME \A k \in RxThreads : ~Alive(k) PROVE Len(queued) = received
    <3>1. \A k \in RxThreads : rpc[k] \notin {"lock", "call", "push"}
      BY <2>7 DEF Alive
    <3> QED
      BY <3>1 DEF CanInv, FrameInv
  <2> QED
    BY <2>5, <2>6, <2>7 DEF QueueFollowsCallback
<1> QED
  BY <1>1, CanInvariant, PTL
=============================================================================
