--------------------------- MODULE WindowsCANProofs ---------------------------
(***************************************************************************)
(* The Windows interface: how often its simulation answers, for any number *)
(* of senders and any period; and, with one thread that opens and closes   *)
(* it, what its receive thread and its socket are at every moment, for any *)
(* number of opens, and that the queue and the callback get the same       *)
(* frames.                                                                 *)
(***************************************************************************)
EXTENDS WindowsCAN, Integers, TLAPS, FiniteSetTheorems, SequenceTheorems

\* One thread calls init and close: the driver's owner.
Controls(u) == Ops[u] \cap {"simulate", "gateway", "close"} # {}

SoleController == \A u, v \in Users : Controls(u) /\ Controls(v) => u = v

\* The places of initGateway and close, and those of everything else.
Control == {"socket", "mark", "start", "launch", "join", "shut", "closed"}

Traffic == Outside \cup {"while", "recvfrom"}

-----------------------------------------------------------------------------
(* The inductive invariants *)

\* An answer goes to the message that was counted last by its own thread.
AnswerInv ==
    /\ count \in Nat
    /\ answers \in [Users -> Nat]
    /\ DOMAIN pc = Actors
    /\ \A u \in Users : answers[u] * Period <= count - (IF pc[u] = "test" THEN 1 ELSE 0)

TypeInv ==
    /\ is_open \in BOOLEAN
    /\ use_gateway \in BOOLEAN
    /\ made \in 0 .. MaxInits
    /\ sock \in 0 .. made
    /\ winsock \in Int
    /\ rx_thread \in RxThreads \cup {NoThread}
    /\ pc \in [Actors -> Control \cup Traffic \cup {"unborn", "done"}]
    /\ reopened \in BOOLEAN
    /\ strayed \in BOOLEAN

RoleInv == \A u \in Users : pc[u] \in Control => Controls(u)

\* A receive thread that runs is the one that close joins.
ThreadInv ==
    /\ \A k \in RxThreads : Alive(k) => rx_thread = k
    /\ rx_thread # NoThread => is_open
    /\ \A u \in Users :
         /\ pc[u] = "socket" => made < MaxInits
         /\ pc[u] \in {"mark", "start", "launch"} => made > 0
         /\ pc[u] \in {"start", "launch"} => is_open
         /\ pc[u] \in {"shut", "closed"} => rx_thread = NoThread

\* The one socket is gateway_socket_, from socket() to closesocket, Winsock is
\* started for it, and the latest init was for the gateway.
SocketInv ==
    /\ strayed => reopened
    /\ ~reopened =>
         /\ sockets = {sock} \ {NoSocket}
         /\ sock # NoSocket => lastInit = "gateway"
         /\ \A u \in Users :
              /\ pc[u] = "socket" => sock = NoSocket /\ winsock = 1 /\ lastInit = "gateway"
              /\ pc[u] = "closed" => sock = NoSocket
         /\ (\A u \in Users : pc[u] # "socket") => winsock = IF sock = NoSocket THEN 0 ELSE 1
         /\ sock # NoSocket /\ (\A u \in Users : pc[u] # "mark") => use_gateway
         /\ ~is_open /\ (\A u \in Users : pc[u] \notin Control) => sock = NoSocket

WinInv == TypeInv /\ RoleInv /\ ThreadInv /\ SocketInv

USE DEF modeVars, socketVars, threadVars, callVars, queueVars, frameVars, simVars, trafficVars,
        initVars, At

-----------------------------------------------------------------------------
(* The simulation's answers *)

\* In whole turns of the counter, less than q is q - 1 at most.
LEMMA WholeTurns ==
    ASSUME NEW n \in Nat \ {0}, NEW a \in Nat, NEW c \in Nat, a * n <= c - 1, c % n = 0
    PROVE  (a + 1) * n <= c
<1>1. PICK q \in Nat : c = q * n
  <2>1. c = (c \div n) * n + (c % n) /\ c \div n \in Nat
    OBVIOUS
  <2> QED
    BY <2>1
<1>2. a < q
  <2>1. SUFFICES ASSUME a >= q PROVE FALSE
    OBVIOUS
  <2>2. a * n = q * n + (a - q) * n /\ (a - q) * n >= 0
    BY <2>1
  <2> QED
    BY <1>1, <2>2
<1>3. q * n = (a + 1) * n + (q - a - 1) * n /\ (q - a - 1) * n >= 0
  BY <1>2
<1> QED
  BY <1>1, <1>3

LEMMA AnswersKept ==
    ASSUME AnswerInv, Next
    PROVE  AnswerInv'
<1> USE WindowsCANAssumption
\* A thread moves, and the simulation stays as it is.
<1>1. ASSUME NEW a, NEW p, pc' = [pc EXCEPT ![a] = p], UNCHANGED <<count, answers>>,
             p # "test"
      PROVE  AnswerInv'
  <2>1. \A u \in Users : pc'[u] = "test" => pc[u] = "test"
    BY <1>1 DEF AnswerInv, Actors
  <2> QED
    BY <1>1, <2>1 DEF AnswerInv
<1>2. UNCHANGED <<count, answers, pc>> => AnswerInv'
  BY DEF AnswerInv
<1>3. ASSUME NEW u \in Users, InitSimulation(u) \/ RegisterCallback(u) \/ Receive(u) \/ SendTo(u)
      PROVE  AnswerInv'
  BY <1>1, <1>2, <1>3 DEF InitSimulation, RegisterCallback, Receive, SendTo
<1>4. ASSUME NEW u \in Users, StartWinsock(u) \/ CreateSocket(u) \/ CheckOpen(u) \/ ChooseMode(u)
      PROVE  AnswerInv'
  BY <1>1, <1>2, <1>4 DEF StartWinsock, CreateSocket, CheckOpen, ChooseMode
<1>5. ASSUME NEW u \in Users,
             \/ CallClose(u) \/ MarkGateway(u) \/ LowerStop(u) \/ Join(u) \/ Shut(u)
             \/ MarkClosed(u)
      PROVE  AnswerInv'
  BY <1>1, <1>5 DEF CallClose, MarkGateway, LowerStop, Join, Shut, MarkClosed
<1>6. ASSUME NEW u \in Users, Launch(u) PROVE AnswerInv'
  <2>1. /\ UNCHANGED <<count, answers>>
        /\ pc' = pc \/ pc' = [[pc EXCEPT ![u] = "idle"] EXCEPT ![made] = "while"]
    BY <1>6 DEF Launch
  <2>2. DOMAIN pc' = Actors /\ \A v \in Users : pc'[v] = "test" => pc[v] = "test"
    BY <2>1 DEF AnswerInv, Actors
  <2> QED
    BY <2>1, <2>2 DEF AnswerInv
<1>7. ASSUME NEW a \in Actors, Deliver(a) PROVE AnswerInv'
  <2>1. /\ UNCHANGED <<count, answers>>
        /\ \E p \in {"idle", "lock", "call", "push", "while"} : pc' = [pc EXCEPT ![a] = p]
    BY <1>7 DEF Deliver, Push, LockAndCall, CallbackReturns, AfterCallback
  <2> QED
    BY <1>1, <2>1
<1>8. ASSUME NEW k \in RxThreads, TestStop(k) \/ ReceiveFrom(k) PROVE AnswerInv'
  BY <1>1, <1>8 DEF TestStop, ReceiveFrom
<1>9. ASSUME NEW u \in Users, CountMessage(u) PROVE AnswerInv'
  <2>1. /\ pc[u] = "count" /\ pc' = [pc EXCEPT ![u] = "test"]
        /\ count' = count + 1 /\ answers' = answers
    BY <1>9 DEF CountMessage
  <2>2. \A v \in Users : v # u => pc'[v] = pc[v]
    BY <2>1 DEF AnswerInv
  <2>3. \A v \in Users : answers[v] * Period \in Nat
    BY DEF AnswerInv
  <2>4. answers[u] * Period <= count
    BY <2>1 DEF AnswerInv
  <2> QED
    BY <2>1, <2>2, <2>3, <2>4 DEF AnswerInv
<1>10. ASSUME NEW u \in Users, TestCount(u) PROVE AnswerInv'
  <2>1. pc[u] = "test" /\ count' = count
    BY <1>10 DEF TestCount
  <2>2. CASE count % Period # 0
    BY <1>1, <1>10, <2>2 DEF TestCount
  <2>3. CASE count % Period = 0
    <3>1. pc' = [pc EXCEPT ![u] = "push"] /\ answers' = [answers EXCEPT ![u] = @ + 1]
      BY <1>10, <2>3 DEF TestCount
    <3>2. answers[u] \in Nat /\ count \in Nat /\ answers[u] * Period <= count - 1
      BY <2>1 DEF AnswerInv
    <3>3. (answers[u] + 1) * Period <= count
      BY <2>3, <3>2, WholeTurns
    <3>4. answers' \in [Users -> Nat] /\ answers'[u] = answers[u] + 1
      BY <3>1, <3>2 DEF AnswerInv
    <3>5. \A v \in Users : v # u => answers'[v] = answers[v] /\ pc'[v] = pc[v]
      BY <3>1 DEF AnswerInv, Actors
    <3>6. pc'[u] = "push" /\ DOMAIN pc' = Actors
      BY <3>1 DEF AnswerInv, Actors
    <3> QED
      BY <2>1, <3>2, <3>3, <3>4, <3>5, <3>6 DEF AnswerInv
  <2> QED
    BY <2>2, <2>3
<1> QED
  BY <1>3, <1>4, <1>5, <1>6, <1>7, <1>8, <1>9, <1>10
     DEF Next, UserStep, ReceiveStep, Actors

(***************************************************************************)
(* However many threads send, and however their counting and testing of    *)
(* sim_message_count_ interleave, no thread gets more than one answer in a *)
(* period of the counter.                                                  *)
(***************************************************************************)
THEOREM SimulationAnswers == Spec => []AnswerRate
<1>1. Init => AnswerInv
  <2> SUFFICES ASSUME Init PROVE AnswerInv
    OBVIOUS
  <2>1. count = 0 /\ answers = [u \in Users |-> 0]
    BY DEF Init
  <2>2. DOMAIN pc = Actors /\ \A u \in Users : pc[u] = "idle"
    BY DEF Init, Actors
  <2>3. 0 * Period = 0
    BY WindowsCANAssumption
  <2> QED
    BY <2>1, <2>2, <2>3 DEF AnswerInv
<1>2. AnswerInv /\ [Next]_vars => AnswerInv'
  <2> SUFFICES ASSUME AnswerInv, [Next]_vars PROVE AnswerInv'
    OBVIOUS
  <2>1. CASE UNCHANGED vars
    BY <2>1 DEF vars, AnswerInv
  <2> QED
    BY <2>1, AnswersKept
<1>3. AnswerInv => AnswerRate
  <2> SUFFICES ASSUME AnswerInv, NEW u \in Users PROVE answers[u] * Period <= count
    BY DEF AnswerRate
  <2>1. answers[u] * Period \in Nat /\ count \in Nat
    BY WindowsCANAssumption DEF AnswerInv
  <2> QED
    BY <2>1 DEF AnswerInv
<1> QED
  BY <1>1, <1>2, <1>3, PTL DEF Spec

-----------------------------------------------------------------------------
(* One thread that opens and closes *)

\* The thread that is in init or close is there alone.
LEMMA Alone ==
    ASSUME SoleController, RoleInv, NEW u \in Users, pc[u] \in Control \/ Controls(u)
    PROVE  \A v \in Users : v # u => pc[v] \notin Control
BY DEF SoleController, RoleInv

LEMMA NobodyAlive ==
    ASSUME ThreadInv, rx_thread = NoThread
    PROVE  \A k \in RxThreads : ~Alive(k)
BY WindowsCANAssumption DEF ThreadInv, Actors

\* A step of thread a that leaves the interface as it is.
Passes(a) ==
    /\ UNCHANGED <<modeVars, socketVars, threadVars, lastInit, reopened>>
    /\ \/ pc' = pc
       \/ /\ pc[a] \in Traffic
          /\ \E p \in Traffic \cup {"done"} : pc' = [pc EXCEPT ![a] = p]

\* Sending, receiving and delivering are such steps, and only sendto looks at
\* where a message goes.
LEMMA UserPasses ==
    ASSUME NEW u \in Users,
           \/ RegisterCallback(u) \/ Receive(u) \/ CheckOpen(u) \/ ChooseMode(u)
           \/ CountMessage(u) \/ TestCount(u) \/ Deliver(u)
    PROVE  Passes(u) /\ strayed' = strayed
<1> USE DEF Passes, Traffic, Outside
<1>1. CASE RegisterCallback(u) \/ Receive(u)
  BY <1>1 DEF RegisterCallback, Receive
<1>2. CASE CheckOpen(u)
  BY <1>2 DEF CheckOpen
<1>3. CASE ChooseMode(u)
  BY <1>3 DEF ChooseMode
<1>4. CASE CountMessage(u)
  BY <1>4 DEF CountMessage
<1>5. CASE TestCount(u)
  BY <1>5 DEF TestCount
<1>6. CASE Deliver(u)
  BY <1>6 DEF Deliver, Push, LockAndCall, CallbackReturns, AfterCallback
<1> QED
  BY <1>1, <1>2, <1>3, <1>4, <1>5, <1>6

LEMMA ReceivePasses ==
    ASSUME NEW k \in RxThreads, ReceiveStep(k)
    PROVE  Passes(k) /\ strayed' = strayed
<1> USE DEF Passes, Traffic, Outside
<1>1. CASE TestStop(k)
  BY <1>1 DEF TestStop
<1>2. CASE ReceiveFrom(k)
  BY <1>2 DEF ReceiveFrom
<1>3. CASE Deliver(k)
  BY <1>3 DEF Deliver, Push, LockAndCall, CallbackReturns, AfterCallback
<1> QED
  BY <1>1, <1>2, <1>3 DEF ReceiveStep

LEMMA PassingKeeps ==
    ASSUME WinInv, NEW a \in Actors, Passes(a),
           strayed' = strayed \/ (strayed' \in BOOLEAN /\ (strayed' => reopened))
    PROVE  WinInv'
<1>1. TypeInv /\ RoleInv /\ ThreadInv /\ SocketInv
  BY DEF WinInv
<1>2. UNCHANGED <<is_open, use_gateway, sock, sockets, made, winsock, rx_thread, lastInit,
                  reopened>>
  BY DEF Passes
<1>3. TypeInv'
  BY <1>1, <1>2 DEF Passes, TypeInv, SocketInv
<1>4. \A u \in Users :
        /\ pc'[u] \in Control <=> pc[u] \in Control
        /\ pc[u] \in Control => pc'[u] = pc[u]
  BY <1>1 DEF Passes, TypeInv, Traffic, Outside, Control, Actors
<1>5. \A k \in RxThreads : Alive(k)' => Alive(k)
  BY <1>1 DEF Passes, TypeInv, Alive, Traffic, Outside, Actors
<1>6. RoleInv'
  BY <1>1, <1>4 DEF RoleInv
<1>7. ThreadInv'
  BY <1>1, <1>2, <1>4, <1>5 DEF ThreadInv, Control
<1>8. SocketInv'
  BY <1>1, <1>2, <1>4 DEF SocketInv, Control
<1> QED
  BY <1>3, <1>6, <1>7, <1>8 DEF WinInv

\* sendto reaches the gateway through the socket only.
LEMMA SendingKeeps ==
    ASSUME WinInv, NEW u \in Users, SendTo(u)
    PROVE  WinInv'
<1>1. Passes(u)
  BY DEF SendTo, Passes, Traffic, Outside
<1>2. \/ strayed' = strayed
      \/ sock \in sockets /\ strayed' = (strayed \/ lastInit # "gateway")
  BY DEF SendTo
<1>3. ASSUME sock \in sockets, ~reopened PROVE lastInit = "gateway"
  BY <1>3 DEF WinInv, SocketInv
<1>4. strayed \in BOOLEAN /\ (strayed => reopened)
  BY DEF WinInv, TypeInv, SocketInv
<1>5. strayed' = strayed \/ (strayed' \in BOOLEAN /\ (strayed' => reopened))
  BY <1>2, <1>3, <1>4
<1> QED
  BY <1>1, <1>5, PassingKeeps DEF Actors

\* The owner moves from one place to another.
Step(u, from, to) == pc[u] = from /\ pc' = [pc EXCEPT ![u] = to]

\* What is left to show of the invariant when the owner moves.
LEMMA OwnerSteps ==
    ASSUME SoleController, WinInv, NEW u \in Users, Controls(u),
           NEW from, NEW to \in Control \cup Traffic, Step(u, from, to)
    PROVE  /\ pc' \in [Actors -> Control \cup Traffic \cup {"unborn", "done"}]
           /\ RoleInv'
           /\ \A k \in RxThreads : Alive(k)' <=> Alive(k)
           /\ pc'[u] = to
           /\ \A v \in Users : v # u => pc'[v] = pc[v] /\ pc[v] \notin Control
<1>1. pc \in [Actors -> Control \cup Traffic \cup {"unborn", "done"}] /\ RoleInv
  BY DEF WinInv, TypeInv
<1>2. pc' = [pc EXCEPT ![u] = to] /\ u \in Actors
  BY DEF Step, Actors
<1>3. pc' \in [Actors -> Control \cup Traffic \cup {"unborn", "done"}] /\ pc'[u] = to
  BY <1>1, <1>2
<1>4. \A v \in Users : v # u => pc'[v] = pc[v]
  BY <1>1, <1>2 DEF Actors
<1>5. \A v \in Users : v # u => pc[v] \notin Control
  BY <1>1, Alone
<1>6. RoleInv'
  BY <1>3, <1>4, <1>5 DEF RoleInv
<1>7. \A k \in RxThreads : pc'[k] = pc[k]
  BY <1>1, <1>2, WindowsCANAssumption DEF Actors
<1> QED
  BY <1>3, <1>4, <1>5, <1>6, <1>7 DEF Alive

LEMMA InitsKeep ==
    ASSUME SoleController, WinInv, NEW u \in Users, InitSimulation(u) \/ StartWinsock(u)
    PROVE  WinInv'
<1>1. TypeInv /\ RoleInv /\ ThreadInv /\ SocketInv
  BY DEF WinInv
<1>2. Controls(u) /\ pc[u] = "idle" /\ UNCHANGED <<sock, sockets, made, rx_thread, strayed>>
  BY DEF InitSimulation, StartWinsock, CallsInit, Controls
<1>3. reopened' = (reopened \/ is_open)
  BY DEF InitSimulation, StartWinsock, CallsInit
<1>4. \A v \in Users : pc[v] \notin Control
  BY <1>1, <1>2, Alone DEF Control
<1>5. ~reopened' => sock = NoSocket /\ sockets = {} /\ winsock = 0 /\ ~reopened /\ ~is_open
  <2>1. SUFFICES ASSUME ~reopened'
                 PROVE  sock = NoSocket /\ sockets = {} /\ winsock = 0 /\ ~reopened /\ ~is_open
    OBVIOUS
  <2>2. ~reopened /\ ~is_open
    BY <1>3, <2>1
  <2>3. sock = NoSocket
    BY <1>1, <1>4, <2>2 DEF SocketInv
  <2>4. winsock = 0 /\ sockets = {}
    BY <1>1, <1>4, <2>2, <2>3 DEF SocketInv, Control
  <2> QED
    BY <2>2, <2>3, <2>4
<1>6. strayed' => reopened'
  BY <1>1, <1>2, <1>3 DEF SocketInv
<1>7. reopened' \in BOOLEAN
  BY <1>1, <1>3 DEF TypeInv
<1>8. CASE InitSimulation(u)
  <2>1. UNCHANGED <<use_gateway, winsock, pc>> /\ is_open' = TRUE
    BY <1>8 DEF InitSimulation
  <2>2. TypeInv' /\ RoleInv' /\ ThreadInv'
    BY <1>1, <1>2, <1>7, <2>1 DEF TypeInv, RoleInv, ThreadInv, Alive
  <2>3. SocketInv'
    BY <1>1, <1>2, <1>4, <1>5, <1>6, <2>1 DEF SocketInv, Control
  <2> QED
    BY <2>2, <2>3 DEF WinInv
<1>9. CASE StartWinsock(u)
  <2>1. made < MaxInits /\ lastInit' = "gateway" /\ UNCHANGED <<is_open, use_gateway>>
    BY <1>9 DEF StartWinsock, CallsInit
  <2>2. CASE UNCHANGED <<pc, winsock>>
    <3>1. TypeInv' /\ RoleInv' /\ ThreadInv'
      BY <1>1, <1>2, <1>7, <2>1, <2>2 DEF TypeInv, RoleInv, ThreadInv, Alive
    <3>2. SocketInv'
      BY <1>1, <1>2, <1>4, <1>5, <1>6, <2>1, <2>2 DEF SocketInv, Control
    <3> QED
      BY <3>1, <3>2 DEF WinInv
  <2>3. CASE Step(u, "idle", "socket") /\ winsock' = winsock + 1
    <3>1. /\ pc' \in [Actors -> Control \cup Traffic \cup {"unborn", "done"}]
          /\ RoleInv'
          /\ \A k \in RxThreads : Alive(k)' <=> Alive(k)
          /\ pc'[u] = "socket"
          /\ \A v \in Users : v # u => pc'[v] = pc[v] /\ pc[v] \notin Control
      BY <1>2, <2>3, OwnerSteps DEF Control
    <3>2. TypeInv'
      BY <1>1, <1>2, <1>7, <2>1, <2>3, <3>1 DEF TypeInv
    <3>3. ThreadInv'
      BY <1>1, <1>2, <2>1, <3>1 DEF ThreadInv, Control
    <3>4. SocketInv'
      BY <1>2, <1>4, <1>5, <1>6, <2>1, <2>3, <3>1 DEF SocketInv, Control
    <3> QED
      BY <3>1, <3>2, <3>3, <3>4 DEF WinInv
  <2> QED
    BY <1>9, <2>2, <2>3 DEF StartWinsock, Step
<1> QED
  BY <1>8, <1>9

\* A step of the owner inside init or close.
LEMMA OwnerKeeps ==
    ASSUME SoleController, WinInv, NEW u \in Users,
           \/ CallClose(u) \/ CreateSocket(u) \/ MarkGateway(u) \/ LowerStop(u) \/ Join(u)
           \/ Shut(u) \/ MarkClosed(u)
    PROVE  WinInv'
<1>1. TypeInv /\ RoleInv /\ ThreadInv /\ SocketInv
  BY DEF WinInv
<1>2. UNCHANGED <<lastInit, reopened, strayed>>
  BY DEF CallClose, CreateSocket, MarkGateway, LowerStop, Join, Shut, MarkClosed
<1>3. Controls(u)
  <2>1. CallClose(u) => Controls(u)
    BY DEF CallClose, Controls
  <2>2. ~CallClose(u) => pc[u] \in Control
    BY DEF CreateSocket, MarkGateway, LowerStop, Join, Shut, MarkClosed, Control
  <2> QED
    BY <1>1, <2>1, <2>2 DEF RoleInv
<1>4. \A v \in Users : v # u => pc[v] \notin Control
  BY <1>1, <1>3, Alone
\* What OwnerSteps says of the step.
<1> DEFINE Moved(to) ==
      /\ pc' \in [Actors -> Control \cup Traffic \cup {"unborn", "done"}]
      /\ RoleInv'
      /\ \A k \in RxThreads : Alive(k)' <=> Alive(k)
      /\ pc'[u] = to
      /\ \A v \in Users : v # u => pc'[v] = pc[v] /\ pc[v] \notin Control
<1>5. ASSUME NEW from, NEW to \in Control \cup Traffic, Step(u, from, to) PROVE Moved(to)
  BY <1>3, <1>5, OwnerSteps
<1>6. "idle" \in Traffic /\ Control \subseteq Control \cup Traffic
  BY DEF Traffic, Outside
<1>7. CASE CallClose(u)
  <2>1. /\ Step(u, "idle", "join")
        /\ UNCHANGED <<is_open, use_gateway, sock, sockets, made, winsock, rx_thread>>
    BY <1>7 DEF CallClose, Step
  <2>2. Moved("join")
    BY <1>5, <2>1 DEF Control
  <2>3. TypeInv' /\ ThreadInv'
    BY <1>1, <1>2, <2>1, <2>2 DEF TypeInv, ThreadInv
  <2>4. SocketInv'
    BY <1>1, <1>2, <2>1, <2>2 DEF SocketInv, Step, Control
  <2> QED
    BY <2>2, <2>3, <2>4 DEF WinInv
<1>8. CASE CreateSocket(u)
  <2>1. UNCHANGED <<is_open, use_gateway, rx_thread>>
    BY <1>8 DEF CreateSocket
  <2>2. pc[u] = "socket" /\ made < MaxInits
    BY <1>1, <1>8 DEF CreateSocket, ThreadInv
  <2>3. ~reopened => sock = NoSocket /\ sockets = {} /\ winsock = 1 /\ lastInit = "gateway"
    BY <1>1, <2>2 DEF SocketInv
  <2>4. CASE /\ Step(u, "socket", "mark") /\ made' = made + 1 /\ sock' = made + 1
             /\ sockets' = sockets \cup {made + 1} /\ winsock' = winsock
    <3>1. Moved("mark")
      BY <1>5, <2>4 DEF Control
    <3>2. made + 1 \in 0 .. MaxInits /\ made + 1 # NoSocket /\ made + 1 > 0
      BY <1>1, <2>2, WindowsCANAssumption DEF TypeInv, NoSocket
    <3>3. TypeInv'
      BY <1>1, <1>2, <2>1, <2>4, <3>1, <3>2 DEF TypeInv
    <3>4. ThreadInv'
      BY <1>1, <2>1, <2>4, <3>1, <3>2 DEF ThreadInv, Control
    <3>5. SocketInv'
      BY <1>1, <1>2, <2>1, <2>3, <2>4, <3>1, <3>2 DEF SocketInv, Control
    <3> QED
      BY <3>1, <3>3, <3>4, <3>5 DEF WinInv
  <2>5. CASE /\ Step(u, "socket", "idle") /\ sock' = NoSocket /\ winsock' = winsock - 1
             /\ UNCHANGED <<made, sockets>>
    <3>1. Moved("idle")
      BY <1>5, <1>6, <2>5
    <3>2. TypeInv'
      BY <1>1, <1>2, <2>1, <2>5, <3>1 DEF TypeInv, NoSocket
    <3>3. ThreadInv'
      BY <1>1, <2>1, <2>5, <3>1 DEF ThreadInv, Control
    <3>4. SocketInv'
      BY <1>1, <1>2, <2>1, <2>3, <2>5, <3>1 DEF SocketInv, Control
    <3> QED
      BY <3>1, <3>2, <3>3, <3>4 DEF WinInv
  <2> QED
    BY <1>8, <2>4, <2>5 DEF CreateSocket, Step
<1>9. CASE MarkGateway(u)
  <2>1. /\ Step(u, "mark", "start") /\ use_gateway' = TRUE /\ is_open' = TRUE
        /\ UNCHANGED <<sock, sockets, made, winsock, rx_thread>>
    BY <1>9 DEF MarkGateway, Step
  <2>2. Moved("start")
    BY <1>5, <2>1 DEF Control
  <2>3. made > 0
    BY <1>1, <2>1 DEF ThreadInv, Step
  <2>4. TypeInv' /\ ThreadInv'
    BY <1>1, <1>2, <2>1, <2>2, <2>3 DEF TypeInv, ThreadInv, Control
  <2>5. SocketInv'
    BY <1>1, <1>2, <2>1, <2>2 DEF SocketInv, Step, Control
  <2> QED
    BY <2>2, <2>4, <2>5 DEF WinInv
<1>10. CASE LowerStop(u)
  <2>1. /\ Step(u, "start", "launch")
        /\ UNCHANGED <<is_open, use_gateway, sock, sockets, made, winsock, rx_thread>>
    BY <1>10 DEF LowerStop, Step
  <2>2. Moved("launch")
    BY <1>5, <2>1 DEF Control
  <2>3. made > 0 /\ is_open
    BY <1>1, <2>1 DEF ThreadInv, Step
  <2>4. TypeInv' /\ ThreadInv'
    BY <1>1, <1>2, <2>1, <2>2, <2>3 DEF TypeInv, ThreadInv, Control
  <2>5. SocketInv'
    BY <1>1, <1>2, <2>1, <2>2 DEF SocketInv, Step, Control
  <2> QED
    BY <2>2, <2>4, <2>5 DEF WinInv
<1>11. CASE Join(u)
  <2>1. /\ Step(u, "join", "shut") /\ rx_thread' = NoThread
        /\ UNCHANGED <<is_open, use_gateway, sock, sockets, made, winsock>>
    BY <1>11 DEF Join, Step
  <2>2. Moved("shut")
    BY <1>5, <2>1 DEF Control
  <2>3. \A k \in RxThreads : ~Alive(k)
    <3>1. rx_thread # NoThread => pc[rx_thread] = "done"
      BY <1>11 DEF Join
    <3> QED
      BY <1>1, <3>1, NobodyAlive DEF ThreadInv, Alive
  <2>4. TypeInv' /\ ThreadInv'
    BY <1>1, <1>2, <2>1, <2>2, <2>3 DEF TypeInv, ThreadInv, Control
  <2>5. SocketInv'
    BY <1>1, <1>2, <2>1, <2>2 DEF SocketInv, Step, Control
  <2> QED
    BY <2>2, <2>4, <2>5 DEF WinInv
<1>12. CASE Shut(u)
  <2>1. /\ Step(u, "shut", "closed")
        /\ UNCHANGED <<is_open, use_gateway, made, rx_thread>>
    BY <1>12 DEF Shut, Step
  <2>2. Moved("closed")
    BY <1>5, <2>1 DEF Control
  <2>3. rx_thread = NoThread
    BY <1>1, <2>1 DEF ThreadInv, Step
  <2>4. ThreadInv'
    BY <1>1, <2>1, <2>2, <2>3 DEF ThreadInv, Control
  <2>5. \A v \in Users : pc[v] \notin {"mark", "socket"}
    BY <1>4, <2>1 DEF Step, Control
  <2>6. CASE use_gateway /\ sock # NoSocket
    <3>1. sockets' = sockets \ {sock} /\ sock' = NoSocket /\ winsock' = winsock - 1
      BY <1>12, <2>6 DEF Shut
    <3>2. TypeInv'
      BY <1>1, <1>2, <2>1, <2>2, <3>1 DEF TypeInv, NoSocket
    <3>3. ~reopened => sockets = {sock} /\ winsock = 1
      BY <1>1, <2>5, <2>6 DEF SocketInv
    <3>4. SocketInv'
      BY <1>1, <1>2, <2>1, <2>2, <3>1, <3>3 DEF SocketInv, Control
    <3> QED
      BY <2>2, <2>4, <3>2, <3>4 DEF WinInv
  <2>7. CASE ~(use_gateway /\ sock # NoSocket)
    <3>1. UNCHANGED <<sockets, sock, winsock>>
      BY <1>12, <2>7 DEF Shut
    <3>2. TypeInv'
      BY <1>1, <1>2, <2>1, <2>2, <3>1 DEF TypeInv
    <3>3. ~reopened => sock = NoSocket
      BY <1>1, <2>5, <2>7 DEF SocketInv
    <3>4. SocketInv'
      BY <1>1, <1>2, <2>1, <2>2, <2>5, <3>1, <3>3 DEF SocketInv, Control
    <3> QED
      BY <2>2, <2>4, <3>2, <3>4 DEF WinInv
  <2> QED
    BY <2>6, <2>7
<1>13. CASE MarkClosed(u)
  <2>1. /\ Step(u, "closed", "idle") /\ is_open' = FALSE
        /\ UNCHANGED <<use_gateway, sock, sockets, made, winsock, rx_thread>>
    BY <1>13 DEF MarkClosed, Step
  <2>2. Moved("idle")
    BY <1>5, <1>6, <2>1
  <2>3. rx_thread = NoThread /\ (~reopened => sock = NoSocket)
    BY <1>1, <2>1 DEF ThreadInv, SocketInv, Step
  <2>4. TypeInv' /\ ThreadInv'
    BY <1>1, <1>2, <2>1, <2>2, <2>3 DEF TypeInv, ThreadInv, Control
  <2>5. SocketInv'
    BY <1>1, <1>2, <2>1, <2>2, <2>3 DEF SocketInv, Step, Control
  <2> QED
    BY <2>2, <2>4, <2>5 DEF WinInv
<1> QED
  BY <1>7, <1>8, <1>9, <1>10, <1>11, <1>12, <1>13

LEMMA LaunchKeeps ==
    ASSUME SoleController, WinInv, NEW u \in Users, Launch(u)
    PROVE  WinInv'
<1>1. TypeInv /\ RoleInv /\ ThreadInv /\ SocketInv
  BY DEF WinInv
<1>2. /\ pc[u] = "launch"
      /\ UNCHANGED <<is_open, use_gateway, sock, sockets, made, winsock, lastInit, reopened,
                     strayed>>
  BY DEF Launch
<1>3. CASE UNCHANGED <<rx_thread, pc>>
  <2>1. TypeInv' /\ RoleInv' /\ ThreadInv'
    BY <1>1, <1>2, <1>3 DEF TypeInv, RoleInv, ThreadInv, Alive
  <2>2. SocketInv'
    BY <1>1, <1>2, <1>3 DEF SocketInv
  <2> QED
    BY <2>1, <2>2 DEF WinInv
<1>4. CASE /\ rx_thread = NoThread /\ rx_thread' = made
           /\ pc' = [pc EXCEPT ![u] = "idle", ![made] = "while"]
  <2>1. made \in RxThreads /\ is_open
    BY <1>1, <1>2 DEF ThreadInv, TypeInv, RxThreads
  <2>2. \A v \in Users : v # made /\ v \in Actors
    <3>1. Users \cap RxThreads = {}
      BY WindowsCANAssumption
    <3> QED
      BY <2>1, <3>1 DEF Actors
  <2>3. /\ pc' \in [Actors -> Control \cup Traffic \cup {"unborn", "done"}]
        /\ pc'[u] = "idle"
        /\ \A v \in Actors : v \notin {u, made} => pc'[v] = pc[v]
    BY <1>1, <1>4, <2>1, <2>2 DEF TypeInv, Traffic, Outside, Actors
  <2>4. \A v \in Users : pc'[v] \notin Control
    <3>1. \A v \in Users : v # u => pc[v] \notin Control
      BY <1>1, <1>2, Alone DEF Control
    <3> QED
      BY <2>2, <2>3, <3>1 DEF Control
  <2>5. \A k \in RxThreads : Alive(k)' => k = made
    <3>1. \A k \in RxThreads : ~Alive(k)
      BY <1>1, <1>4, NobodyAlive
    <3>2. \A k \in RxThreads : k # made => pc'[k] = pc[k]
      BY <2>3, WindowsCANAssumption DEF Actors
    <3> QED
      BY <3>1, <3>2 DEF Alive
  <2>6. TypeInv'
    BY <1>1, <1>2, <1>4, <2>1, <2>3 DEF TypeInv
  <2>7. RoleInv'
    BY <2>4 DEF RoleInv
  <2>8. ThreadInv'
    BY <1>2, <1>4, <2>1, <2>4, <2>5 DEF ThreadInv, Control
  <2>9. \A v \in Users : pc[v] \notin {"socket", "mark", "closed"}
    BY <1>1, <1>2, Alone DEF Control
  <2>10. SocketInv'
    BY <1>1, <1>2, <2>1, <2>4, <2>9 DEF SocketInv, Control
  <2> QED
    BY <2>6, <2>7, <2>8, <2>10 DEF WinInv
<1> QED
  BY <1>3, <1>4 DEF Launch

-----------------------------------------------------------------------------
(* The theorems *)

(***************************************************************************)
(* The inductive invariant of the interface with one thread that opens and *)
(* closes it: the receive thread that runs is the one close joins, the     *)
(* socket is gateway_socket_, and Winsock is started for it.               *)
(***************************************************************************)
THEOREM WindowsInvariant ==
    ASSUME SoleController
    PROVE  Spec => []WinInv
<1>1. Init => WinInv
  <2> SUFFICES ASSUME Init PROVE WinInv
    OBVIOUS
  <2>1. /\ is_open = FALSE /\ use_gateway = FALSE /\ sock = NoSocket /\ sockets = {}
        /\ made = 0 /\ winsock = 0 /\ rx_thread = NoThread /\ reopened = FALSE /\ strayed = FALSE
    BY DEF Init
  <2>2. /\ pc \in [Actors -> Control \cup Traffic \cup {"unborn", "done"}]
        /\ \A u \in Users : pc[u] = "idle"
        /\ \A k \in RxThreads : pc[k] = "unborn"
    BY WindowsCANAssumption DEF Init, Actors, Traffic, Outside
  <2>3. made \in 0 .. MaxInits /\ sock \in 0 .. made /\ winsock \in Int
    BY <2>1, WindowsCANAssumption DEF NoSocket
  <2>4. TypeInv
    <3>1. is_open \in BOOLEAN /\ use_gateway \in BOOLEAN
      BY <2>1
    <3>2. reopened \in BOOLEAN /\ strayed \in BOOLEAN
      BY <2>1
    <3>3. rx_thread \in RxThreads \cup {NoThread}
      BY <2>1
    <3> QED
      BY <2>2, <2>3, <3>1, <3>2, <3>3 DEF TypeInv
  <2>5. RoleInv /\ ThreadInv /\ SocketInv
    BY <2>1, <2>2 DEF RoleInv, ThreadInv, SocketInv, Control, Alive
  <2> QED
    BY <2>4, <2>5 DEF WinInv
<1>2. WinInv /\ [Next]_vars => WinInv'
  <2> SUFFICES ASSUME WinInv, [Next]_vars PROVE WinInv'
    OBVIOUS
  <2>1. ASSUME NEW u \in Users,
               \/ RegisterCallback(u) \/ Receive(u) \/ CheckOpen(u) \/ ChooseMode(u)
               \/ CountMessage(u) \/ TestCount(u) \/ Deliver(u)
        PROVE  WinInv'
    BY <2>1, UserPasses, PassingKeeps DEF Actors
  <2>2. ASSUME NEW u \in Users, InitSimulation(u) \/ StartWinsock(u) PROVE WinInv'
    BY <2>2, InitsKeep
  <2>3. ASSUME NEW u \in Users,
               \/ CallClose(u) \/ CreateSocket(u) \/ MarkGateway(u) \/ LowerStop(u) \/ Join(u)
               \/ Shut(u) \/ MarkClosed(u)
        PROVE  WinInv'
    BY <2>3, OwnerKeeps
  <2>4. ASSUME NEW u \in Users, Launch(u) \/ SendTo(u) PROVE WinInv'
    BY <2>4, LaunchKeeps, SendingKeeps
  <2>5. ASSUME NEW k \in RxThreads, ReceiveStep(k) PROVE WinInv'
    BY <2>5, ReceivePasses, PassingKeeps DEF Actors
  <2>6. CASE UNCHANGED vars
    <3>1. TypeInv' /\ RoleInv' /\ ThreadInv'
      BY <2>6 DEF vars, WinInv, TypeInv, RoleInv, ThreadInv, Alive
    <3>2. SocketInv'
      BY <2>6 DEF vars, WinInv, SocketInv
    <3> QED
      BY <3>1, <3>2 DEF WinInv
  <2> QED
    BY <2>1, <2>2, <2>3, <2>4, <2>5, <2>6 DEF Next, UserStep
<1> QED
  BY <1>1, <1>2, PTL DEF Spec

(***************************************************************************)
(* Between inits and closes the process has the interface's socket and no  *)
(* other, Winsock started once for it and not at all without it, and a     *)
(* receive thread only while the interface is open: for any number of      *)
(* inits, of failed ones, and of other threads that send and receive.      *)
(***************************************************************************)
THEOREM NothingIsLeaked ==
    ASSUME SoleController
    PROVE  Spec => []NothingLeaked
<1>1. WinInv => NothingLeaked
  <2> SUFFICES ASSUME WinInv, ~reopened, Settled
               PROVE  /\ sockets = {sock} \ {NoSocket}
                      /\ winsock = Cardinality(sockets)
                      /\ ~is_open => sockets = {}
                      /\ \A k \in RxThreads : Alive(k) => is_open /\ rx_thread = k
    BY DEF NothingLeaked
  <2>1. \A u \in Users : pc[u] \notin Control
    BY DEF Settled, Outside, Control
  <2>2. /\ sockets = {sock} \ {NoSocket}
        /\ winsock = IF sock = NoSocket THEN 0 ELSE 1
        /\ ~is_open => sock = NoSocket
    BY <2>1 DEF WinInv, SocketInv, Control
  <2>3. winsock = Cardinality(sockets)
    <3>1. CASE sock = NoSocket
      <4>1. sockets = {}
        BY <2>2, <3>1
      <4> QED
        BY <2>2, <3>1, <4>1, FS_EmptySet
    <3>2. CASE sock # NoSocket
      <4>1. sockets = {sock}
        BY <2>2, <3>2
      <4> QED
        BY <2>2, <3>2, <4>1, FS_Singleton
    <3> QED
      BY <3>1, <3>2
  <2>4. \A k \in RxThreads : Alive(k) => is_open /\ rx_thread = k
    <3>1. \A k \in RxThreads : k # NoThread
      BY WindowsCANAssumption DEF Actors
    <3> QED
      BY <3>1 DEF WinInv, ThreadInv
  <2> QED
    BY <2>2, <2>3, <2>4
<1> QED
  BY <1>1, WindowsInvariant, PTL

(***************************************************************************)
(* After an init for simulation no message leaves for the gateway, however *)
(* long a thread waits between looking at the mode and calling sendto.     *)
(***************************************************************************)
THEOREM SimulationIsLocal ==
    ASSUME SoleController
    PROVE  Spec => []SimulationStaysHome
<1>1. WinInv => SimulationStaysHome
  BY DEF WinInv, SocketInv, SimulationStaysHome
<1> QED
  BY <1>1, WindowsInvariant, PTL
-----------------------------------------------------------------------------
(* The queue and the callback *)

\* Threads whose frame is still to go through the callback block, or to be queued.
AwaitCall == {a \in Actors : pc[a] = "lock" \/ (a \in Users /\ pc[a] = "push")}

AwaitQueue == {a \in Actors : pc[a] = "push" \/ (a \in RxThreads /\ pc[a] \in {"lock", "call"})}

\* Of the frames 1 .. n those in s have arrived, each once, and those that fr
\* gives the threads in W have not.
Arrived(s, W, fr, n) ==
    /\ s \in Seq(1 .. n)
    /\ \A i, j \in 1 .. Len(s) : s[i] = s[j] => i = j
    /\ \A a \in W : fr[a] \in 1 .. n
    /\ \A a, b \in W : fr[a] = fr[b] => a = b
    /\ \A a \in W, i \in 1 .. Len(s) : s[i] # fr[a]
    /\ \A k \in 1 .. n : (\E i \in 1 .. Len(s) : s[i] = k) \/ (\E a \in W : fr[a] = k)

Queued == taken \o rx_queue

FrameInv ==
    /\ frames \in Nat
    /\ frame \in [Actors -> Nat]
    /\ taken \in Seq(Nat) /\ rx_queue \in Seq(Nat)
    /\ Arrived(seen, AwaitCall, frame, frames)
    /\ Arrived(Queued, AwaitQueue, frame, frames)

\* The first n numbers in order
InOrder(s, n) ==
    /\ Len(s) = n
    /\ \A i \in 1 .. Len(s) : s[i] = i

\* The places of a thread with a frame.
Carrying == {"push", "lock", "call"}

Unseen == \E k \in RxThreads : pc[k] = "lock"

Unqueued == \E k \in RxThreads : pc[k] \in Carrying

\* Until the interface simulates, only the receive thread delivers.
OrderInv ==
    ~simulation_mode =>
        /\ \A u \in Users : pc[u] \notin {"count", "test", "push", "lock", "call"}
        /\ \A k \in RxThreads : pc[k] \in Carrying => frame[k] = frames
        /\ InOrder(seen, IF Unseen THEN frames - 1 ELSE frames)
        /\ InOrder(Queued, IF Unqueued THEN frames - 1 ELSE frames)

LEMMA FrameBegins ==
    ASSUME NEW n \in Nat, NEW fr \in [Actors -> Nat], NEW W \in SUBSET Actors, NEW s,
           Arrived(s, W, fr, n), NEW a \in Actors, a \notin W
    PROVE  Arrived(s, W \cup {a}, [fr EXCEPT ![a] = n + 1], n + 1)
<1> DEFINE f == [fr EXCEPT ![a] = n + 1]
           V == W \cup {a}
<1>1. /\ s \in Seq(1 .. n)
      /\ \A i, j \in 1 .. Len(s) : s[i] = s[j] => i = j
      /\ \A b \in W : fr[b] \in 1 .. n
      /\ \A b, c \in W : fr[b] = fr[c] => b = c
      /\ \A b \in W, i \in 1 .. Len(s) : s[i] # fr[b]
      /\ \A k \in 1 .. n : (\E i \in 1 .. Len(s) : s[i] = k) \/ (\E b \in W : fr[b] = k)
  BY DEF Arrived
<1>2. f[a] = n + 1 /\ \A b \in W : f[b] = fr[b]
  OBVIOUS
<1>3. s \in Seq(1 .. n + 1) /\ \A i \in 1 .. Len(s) : s[i] \in 1 .. n
  <2>1. \A i \in 1 .. Len(s) : s[i] \in 1 .. n
    BY <1>1
  <2>2. 1 .. n \subseteq 1 .. n + 1
    OBVIOUS
  <2> QED
    BY <1>1, <2>1, <2>2
<1>4. \A b \in V : f[b] \in 1 .. n + 1
  BY <1>1, <1>2
<1>5. \A b, c \in V : f[b] = f[c] => b = c
  BY <1>1, <1>2
<1>6. \A b \in V, i \in 1 .. Len(s) : s[i] # f[b]
  BY <1>1, <1>2, <1>3
<1>7. \A k \in 1 .. n + 1 : (\E i \in 1 .. Len(s) : s[i] = k) \/ (\E b \in V : f[b] = k)
  <2> TAKE k \in 1 .. n + 1
  <2>1. CASE k = n + 1
    BY <1>2, <2>1
  <2>2. CASE k \in 1 .. n
    BY <1>1, <1>2, <2>2
  <2> QED
    BY <2>1, <2>2
<1> QED
  BY <1>1, <1>3, <1>4, <1>5, <1>6, <1>7 DEF Arrived

LEMMA FrameArrives ==
    ASSUME NEW n \in Nat, NEW fr, NEW W, NEW s, Arrived(s, W, fr, n), NEW a \in W
    PROVE  Arrived(Append(s, fr[a]), W \ {a}, fr, n)
<1> DEFINE t == Append(s, fr[a])
           V == W \ {a}
<1>1. /\ s \in Seq(1 .. n)
      /\ \A i, j \in 1 .. Len(s) : s[i] = s[j] => i = j
      /\ \A b \in W : fr[b] \in 1 .. n
      /\ \A b, c \in W : fr[b] = fr[c] => b = c
      /\ \A b \in W, i \in 1 .. Len(s) : s[i] # fr[b]
      /\ \A k \in 1 .. n : (\E i \in 1 .. Len(s) : s[i] = k) \/ (\E b \in W : fr[b] = k)
  BY DEF Arrived
<1>2. /\ Len(s) \in Nat
      /\ t \in Seq(1 .. n) /\ Len(t) = Len(s) + 1
      /\ t[Len(s) + 1] = fr[a] /\ \A i \in 1 .. Len(s) : t[i] = s[i]
  BY <1>1
<1> HIDE DEF t
<1>3. \A i \in 1 .. Len(t) : i = Len(s) + 1 \/ i \in 1 .. Len(s)
  BY <1>2
<1>4. \A i, j \in 1 .. Len(t) : t[i] = t[j] => i = j
  <2> TAKE i, j \in 1 .. Len(t)
  <2>0. \A k \in 1 .. Len(s) : t[k] # fr[a]
    BY <1>1, <1>2
  <2>1. CASE i = Len(s) + 1 /\ j # i
    BY <1>2, <1>3, <2>0, <2>1
  <2>2. CASE j = Len(s) + 1 /\ j # i
    BY <1>2, <1>3, <2>0, <2>2
  <2>3. CASE i \in 1 .. Len(s) /\ j \in 1 .. Len(s)
    BY <1>1, <1>2, <2>3
  <2> QED
    BY <1>3, <2>1, <2>2, <2>3
<1>5. \A b \in V, i \in 1 .. Len(t) : t[i] # fr[b]
  BY <1>1, <1>2, <1>3
<1>6. \A k \in 1 .. n : (\E i \in 1 .. Len(t) : t[i] = k) \/ (\E b \in V : fr[b] = k)
  <2> TAKE k \in 1 .. n
  <2>1. CASE \E i \in 1 .. Len(s) : s[i] = k
    BY <1>2, <2>1
  <2>2. ASSUME NEW b \in W, fr[b] = k
        PROVE  (\E i \in 1 .. Len(t) : t[i] = k) \/ (\E c \in V : fr[c] = k)
    BY <1>2, <2>2
  <2> QED
    BY <1>1, <2>1, <2>2
<1>7. /\ \A b \in V : fr[b] \in 1 .. n
      /\ \A b, c \in V : fr[b] = fr[c] => b = c
  BY <1>1
<1>8. Arrived(t, V, fr, n)
  BY <1>2, <1>4, <1>5, <1>6, <1>7 DEF Arrived
<1> QED
  BY <1>8 DEF t

LEMMA AllArrived ==
    ASSUME NEW n \in Nat, NEW fr, NEW s, Arrived(s, {}, fr, n)
    PROVE  Len(s) = n /\ ToSet(s) = 1 .. n
<1>1. /\ s \in Seq(1 .. n)
      /\ \A i, j \in 1 .. Len(s) : s[i] = s[j] => i = j
      /\ \A k \in 1 .. n : \E i \in 1 .. Len(s) : s[i] = k
  BY DEF Arrived
<1>2. Len(s) \in Nat /\ DOMAIN s = 1 .. Len(s) /\ s \in [1 .. Len(s) -> 1 .. n]
  <2>1. s \in Seq(1 .. n)
    BY <1>1
  <2> QED
    BY <2>1, LenProperties
<1>3. ToSet(s) = 1 .. n
  <2>1. \A i \in DOMAIN s : s[i] \in 1 .. n
    BY <1>2
  <2>2. \A k \in 1 .. n : \E i \in DOMAIN s : s[i] = k
    BY <1>1, <1>2
  <2>3. \A k : k \in {s[i] : i \in DOMAIN s} <=> k \in 1 .. n
    BY <2>1, <2>2, Zenon
  <2>4. {s[i] : i \in DOMAIN s} = 1 .. n
    BY <2>3, Zenon
  <2> QED
    BY <2>4 DEF ToSet
<1>4. s \in Surjection(1 .. Len(s), 1 .. n) /\ s \in Injection(1 .. Len(s), 1 .. n)
  BY <1>1, <1>2 DEF Surjection, Injection, IsInjective
<1>5. /\ IsFiniteSet(1 .. Len(s)) /\ Cardinality(1 .. Len(s)) = Len(s)
      /\ IsFiniteSet(1 .. n) /\ Cardinality(1 .. n) = n
  <2>1. \A k \in Nat : IsFiniteSet(1 .. k) /\ Cardinality(1 .. k) = k
    BY FS_Interval
  <2> QED
    BY <1>2, <2>1
<1>6. Cardinality(1 .. n) = Cardinality(1 .. Len(s))
  BY <1>4, <1>5, FS_Surjection
<1> QED
  BY <1>3, <1>5, <1>6

LEMMA AwaitTypes == AwaitCall \in SUBSET Actors /\ AwaitQueue \in SUBSET Actors
BY DEF AwaitCall, AwaitQueue

\* What becomes of the two sets when thread a goes to p.
LEMMA Awaits ==
    ASSUME pc \in [Actors -> Control \cup Traffic \cup {"unborn", "done"}],
           NEW a \in Actors, NEW p, pc' = [pc EXCEPT ![a] = p]
    PROVE  /\ \A b \in Actors : b # a => (b \in AwaitCall' <=> b \in AwaitCall)
           /\ \A b \in Actors : b # a => (b \in AwaitQueue' <=> b \in AwaitQueue)
           /\ a \in AwaitCall' <=> p = "lock" \/ (a \in Users /\ p = "push")
           /\ a \in AwaitQueue' <=>
                p = "push" \/ (a \in RxThreads /\ p \in {"lock", "call"})
<1>1. pc'[a] = p /\ \A b \in Actors : b # a => pc'[b] = pc[b]
  OBVIOUS
<1> QED
  BY <1>1 DEF AwaitCall, AwaitQueue

\* A step that brings no frame and moves none.
LEMMA FramesStay ==
    ASSUME FrameInv, UNCHANGED <<frame, frames, seen, taken, rx_queue>>,
           \A b \in Actors : b \in AwaitCall' <=> b \in AwaitCall,
           \A b \in Actors : b \in AwaitQueue' <=> b \in AwaitQueue
    PROVE  FrameInv'
<1>1. AwaitCall' = AwaitCall
  BY DEF AwaitCall
<1>2. AwaitQueue' = AwaitQueue
  BY DEF AwaitQueue
<1>3. Queued' = Queued
  BY DEF Queued
<1> QED
  BY <1>1, <1>2, <1>3 DEF FrameInv

\* A frame comes: an answer of the simulation, or a datagram.
LEMMA FrameComes ==
    ASSUME TypeInv, FrameInv, NEW a \in Actors, pc[a] \in {"test", "recvfrom"},
           NEW p, pc' = [pc EXCEPT ![a] = p], p = IF a \in Users THEN "push" ELSE "lock",
           frames' = frames + 1, frame' = [frame EXCEPT ![a] = frames + 1],
           UNCHANGED <<seen, taken, rx_queue>>
    PROVE  FrameInv'
<1>1. a \notin AwaitCall /\ a \notin AwaitQueue
  BY DEF AwaitCall, AwaitQueue
<1>2. pc \in [Actors -> Control \cup Traffic \cup {"unborn", "done"}]
  BY DEF TypeInv
<1>3. a \in AwaitCall' /\ a \in AwaitQueue'
  BY <1>2, Awaits DEF Actors
<1>4. AwaitCall' = AwaitCall \cup {a}
  BY <1>2, <1>3, Awaits, AwaitTypes DEF AwaitCall
<1>5. AwaitQueue' = AwaitQueue \cup {a}
  BY <1>2, <1>3, Awaits, AwaitTypes DEF AwaitQueue
<1>6. frames \in Nat /\ frame \in [Actors -> Nat] /\ taken \in Seq(Nat) /\ rx_queue \in Seq(Nat)
  BY DEF FrameInv
<1>7. Arrived(seen, AwaitCall, frame, frames) /\ Arrived(Queued, AwaitQueue, frame, frames)
  BY DEF FrameInv
<1>8. Arrived(seen', AwaitCall', frame', frames')
  BY <1>1, <1>4, <1>6, <1>7, AwaitTypes, FrameBegins
<1>9. Arrived(Queued, AwaitQueue', frame', frames')
  BY <1>1, <1>5, <1>6, <1>7, AwaitTypes, FrameBegins
<1>10. Queued' = Queued
  BY DEF Queued
<1>11. frames' \in Nat /\ frame' \in [Actors -> Nat]
  BY <1>6
<1> QED
  BY <1>6, <1>8, <1>9, <1>10, <1>11 DEF FrameInv

LEMMA FrameSeen ==
    ASSUME TypeInv, FrameInv, NEW a \in Actors, LockAndCall(a)
    PROVE  FrameInv'
<1>1. pc \in [Actors -> Control \cup Traffic \cup {"unborn", "done"}]
  BY DEF TypeInv
<1>2. PICK p \in {"call", AfterCallback(a)} : pc' = [pc EXCEPT ![a] = p]
  BY DEF LockAndCall
<1>3. /\ pc[a] = "lock" /\ seen' = Append(seen, frame[a])
      /\ UNCHANGED <<frame, frames, taken, rx_queue>>
  BY DEF LockAndCall
<1>4. a \in AwaitCall /\ (a \in AwaitQueue <=> a \in RxThreads)
  BY <1>3 DEF AwaitCall, AwaitQueue
<1>5. a \notin AwaitCall'
  BY <1>1, <1>2, Awaits DEF AfterCallback
<1>6. a \in AwaitQueue' <=> a \in RxThreads
  BY <1>1, <1>2, Awaits, WindowsCANAssumption DEF AfterCallback, Actors
<1>7. AwaitCall' = AwaitCall \ {a}
  BY <1>1, <1>2, <1>5, Awaits, AwaitTypes DEF AwaitCall
<1>8. AwaitQueue' = AwaitQueue
  BY <1>1, <1>2, <1>4, <1>6, Awaits DEF AwaitQueue
<1>9. Arrived(seen', AwaitCall', frame', frames')
  BY <1>3, <1>4, <1>7, FrameArrives DEF FrameInv
<1>10. Queued' = Queued
  BY <1>3 DEF Queued
<1> QED
  BY <1>3, <1>8, <1>9, <1>10 DEF FrameInv

LEMMA FrameQueued ==
    ASSUME TypeInv, FrameInv, NEW a \in Actors, Push(a)
    PROVE  FrameInv' /\ Queued' = Append(Queued, frame[a])
<1>1. pc \in [Actors -> Control \cup Traffic \cup {"unborn", "done"}]
  BY DEF TypeInv
<1>2. /\ pc[a] = "push" /\ pc' = [pc EXCEPT ![a] = IF a \in Users THEN "lock" ELSE "while"]
      /\ rx_queue' = Append(rx_queue, frame[a])
      /\ UNCHANGED <<frame, frames, taken, seen>>
  BY DEF Push
<1>3. a \in AwaitQueue /\ (a \in AwaitCall <=> a \in Users)
  BY <1>2 DEF AwaitCall, AwaitQueue
<1>0. PICK p : p = (IF a \in Users THEN "lock" ELSE "while") /\ pc' = [pc EXCEPT ![a] = p]
  BY <1>2
<1>12. /\ a \in AwaitCall' <=> p = "lock" \/ (a \in Users /\ p = "push")
       /\ a \in AwaitQueue' <=>
            p = "push" \/ (a \in RxThreads /\ p \in {"lock", "call"})
  <2>1. pc' = [pc EXCEPT ![a] = p]
    BY <1>0
  <2> QED
    BY <1>1, <2>1, Awaits
<1>4. a \notin AwaitQueue'
  BY <1>0, <1>12, WindowsCANAssumption
<1>5. a \in AwaitCall' <=> a \in Users
  BY <1>0, <1>12
<1>6. AwaitQueue' = AwaitQueue \ {a}
  BY <1>0, <1>1, <1>4, Awaits, AwaitTypes DEF AwaitQueue
<1>7. AwaitCall' = AwaitCall
  BY <1>0, <1>1, <1>3, <1>5, Awaits DEF AwaitCall
<1>8. taken \in Seq(Nat) /\ rx_queue \in Seq(Nat) /\ frame[a] \in Nat
  BY DEF FrameInv
<1>9. Queued' = Append(Queued, frame[a])
  <2>1. taken \o Append(rx_queue, frame[a]) = Append(taken \o rx_queue, frame[a])
    BY <1>8
  <2> QED
    BY <1>2, <2>1 DEF Queued
<1>10. Arrived(Queued', AwaitQueue', frame', frames')
  BY <1>2, <1>3, <1>6, <1>9, FrameArrives DEF FrameInv
<1>11. rx_queue' \in Seq(Nat)
  BY <1>2, <1>8
<1> QED
  BY <1>2, <1>7, <1>9, <1>10, <1>11 DEF FrameInv

LEMMA FrameTaken ==
    ASSUME FrameInv, NEW u \in Users, Receive(u)
    PROVE  FrameInv' /\ Queued' = Queued
<1>1. /\ rx_queue # << >> /\ rx_queue' = Tail(rx_queue)
      /\ taken' = Append(taken, Head(rx_queue))
      /\ UNCHANGED <<pc, frame, frames, seen>>
  BY DEF Receive
<1>2. taken \in Seq(Nat) /\ rx_queue \in Seq(Nat)
  BY DEF FrameInv
<1>3. rx_queue' \in Seq(Nat) /\ taken' \in Seq(Nat)
  BY <1>1, <1>2
<1>4. Append(taken, Head(rx_queue)) \o Tail(rx_queue) = taken \o rx_queue
  BY <1>1, <1>2
<1>5. Queued' = Queued
  BY <1>1, <1>4 DEF Queued
<1>6. AwaitCall' = AwaitCall /\ AwaitQueue' = AwaitQueue
  BY <1>1 DEF AwaitCall, AwaitQueue
<1> QED
  BY <1>1, <1>3, <1>5, <1>6 DEF FrameInv

\* A step of a thread without a frame.
Unladen(a) ==
    /\ UNCHANGED <<frame, frames, seen, taken, rx_queue>>
    /\ \/ pc' = pc
       \/ /\ pc[a] \notin Carrying
          /\ \E p : p \notin Carrying /\ pc' = [pc EXCEPT ![a] = p]

LEMMA UnladenFrames ==
    ASSUME TypeInv, FrameInv, NEW a \in Actors, Unladen(a)
    PROVE  FrameInv'
<1>1. UNCHANGED <<frame, frames, seen, taken, rx_queue>>
  BY DEF Unladen
<1>2. pc \in [Actors -> Control \cup Traffic \cup {"unborn", "done"}]
  BY DEF TypeInv
<1>3. CASE pc' = pc
  BY <1>1, <1>3, FramesStay DEF AwaitCall, AwaitQueue
<1>4. CASE pc' # pc
  <2>1. PICK p : p \notin Carrying /\ pc' = [pc EXCEPT ![a] = p]
    BY <1>4 DEF Unladen
  <2>2. a \notin AwaitCall /\ a \notin AwaitQueue
    BY <1>4 DEF Unladen, Carrying, AwaitCall, AwaitQueue
  <2>3. a \notin AwaitCall' /\ a \notin AwaitQueue'
    BY <1>2, <2>1, Awaits DEF Carrying
  <2> QED
    BY <1>1, <1>2, <2>1, <2>2, <2>3, Awaits, FramesStay
<1> QED
  BY <1>3, <1>4

LEMMA CallbackKeepsFrames ==
    ASSUME TypeInv, FrameInv, NEW a \in Actors, CallbackReturns(a)
    PROVE  FrameInv'
<1>1. UNCHANGED <<frame, frames, seen, taken, rx_queue>>
  BY DEF CallbackReturns
<1>2. pc \in [Actors -> Control \cup Traffic \cup {"unborn", "done"}]
  BY DEF TypeInv
<1>3. PICK p : p = AfterCallback(a) /\ pc[a] = "call" /\ pc' = [pc EXCEPT ![a] = p]
  BY DEF CallbackReturns
<1>4. a \notin AwaitCall /\ (a \in AwaitQueue <=> a \in RxThreads)
  BY <1>3 DEF AwaitCall, AwaitQueue
<1>5. /\ a \in AwaitCall' <=> p = "lock" \/ (a \in Users /\ p = "push")
      /\ a \in AwaitQueue' <=>
           p = "push" \/ (a \in RxThreads /\ p \in {"lock", "call"})
  <2>1. pc' = [pc EXCEPT ![a] = p]
    BY <1>3
  <2> QED
    BY <1>2, <2>1, Awaits
<1>6. a \notin AwaitCall' /\ (a \in AwaitQueue' <=> a \in RxThreads)
  BY <1>3, <1>5, WindowsCANAssumption DEF AfterCallback, Actors
<1> QED
  BY <1>1, <1>2, <1>3, <1>4, <1>6, Awaits, FramesStay

\* Opening and closing, and the first half of a send.
LEMMA UserUnladen ==
    ASSUME NEW u \in Users,
           \/ InitSimulation(u) \/ StartWinsock(u) \/ CreateSocket(u) \/ MarkGateway(u)
           \/ LowerStop(u) \/ CallClose(u) \/ Join(u) \/ Shut(u) \/ MarkClosed(u)
           \/ RegisterCallback(u) \/ CheckOpen(u) \/ ChooseMode(u) \/ CountMessage(u) \/ SendTo(u)
    PROVE  Unladen(u)
<1> USE DEF Unladen, Carrying
<1>1. CASE InitSimulation(u) \/ StartWinsock(u) \/ CreateSocket(u) \/ MarkGateway(u)
  BY <1>1 DEF InitSimulation, StartWinsock, CreateSocket, MarkGateway
<1>2. CASE LowerStop(u) \/ CallClose(u) \/ Join(u) \/ Shut(u) \/ MarkClosed(u)
  BY <1>2 DEF LowerStop, CallClose, Join, Shut, MarkClosed
<1>3. CASE RegisterCallback(u) \/ CheckOpen(u) \/ ChooseMode(u)
  BY <1>3 DEF RegisterCallback, CheckOpen, ChooseMode
<1>4. CASE CountMessage(u) \/ SendTo(u)
  BY <1>4 DEF CountMessage, SendTo
<1> QED
  BY <1>1, <1>2, <1>3, <1>4

\* A thread is started that had no frame.
LEMMA LaunchFrames ==
    ASSUME TypeInv, ThreadInv, FrameInv, NEW u \in Users, Launch(u)
    PROVE  /\ FrameInv' /\ UNCHANGED <<frame, frames, seen, Queued>>
           /\ \A a \in Actors : pc[a] \in Carrying \/ pc'[a] \in Carrying => pc'[a] = pc[a]
<1>1. UNCHANGED <<frame, frames, seen, taken, rx_queue>>
  BY DEF Launch
<1>2. pc \in [Actors -> Control \cup Traffic \cup {"unborn", "done"}]
  BY DEF TypeInv
<1>3. CASE pc' = pc
  BY <1>1, <1>3, FramesStay DEF AwaitCall, AwaitQueue, Queued
<1>4. CASE rx_thread = NoThread
  <2>1. pc[u] = "launch" /\ pc' = [pc EXCEPT ![u] = "idle", ![made] = "while"]
    BY <1>4 DEF Launch
  <2>2. made \in RxThreads /\ u \in Actors
    BY <2>1 DEF ThreadInv, TypeInv, RxThreads, Actors
  <2>3. pc[made] \in {"unborn", "done"}
    BY <1>4, <2>2, NobodyAlive DEF Alive
  <2>4. \A a \in Actors : \/ pc'[a] = pc[a]
                          \/ pc[a] \notin Carrying /\ pc'[a] \notin Carrying
    BY <1>2, <2>1, <2>2, <2>3 DEF Carrying, Actors
  <2>5. \A a \in Actors : a \in AwaitCall' <=> a \in AwaitCall
    BY <2>4 DEF AwaitCall, Carrying
  <2>6. \A a \in Actors : a \in AwaitQueue' <=> a \in AwaitQueue
    BY <2>4 DEF AwaitQueue, Carrying
  <2> QED
    BY <1>1, <2>4, <2>5, <2>6, FramesStay DEF Queued
<1> QED
  BY <1>3, <1>4 DEF Launch

LEMMA FramesKept ==
    ASSUME TypeInv, ThreadInv, FrameInv, [Next]_vars
    PROVE  FrameInv'
<1>1. CASE UNCHANGED vars
  BY <1>1, FramesStay DEF vars, AwaitCall, AwaitQueue
<1>2. ASSUME NEW u \in Users,
             \/ InitSimulation(u) \/ StartWinsock(u) \/ CreateSocket(u) \/ MarkGateway(u)
             \/ LowerStop(u) \/ CallClose(u) \/ Join(u) \/ Shut(u) \/ MarkClosed(u)
             \/ RegisterCallback(u) \/ CheckOpen(u) \/ ChooseMode(u) \/ CountMessage(u)
             \/ SendTo(u)
      PROVE  FrameInv'
  BY <1>2, UserUnladen, UnladenFrames DEF Actors
<1>3. ASSUME NEW u \in Users, Launch(u) PROVE FrameInv'
  BY <1>3, LaunchFrames
<1>4. ASSUME NEW u \in Users, Receive(u) PROVE FrameInv'
  BY <1>4, FrameTaken
<1>5. ASSUME NEW u \in Users, TestCount(u) PROVE FrameInv'
  <2>1. CASE count % Period = 0
    BY <1>5, <2>1, FrameComes DEF TestCount, Actors
  <2>2. CASE count % Period # 0
    <3>1. Unladen(u)
      BY <1>5, <2>2 DEF TestCount, Unladen, Carrying
    <3> QED
      BY <3>1, UnladenFrames DEF Actors
  <2> QED
    BY <2>1, <2>2
<1>6. ASSUME NEW a \in Actors, Deliver(a) PROVE FrameInv'
  BY <1>6, FrameSeen, FrameQueued, CallbackKeepsFrames DEF Deliver
<1>7. ASSUME NEW k \in RxThreads, TestStop(k) PROVE FrameInv'
  <2>1. Unladen(k)
    BY <1>7 DEF TestStop, Unladen, Carrying
  <2> QED
    BY <2>1, UnladenFrames DEF Actors
<1>8. ASSUME NEW k \in RxThreads, ReceiveFrom(k) PROVE FrameInv'
  <2>1. k \in Actors /\ k \notin Users
    BY WindowsCANAssumption DEF Actors
  <2>2. CASE frames' = frames + 1
    <3>1. /\ pc[k] = "recvfrom" /\ pc' = [pc EXCEPT ![k] = "lock"]
          /\ frame' = [frame EXCEPT ![k] = frames + 1]
          /\ UNCHANGED <<seen, taken, rx_queue>>
      BY <1>8, <2>2 DEF ReceiveFrom, FrameInv
    <3> QED
      BY <2>1, <2>2, <3>1, FrameComes
  <2>3. CASE UNCHANGED frameVars
    <3>1. frames' # frames + 1
      BY <2>3 DEF FrameInv
    <3>2. Unladen(k)
      BY <1>8, <2>3, <3>1 DEF ReceiveFrom, Unladen, Carrying
    <3> QED
      BY <2>1, <3>2, UnladenFrames
  <2> QED
    BY <1>8, <2>2, <2>3 DEF ReceiveFrom
<1> QED
  BY <1>1, <1>2, <1>3, <1>4, <1>5, <1>6, <1>7, <1>8 DEF Next, UserStep, ReceiveStep, Actors

-----------------------------------------------------------------------------
(* The order of the frames *)

LEMMA NumbersGrow ==
    ASSUME NEW n \in Nat, NEW s \in Seq(Nat), InOrder(s, n - 1)
    PROVE  InOrder(Append(s, n), n)
<1>1. Len(s) = n - 1 /\ \A i \in 1 .. Len(s) : s[i] = i
  BY DEF InOrder
<1>2. /\ Len(Append(s, n)) = n
      /\ Append(s, n)[n] = n /\ \A i \in 1 .. Len(s) : Append(s, n)[i] = s[i]
  BY <1>1
<1>3. \A i \in 1 .. n : i = n \/ i \in 1 .. Len(s)
  BY <1>1
<1> QED
  BY <1>1, <1>2, <1>3 DEF InOrder

\* There is one receive thread at a time.
LEMMA OneReceives ==
    ASSUME TypeInv, ThreadInv, NEW k \in RxThreads, Alive(k)
    PROVE  \A j \in RxThreads : j # k => ~Alive(j)
BY DEF ThreadInv

\* A step after which a thread without a frame has none.
LEMMA UnladenOrder ==
    ASSUME OrderInv, UNCHANGED <<frame, frames, seen, Queued>>, simulation_mode => simulation_mode',
           \A a \in Actors : pc[a] \in Carrying \/ pc'[a] \in Carrying => pc'[a] = pc[a],
           \A u \in Users : ~simulation_mode => pc'[u] \notin {"count", "test"}
    PROVE  OrderInv'
<1> SUFFICES ASSUME ~simulation_mode
             PROVE  OrderInv'
  BY DEF OrderInv
<1>1. \A u \in Users : pc'[u] \notin {"count", "test", "push", "lock", "call"}
  BY DEF OrderInv, Carrying, Actors
<1>2. \A k \in RxThreads : pc'[k] \in Carrying <=> pc[k] \in Carrying
  BY DEF Actors
<1>3. \A k \in RxThreads : pc'[k] = "lock" <=> pc[k] = "lock"
  BY DEF Actors, Carrying
<1>4. /\ \A k \in RxThreads : pc[k] \in Carrying => frame[k] = frames
      /\ InOrder(seen, IF Unseen THEN frames - 1 ELSE frames)
      /\ InOrder(Queued, IF Unqueued THEN frames - 1 ELSE frames)
  BY Zenon DEF OrderInv
<1>5. (Unseen' <=> Unseen) /\ (Unqueued' <=> Unqueued)
  BY <1>2, <1>3 DEF Unseen, Unqueued
<1>6. /\ \A k \in RxThreads : pc'[k] \in Carrying => frame'[k] = frames'
      /\ InOrder(seen', IF Unseen' THEN frames' - 1 ELSE frames')
      /\ InOrder(Queued', IF Unqueued' THEN frames' - 1 ELSE frames')
  BY <1>2, <1>4, <1>5
<1> QED
  BY <1>1, <1>6, Zenon DEF OrderInv

\* The receive thread k goes to p; it is the only one.
LEMMA Receiving ==
    ASSUME TypeInv, ThreadInv, NEW k \in RxThreads, Alive(k), NEW p, pc' = [pc EXCEPT ![k] = p]
    PROVE  /\ pc'[k] = p
           /\ Unseen <=> pc[k] = "lock"
           /\ Unqueued <=> pc[k] \in Carrying
           /\ Unseen' <=> p = "lock"
           /\ Unqueued' <=> p \in Carrying
           /\ \A j \in RxThreads : j # k => pc[j] \notin Carrying /\ pc'[j] \notin Carrying
           /\ \A u \in Users : pc'[u] = pc[u]
<1>1. pc'[k] = p /\ \A a \in Actors : a # k => pc'[a] = pc[a]
  BY DEF TypeInv, Actors
<1>2. \A j \in RxThreads : j # k => pc[j] \notin Carrying
  BY OneReceives DEF Alive, Carrying
<1>3. \A j \in RxThreads : j # k => pc'[j] \notin Carrying
  BY <1>1, <1>2 DEF Actors
<1>4. Unseen <=> pc[k] = "lock"
  BY <1>2 DEF Unseen, Carrying
<1>5. Unqueued <=> pc[k] \in Carrying
  BY <1>2 DEF Unqueued
<1>6. Unseen' <=> p = "lock"
  BY <1>1, <1>3 DEF Unseen, Carrying
<1>7. Unqueued' <=> p \in Carrying
  BY <1>1, <1>3 DEF Unqueued
<1>8. \A u \in Users : pc'[u] = pc[u]
  BY <1>1, WindowsCANAssumption DEF Actors
<1> QED
  BY <1>1, <1>2, <1>3, <1>4, <1>5, <1>6, <1>7, <1>8

LEMMA ReceiveOrder ==
    ASSUME TypeInv, ThreadInv, FrameInv, OrderInv, NEW k \in RxThreads, ReceiveStep(k)
    PROVE  OrderInv'
<1>1. k \in Actors /\ k \notin Users /\ simulation_mode' = simulation_mode
  BY WindowsCANAssumption DEF Actors, ReceiveStep, TestStop, ReceiveFrom, Deliver, Push,
       LockAndCall, CallbackReturns
<1> SUFFICES ASSUME ~simulation_mode
             PROVE  /\ \A u \in Users : pc'[u] \notin {"count", "test", "push", "lock", "call"}
                    /\ \A j \in RxThreads : pc'[j] \in Carrying => frame'[j] = frames'
                    /\ InOrder(seen', IF Unseen' THEN frames' - 1 ELSE frames')
                    /\ InOrder(Queued', IF Unqueued' THEN frames' - 1 ELSE frames')
  BY <1>1, Zenon DEF OrderInv
<1>2. /\ \A u \in Users : pc[u] \notin {"count", "test", "push", "lock", "call"}
      /\ \A j \in RxThreads : pc[j] \in Carrying => frame[j] = frames
      /\ InOrder(seen, IF Unseen THEN frames - 1 ELSE frames)
      /\ InOrder(Queued, IF Unqueued THEN frames - 1 ELSE frames)
  BY Zenon DEF OrderInv
<1>3. /\ frames \in Nat /\ frame \in [Actors -> Nat]
      /\ seen \in Seq(Nat) /\ Queued \in Seq(Nat)
  <2>1. seen \in Seq(1 .. frames) /\ Queued \in Seq(1 .. frames)
    BY DEF FrameInv, Arrived
  <2> QED
    BY <2>1 DEF FrameInv
<1>4. CASE TestStop(k)
  <2>1. PICK p \in {"done", "recvfrom"} : pc' = [pc EXCEPT ![k] = p]
    BY <1>4 DEF TestStop
  <2>2. pc[k] = "while" /\ UNCHANGED <<frame, frames, seen, Queued>>
    BY <1>4 DEF TestStop, Queued
  <2>3. Alive(k) /\ pc[k] \notin Carrying /\ p \notin Carrying
    BY <2>1, <2>2 DEF Alive, Carrying
  <2>4. /\ ~Unseen /\ ~Unqueued /\ ~Unseen' /\ ~Unqueued'
        /\ \A j \in RxThreads : pc'[j] \notin Carrying
        /\ \A u \in Users : pc'[u] = pc[u]
    BY <2>1, <2>2, <2>3, Receiving DEF Carrying
  <2> QED
    BY <1>2, <2>2, <2>4
<1>5. CASE ReceiveFrom(k)
  <2>1. Alive(k) /\ pc[k] \notin Carrying
    BY <1>5 DEF ReceiveFrom, Alive, Carrying
  <2>2. CASE UNCHANGED frameVars
    <3>1. pc' = [pc EXCEPT ![k] = "while"] /\ UNCHANGED <<frame, frames, seen, Queued>>
      BY <1>3, <1>5, <2>2 DEF ReceiveFrom, Queued
    <3>2. /\ ~Unseen /\ ~Unqueued /\ ~Unseen' /\ ~Unqueued'
          /\ \A j \in RxThreads : pc'[j] \notin Carrying
          /\ \A u \in Users : pc'[u] = pc[u]
      BY <2>1, <3>1, Receiving DEF Carrying
    <3> QED
      BY <1>2, <3>1, <3>2
  <2>3. CASE frames' = frames + 1
    <3>1. /\ pc' = [pc EXCEPT ![k] = "lock"] /\ UNCHANGED <<seen, Queued>>
          /\ frame' = [frame EXCEPT ![k] = frames + 1]
      BY <1>3, <1>5, <2>3 DEF ReceiveFrom, Queued
    <3>2. /\ ~Unseen /\ ~Unqueued /\ Unseen' /\ Unqueued'
          /\ pc'[k] = "lock"
          /\ \A j \in RxThreads : j # k => pc'[j] \notin Carrying
          /\ \A u \in Users : pc'[u] = pc[u]
      BY <2>1, <3>1, Receiving DEF Carrying
    <3>3. frame'[k] = frames'
      BY <1>1, <1>3, <2>3, <3>1
    <3>4. InOrder(seen', frames' - 1) /\ InOrder(Queued', frames' - 1)
      BY <1>2, <1>3, <2>3, <3>1, <3>2 DEF InOrder
    <3> QED
      BY <1>2, <3>2, <3>3, <3>4
  <2> QED
    BY <1>5, <2>2, <2>3 DEF ReceiveFrom
<1>6. CASE Deliver(k)
  <2>1. pc[k] \in Carrying /\ Alive(k) /\ frame[k] = frames
    BY <1>2, <1>6 DEF Deliver, Push, LockAndCall, CallbackReturns, Carrying, Alive
  <2>2. CASE Push(k)
    <3>1. /\ pc[k] = "push" /\ pc' = [pc EXCEPT ![k] = "while"]
          /\ UNCHANGED <<frame, frames, seen>>
      BY <1>1, <2>2 DEF Push
    <3>2. Queued' = Append(Queued, frames)
      BY <1>1, <2>1, <2>2, FrameQueued
    <3>3. /\ ~Unseen /\ Unqueued /\ ~Unseen' /\ ~Unqueued'
          /\ pc'[k] = "while"
          /\ \A j \in RxThreads : j # k => pc'[j] \notin Carrying
          /\ \A u \in Users : pc'[u] = pc[u]
      BY <2>1, <3>1, Receiving DEF Carrying
    <3>4. InOrder(Queued', frames')
      BY <1>2, <1>3, <3>1, <3>2, <3>3, NumbersGrow
    <3> QED
      BY <1>2, <3>1, <3>3, <3>4 DEF Carrying
  <2>3. CASE LockAndCall(k)
    <3>1. PICK p \in {"call", "push"} : pc' = [pc EXCEPT ![k] = p]
      BY <1>1, <2>3 DEF LockAndCall, AfterCallback
    <3>2. /\ pc[k] = "lock" /\ seen' = Append(seen, frames)
          /\ UNCHANGED <<frame, frames, Queued>>
      BY <2>1, <2>3 DEF LockAndCall, Queued
    <3>3. /\ Unseen /\ Unqueued /\ ~Unseen' /\ Unqueued'
          /\ pc'[k] = p
          /\ \A j \in RxThreads : j # k => pc'[j] \notin Carrying
          /\ \A u \in Users : pc'[u] = pc[u]
      BY <2>1, <3>1, <3>2, Receiving DEF Carrying
    <3>4. InOrder(seen', frames')
      BY <1>2, <1>3, <3>2, <3>3, NumbersGrow
    <3> QED
      BY <1>2, <2>1, <3>2, <3>3, <3>4
  <2>4. CASE CallbackReturns(k)
    <3>1. /\ pc[k] = "call" /\ pc' = [pc EXCEPT ![k] = "push"]
          /\ UNCHANGED <<frame, frames, seen, Queued>>
      BY <1>1, <2>4 DEF CallbackReturns, AfterCallback, Queued
    <3>2. /\ ~Unseen /\ Unqueued /\ ~Unseen' /\ Unqueued'
          /\ pc'[k] = "push"
          /\ \A j \in RxThreads : j # k => pc'[j] \notin Carrying
          /\ \A u \in Users : pc'[u] = pc[u]
      BY <2>1, <3>1, Receiving DEF Carrying
    <3> QED
      BY <1>2, <2>1, <3>1, <3>2
  <2> QED
    BY <1>6, <2>2, <2>3, <2>4 DEF Deliver
<1> QED
  BY <1>4, <1>5, <1>6 DEF ReceiveStep

\* Users deliver, count and test in simulation only, which is for good.
LEMMA UserOrder ==
    ASSUME TypeInv, ThreadInv, FrameInv, OrderInv, NEW u \in Users, ~simulation_mode,
           ~simulation_mode',
           \/ InitSimulation(u) \/ StartWinsock(u) \/ CallClose(u) \/ RegisterCallback(u)
           \/ Receive(u) \/ CheckOpen(u) \/ UserStep(u) \/ Deliver(u)
    PROVE  OrderInv'
<1>1. \A v \in Users : pc[v] \notin {"count", "test", "push", "lock", "call"}
  BY DEF OrderInv
<1>2. /\ u \in Actors /\ pc \in [Actors -> Control \cup Traffic \cup {"unborn", "done"}]
      /\ \A v \in Users : v \in Actors
  BY DEF TypeInv, Actors
<1>3. ASSUME Unladen(u), pc'[u] \notin {"count", "test"} PROVE OrderInv'
  <2>1. \A a \in Actors : pc[a] \in Carrying \/ pc'[a] \in Carrying => pc'[a] = pc[a]
    BY <1>2, <1>3 DEF Unladen
  <2>2. \A v \in Users : pc'[v] \notin {"count", "test"}
    BY <1>1, <1>2, <1>3 DEF Unladen
  <2>3. UNCHANGED <<frame, frames, seen, Queued>>
    BY <1>3 DEF Unladen, Queued
  <2> QED
    BY <2>1, <2>2, <2>3, UnladenOrder
<1>4. ASSUME \/ StartWinsock(u) \/ CreateSocket(u) \/ MarkGateway(u)
             \/ LowerStop(u) \/ CallClose(u) \/ Join(u) \/ Shut(u) \/ MarkClosed(u)
             \/ RegisterCallback(u) \/ CheckOpen(u) \/ ChooseMode(u) \/ SendTo(u)
      PROVE  OrderInv'
  <2>1. Unladen(u)
    BY <1>4, UserUnladen
  <2>2. CASE pc' = pc
    BY <1>1, <1>3, <2>1, <2>2
  <2>3. CASE StartWinsock(u) \/ CreateSocket(u) \/ MarkGateway(u) \/ LowerStop(u)
    <3>1. pc'[u] \notin {"count", "test"}
      BY <1>1, <1>2, <2>3 DEF StartWinsock, CreateSocket, MarkGateway, LowerStop
    <3> QED
      BY <1>3, <2>1, <3>1
  <2>4. CASE CallClose(u) \/ Join(u) \/ Shut(u) \/ MarkClosed(u)
    <3>1. pc'[u] \notin {"count", "test"}
      BY <1>2, <2>4 DEF CallClose, Join, Shut, MarkClosed
    <3> QED
      BY <1>3, <2>1, <3>1
  <2>5. CASE RegisterCallback(u) \/ CheckOpen(u) \/ ChooseMode(u) \/ SendTo(u)
    <3>1. pc'[u] \notin {"count", "test"}
      BY <1>1, <1>2, <2>5 DEF RegisterCallback, CheckOpen, ChooseMode, SendTo
    <3> QED
      BY <1>3, <2>1, <3>1
  <2> QED
    BY <1>4, <2>3, <2>4, <2>5
<1>5. CASE InitSimulation(u)
  BY <1>5 DEF InitSimulation
<1>6. CASE Launch(u)
  <2>1. /\ UNCHANGED <<frame, frames, seen, Queued>>
        /\ \A a \in Actors : pc[a] \in Carrying \/ pc'[a] \in Carrying => pc'[a] = pc[a]
    BY <1>6, LaunchFrames
  <2>2. \A v \in Users : pc'[v] \notin {"count", "test"}
    BY <1>1, <1>2, <1>6 DEF Launch
  <2> QED
    BY <2>1, <2>2, UnladenOrder
<1>7. CASE Receive(u)
  <2>1. UNCHANGED <<frame, frames, seen, Queued, pc>>
    BY <1>7, FrameTaken DEF Receive
  <2>2. \A a \in Actors : pc'[a] = pc[a]
    BY <2>1
  <2> QED
    BY <1>1, <1>2, <2>1, <2>2, UnladenOrder
<1>8. ~CountMessage(u) /\ ~TestCount(u) /\ ~Deliver(u)
  BY <1>1 DEF CountMessage, TestCount, Deliver, Push, LockAndCall, CallbackReturns
<1> QED
  BY <1>4, <1>5, <1>6, <1>7, <1>8 DEF UserStep

LEMMA OrderKept ==
    ASSUME TypeInv, ThreadInv, FrameInv, OrderInv, [Next]_vars
    PROVE  OrderInv'
<1>1. CASE UNCHANGED vars
  BY <1>1, Zenon DEF vars, modeVars, callVars, queueVars, frameVars, trafficVars, OrderInv, Queued,
       Unseen, Unqueued
<1>2. ASSUME NEW u \in Users,
             \/ InitSimulation(u) \/ StartWinsock(u) \/ CallClose(u) \/ RegisterCallback(u)
             \/ Receive(u) \/ CheckOpen(u) \/ UserStep(u) \/ Deliver(u)
      PROVE  OrderInv'
  <2>1. simulation_mode => simulation_mode'
    BY <1>2 DEF InitSimulation, StartWinsock, CallClose, RegisterCallback, Receive, CheckOpen,
         UserStep, CreateSocket, MarkGateway, LowerStop, Launch, Join, Shut, MarkClosed,
         ChooseMode, CountMessage, TestCount, SendTo, Deliver, Push, LockAndCall,
         CallbackReturns
  <2>2. CASE simulation_mode'
    BY <2>2 DEF OrderInv
  <2>3. CASE ~simulation_mode'
    BY <1>2, <2>1, <2>3, UserOrder
  <2> QED
    BY <2>2, <2>3
<1>3. ASSUME NEW k \in RxThreads, ReceiveStep(k) PROVE OrderInv'
  BY <1>3, ReceiveOrder
<1> QED
  BY <1>1, <1>2, <1>3 DEF Next

LEMMA FrameInit == Init => FrameInv /\ OrderInv
<1> SUFFICES ASSUME Init PROVE FrameInv /\ OrderInv
  OBVIOUS
<1>1. /\ frames = 0 /\ frame = [a \in Actors |-> 0] /\ seen = << >>
      /\ taken = << >> /\ rx_queue = << >>
      /\ \A a \in Actors : pc[a] \in {"idle", "unborn"}
  BY DEF Init
<1>2. AwaitCall = {} /\ AwaitQueue = {}
  BY <1>1 DEF AwaitCall, AwaitQueue
<1>3. Queued = << >>
  BY <1>1 DEF Queued
<1>4. Arrived(<< >>, {}, frame, 0)
  BY DEF Arrived
<1>5. FrameInv
  BY <1>1, <1>2, <1>3, <1>4 DEF FrameInv
<1>6. InOrder(<< >>, 0)
  BY DEF InOrder
<1>7. ~Unseen /\ ~Unqueued
  BY <1>1 DEF Unseen, Unqueued, Carrying, Actors
<1>8. /\ \A u \in Users : pc[u] \notin {"count", "test", "push", "lock", "call"}
      /\ \A k \in RxThreads : pc[k] \notin Carrying
  BY <1>1 DEF Carrying, Actors
<1>9. /\ InOrder(seen, IF Unseen THEN frames - 1 ELSE frames)
      /\ InOrder(Queued, IF Unqueued THEN frames - 1 ELSE frames)
  BY <1>1, <1>3, <1>6, <1>7
<1>10. OrderInv
  BY <1>8, <1>9, Zenon DEF OrderInv
<1> QED
  BY <1>5, <1>10

LEMMA OrderedPrefix ==
    ASSUME NEW s \in Seq(Nat), NEW t \in Seq(Nat), NEW m \in Nat, NEW n \in Nat, m <= n,
           InOrder(s, m), InOrder(t, n)
    PROVE  IsPrefix(s, t)
<1>1. Len(s) = m /\ Len(t) = n /\ \A i \in 1 .. m : s[i] = i /\ t[i] = i
  BY DEF InOrder
<1>2. /\ Len(SubSeq(s, 1, m)) = m /\ Len(SubSeq(t, 1, m)) = m
      /\ \A i \in 1 .. m : SubSeq(s, 1, m)[i] = s[i] /\ SubSeq(t, 1, m)[i] = t[i]
      /\ SubSeq(s, 1, m) \in Seq(Nat) /\ SubSeq(t, 1, m) \in Seq(Nat)
  BY <1>1
<1>3. SubSeq(s, 1, m) = SubSeq(t, 1, m)
  BY <1>1, <1>2, SeqEqual
<1> QED
  BY <1>1, <1>3 DEF IsPrefix

(***************************************************************************)
(* If one thread opens and closes the interface, the queue behind receive  *)
(* and the callback are given the same frames, each once, from whatever    *)
(* threads they come and however the callback is set in between; and as    *)
(* long as the interface has not simulated, in the order of reading.       *)
(***************************************************************************)
THEOREM QueuesAgree ==
    ASSUME SoleController
    PROVE  Spec => []QueueAgrees
<1>1. Init => FrameInv /\ OrderInv
  BY FrameInit
<1>2. WinInv /\ FrameInv /\ OrderInv /\ [Next]_vars => FrameInv' /\ OrderInv'
  BY FramesKept, OrderKept DEF WinInv
<1>3. FrameInv /\ OrderInv => QueueAgrees
  <2> SUFFICES ASSUME FrameInv, OrderInv PROVE QueueAgrees
    OBVIOUS
  <2>1. /\ frames \in Nat
        /\ Arrived(seen, AwaitCall, frame, frames) /\ Arrived(Queued, AwaitQueue, frame, frames)
    BY DEF FrameInv
  <2>2. ASSUME \A a \in Actors : pc[a] \notin {"push", "lock", "call"}
        PROVE  /\ Len(seen) = frames /\ ToSet(seen) = 1 .. frames
               /\ Len(Queued) = frames /\ ToSet(Queued) = 1 .. frames
    <3>1. AwaitCall = {} /\ AwaitQueue = {}
      BY <2>2 DEF AwaitCall, AwaitQueue
    <3> QED
      BY <2>1, <3>1, AllArrived
  <2>3. ASSUME ~simulation_mode
        PROVE  IsPrefix(Queued, seen) /\ IsPrefix(seen, [i \in 1 .. frames |-> i])
    <3>1. seen \in Seq(Nat) /\ Queued \in Seq(Nat)
      <4>1. seen \in Seq(1 .. frames) /\ Queued \in Seq(1 .. frames)
        BY <2>1 DEF Arrived
      <4> QED
        BY <2>1, <4>1
    <3>2. /\ InOrder(seen, IF Unseen THEN frames - 1 ELSE frames)
          /\ InOrder(Queued, IF Unqueued THEN frames - 1 ELSE frames)
      BY <2>3, Zenon DEF OrderInv
    <3>3. Unseen => Unqueued
      BY DEF Unseen, Unqueued, Carrying
    <3>4. /\ Len(seen) \in Nat /\ Len(Queued) \in Nat
          /\ Len(Queued) <= Len(seen) /\ Len(seen) <= frames
      BY <2>1, <3>1, <3>2, <3>3 DEF InOrder
    <3>5. InOrder(seen, Len(seen)) /\ InOrder(Queued, Len(Queued))
      BY <3>2 DEF InOrder
    <3>6. /\ [i \in 1 .. frames |-> i] \in Seq(Nat)
          /\ InOrder([i \in 1 .. frames |-> i], frames)
      BY <2>1 DEF InOrder
    <3> QED
      BY <2>1, <3>1, <3>4, <3>5, <3>6, OrderedPrefix
  <2> QED
    BY <2>2, <2>3 DEF QueueAgrees, Queued
<1> QED
  BY <1>1, <1>2, <1>3, WindowsInvariant, PTL DEF Spec

=============================================================================
