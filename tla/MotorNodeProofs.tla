--------------------------- MODULE MotorNodeProofs ---------------------------
(***************************************************************************)
(* What the ROS 2 node does with its motors, for any motors, parameters,   *)
(* commands and queue depth, whatever calls of the driver fail.  What it   *)
(* has written is known only if answers are timely.                        *)
(***************************************************************************)
EXTENDS MotorNode, TLAPS, SequenceTheorems, WellFoundedInduction

Task == task["node"]

Step == step["node"]

Applied(s) == regs[Task[s].motor][Task[s].reg] = Task[s].val

ContentOf(a) == Driver!Content(a.motor, a.reg, a.count)

\* Access s succeeded, and nothing has undone it; a write may be taken to have
\* succeeded for a late acknowledgement.
Finished(s) ==
    /\ timely /\ Task[s].cmd = "write" => Applied(s)
    /\ Task[s].cmd = "read" => got["node"][s] = ContentOf(Task[s])

\* The target of the motor in turn i.
TargetOf(i) == Int32At(regs[motor_ids[i]], TAG_POSITION_L)

EnableOf(i) == regs[motor_ids[i]][SYS_ENABLE_DRIVER]

Turns == DOMAIN motor_ids

-----------------------------------------------------------------------------
(* The inductive invariant *)

ServiceTypes ==
    /\ "node" \in DOMAIN task /\ "node" \in DOMAIN step /\ "node" \in DOMAIN busy
    /\ "node" \in DOMAIN got /\ "node" \in DOMAIN outcome
    /\ "node" \in DOMAIN done /\ "node" \in DOMAIN sample
    /\ regs \in [Motors -> [Regs -> Int]]
    /\ busy["node"] => calling /\ outcome["node"] = "busy"

\* The call in progress is that of the turn, what it has read is in the
\* registers, and what it has written is in them too, if answers are timely.
CallInv ==
    calling =>
        /\ phase \in Loops /\ index \in Turns
        /\ Task = CallOf(motor_ids[index], index)
        /\ Step \in DOMAIN Task /\ DOMAIN got["node"] = DOMAIN Task
        /\ \A s \in done["node"] :
             s \in DOMAIN Task /\ (timely /\ Task[s].cmd = "write" => Applied(s))
        /\ \A s \in DOMAIN Task :
             Task[s].must /\ (s < Step \/ outcome["node"] = "ok") => Finished(s)
        /\ sample["node"] # NoVals =>
             /\ Task[Step].cmd = "read"
             /\ Task[Step].must => sample["node"] = ContentOf(Task[Step])

\* The driver is open from the loop of the constructor to that of the destructor.
OpenInv ==
    /\ phase \in Loops \cup {"spin"} => initialized
    /\ phase = "ready" /\ ~shutdown => initialized

DestroyInv ==
    timely /\ phase = "destroy" =>
        \A i \in Turns : i < index => i \in failed \/ EnableOf(i) = 0

EnableInv ==
    timely /\ phase = "enable" /\ success =>
        \A i \in Turns : i < index => EnableOf(i) = IF argument THEN 1 ELSE 0

UpdateInv ==
    phase = "update" =>
        \A s \in DOMAIN states :
            /\ \E i \in Turns : motor_ids[i] = states[s][1]
            /\ states[s][2] = MotionAt(regs[states[s][1]])

CommandInv ==
    timely /\ phase = "command" =>
        \A i \in Turns : i < index => i \in failed \/ TargetOf(i) = argument[i]

\* The newest command is the last in the queue, or the one in hand, or done.
QueueInv ==
    /\ last_command = NoCommand => commands = << >> /\ phase # "command"
    /\ commands # << >> => last_command = commands[Len(commands)]
    /\ commands = << >> /\ phase = "command" => argument = last_command

LatestInv ==
    timely /\ commands = << >> /\ phase # "command" /\ last_command # NoCommand
      /\ Len(last_command) = Len(motor_ids) =>
        \A i \in Turns : i \in missed \/ TargetOf(i) = last_command[i]

NodeInv ==
    /\ TypeOK /\ ServiceTypes /\ CallInv /\ OpenInv
    /\ DestroyInv /\ MotorsOffAtExit /\ EnableInv /\ UpdateInv /\ QueueInv

\* What is commanded needs motors of different ids.
Distinct == \A i, j \in Turns : motor_ids[i] = motor_ids[j] => i = j

TargetInv == Distinct /\ CommandInv /\ LatestInv

-----------------------------------------------------------------------------
(* The calls *)

LEMMA ConcatPair ==
    ASSUME NEW a, NEW b
    PROVE  <<a>> \o <<b>> = <<a, b>>
<1>1. <<a>> \in Seq({a, b}) /\ <<b>> \in Seq({a, b}) /\ <<a, b>> \in Seq({a, b})
  OBVIOUS
<1>2. /\ <<a>> \o <<b>> \in Seq({a, b}) /\ Len(<<a>> \o <<b>>) = 2
      /\ (<<a>> \o <<b>>)[1] = a /\ (<<a>> \o <<b>>)[2] = b
  BY <1>1, SMT
<1>3. /\ Len(<<a, b>>) = 2 /\ <<a, b>>[1] = a /\ <<a, b>>[2] = b
  OBVIOUS
<1>4. \A i \in 1 .. 2 : i = 1 \/ i = 2
  OBVIOUS
<1> QED
  BY <1>1, <1>2, <1>3, <1>4, SeqEqual

LEMMA ConcatTriple ==
    ASSUME NEW a, NEW b, NEW c
    PROVE  <<a>> \o <<b, c>> = <<a, b, c>>
<1>1. /\ <<a>> \in Seq({a, b, c}) /\ <<b, c>> \in Seq({a, b, c})
      /\ <<a, b, c>> \in Seq({a, b, c})
  OBVIOUS
<1>2. /\ <<a>> \o <<b, c>> \in Seq({a, b, c}) /\ Len(<<a>> \o <<b, c>>) = 3
      /\ (<<a>> \o <<b, c>>)[1] = a /\ (<<a>> \o <<b, c>>)[2] = b
      /\ (<<a>> \o <<b, c>>)[3] = c
  BY <1>1, SMT
<1>3. /\ Len(<<a, b, c>>) = 3
      /\ <<a, b, c>>[1] = a /\ <<a, b, c>>[2] = b /\ <<a, b, c>>[3] = c
  OBVIOUS
<1>4. \A i \in 1 .. 3 : i = 1 \/ i = 2 \/ i = 3
  OBVIOUS
<1> QED
  BY <1>1, <1>2, <1>3, <1>4, SeqEqual

\* A call of the node to motor m writes, or it reads; a write is insisted on,
\* and two accesses of one call write different registers.  Of the reads only
\* the first is insisted on.
WritesTo(T, m) ==
    /\ DOMAIN T = 1 .. Len(T) /\ Len(T) \in Nat \ {0}
    /\ \A s \in DOMAIN T :
         /\ T[s].cmd = "write" /\ T[s].must /\ T[s].motor = m
         /\ T[s].val \in Int /\ T[s].reg \in Regs
    /\ \A r, s \in DOMAIN T : T[r].reg = T[s].reg => r = s

ReadsFrom(T, m) ==
    /\ DOMAIN T = 1 .. Len(T) /\ Len(T) \in Nat \ {0}
    /\ \A s \in DOMAIN T : T[s].cmd = "read" /\ (s # 1 => ~T[s].must)
    /\ T[1].motor = m /\ T[1].reg = CUR_CURRENT_L /\ T[1].count = 6 /\ T[1].must

LEMMA OneWrite ==
    ASSUME NEW m, NEW r \in Regs, NEW v \in Int
    PROVE  LET T == WriteRegister(m, r, v)
           IN  DOMAIN T = 1 .. 1 /\ WritesTo(T, m) /\ T[1].reg = r /\ T[1].val = v
<1> DEFINE a == Access(m, "write", r, 1, v, TRUE, 0)
<1>1. a.cmd = "write" /\ a.must /\ a.motor = m /\ a.val = v /\ a.reg = r
  BY DEF Access
<1>2. WriteRegister(m, r, v) = <<a>>
  BY DEF WriteRegister
<1> HIDE DEF a
<1>3. DOMAIN <<a>> = 1 .. 1 /\ Len(<<a>>) = 1 /\ <<a>>[1] = a
  OBVIOUS
<1> QED
  BY <1>1, <1>2, <1>3 DEF WritesTo

LEMMA ZeroWrites ==
    ASSUME NEW m
    PROVE  LET T == SetZeroPosition(m)
           IN  DOMAIN T = 1 .. 1 /\ WritesTo(T, m) /\ T[1].reg = SYS_SET_ZERO_POS
BY RegsAssumption, OneWrite DEF SetZeroPosition

LEMMA TargetWrites ==
    ASSUME NEW m, NEW low \in Int, NEW high \in Int
    PROVE  LET T == SetTargetPosition(m, [low |-> low, high |-> high])
           IN  /\ DOMAIN T = 1 .. 2 /\ WritesTo(T, m)
               /\ T[1].reg = TAG_POSITION_L /\ T[1].val = low
               /\ T[2].reg = TAG_POSITION_L + 1 /\ T[2].val = high
<1> DEFINE a == Access(m, "write", TAG_POSITION_L, 1, low, TRUE, 0)
           b == Access(m, "write", TAG_POSITION_L + 1, 1, high, TRUE, 0)
<1>1. SetTargetPosition(m, [low |-> low, high |-> high]) = <<a, b>>
  BY ConcatPair DEF SetTargetPosition, WriteInt32, WriteRegister
<1>2. /\ a.cmd = "write" /\ a.must /\ a.motor = m /\ a.val = low /\ a.reg = TAG_POSITION_L
      /\ b.cmd = "write" /\ b.must /\ b.motor = m /\ b.val = high
      /\ b.reg = TAG_POSITION_L + 1
  BY DEF Access
<1>3. TAG_POSITION_L # TAG_POSITION_L + 1
  BY DEF TAG_POSITION_L
<1> HIDE DEF a, b
<1>4. DOMAIN <<a, b>> = 1 .. 2 /\ Len(<<a, b>>) = 2 /\ <<a, b>>[1] = a /\ <<a, b>>[2] = b
  OBVIOUS
<1>5. \A s \in 1 .. 2 : s = 1 \/ s = 2
  OBVIOUS
<1> QED
  BY <1>1, <1>2, <1>3, <1>4, <1>5, RegsAssumption DEF WritesTo

LEMMA PairIs ==
    ASSUME NEW U, NEW d, NEW e, U = [s \in 1 .. 2 |-> U[s]], U[1] = d, U[2] = e
    PROVE  U = <<d, e>>
<1>1. \A i \in 1 .. 2 : i = 1 \/ i = 2
  OBVIOUS
<1>2. \A i \in 1 .. 2 : U[i] \in {d, e}
  BY <1>1, Zenon
<1>3. U \in [1 .. 2 -> {d, e}]
  BY <1>2, Zenon
<1>4. U \in Seq({d, e}) /\ Len(U) = 2
  BY <1>3
<1>5. <<d, e>> \in Seq({d, e}) /\ Len(<<d, e>>) = 2 /\ <<d, e>>[1] = d /\ <<d, e>>[2] = e
  OBVIOUS
<1> QED
  BY <1>1, <1>4, <1>5, SeqEqual

LEMMA StateReads ==
    ASSUME NEW m
    PROVE  ReadsFrom(GetJointState(m), m)
<1> DEFINE a == Access(m, "read", CUR_CURRENT_L, 6, 0, TRUE, 6)
           b == Access(m, "read", SYS_VOLTAGE, 4, 0, TRUE, 4)
           c == Access(m, "read", TAG_WORK_MODE, 1, 0, TRUE, 1)
           U == Optional(<<b, c>>)
<1>1. GetJointState(m) = <<a>> \o U
  BY ConcatPair DEF GetJointState, ReadBlock, GetWorkMode, ReadRegister
<1>2. /\ a.cmd = "read" /\ a.motor = m /\ a.reg = CUR_CURRENT_L /\ a.count = 6 /\ a.must
      /\ b.cmd = "read" /\ c.cmd = "read"
  BY DEF Access
<1>3. /\ [b EXCEPT !.must = FALSE].cmd = "read" /\ ~[b EXCEPT !.must = FALSE].must
      /\ [c EXCEPT !.must = FALSE].cmd = "read" /\ ~[c EXCEPT !.must = FALSE].must
  BY DEF Access
<1> DEFINE d == [b EXCEPT !.must = FALSE]
           e == [c EXCEPT !.must = FALSE]
<1> HIDE DEF a, b, c
<1>4. U = <<d, e>>
  <2>1. DOMAIN <<b, c>> = 1 .. 2 /\ <<b, c>>[1] = b /\ <<b, c>>[2] = c
    OBVIOUS
  <2>2. U = [s \in 1 .. 2 |-> [<<b, c>>[s] EXCEPT !.must = FALSE]]
    BY <2>1 DEF Optional
  <2>3. U[1] = d /\ U[2] = e
    <3>1. 1 \in 1 .. 2 /\ 2 \in 1 .. 2
      OBVIOUS
    <3>2. /\ U[1] = [<<b, c>>[1] EXCEPT !.must = FALSE]
          /\ U[2] = [<<b, c>>[2] EXCEPT !.must = FALSE]
      BY <2>2, <3>1, Zenon
    <3> QED
      BY <2>1, <3>2, Zenon
  <2>4. U = [s \in 1 .. 2 |-> U[s]]
    BY <2>2
  <2> HIDE DEF U, d, e
  <2> QED
    BY <2>3, <2>4, PairIs
<1> HIDE DEF d, e, U
<1>5. <<a>> \o <<d, e>> = <<a, d, e>>
  BY ConcatTriple
<1>6. d.cmd = "read" /\ e.cmd = "read" /\ ~d.must /\ ~e.must
  BY <1>3 DEF d, e
<1>7. GetJointState(m) = <<a, d, e>>
  BY <1>1, <1>4, <1>5
<1>8. /\ DOMAIN <<a, d, e>> = 1 .. 3 /\ Len(<<a, d, e>>) = 3
      /\ <<a, d, e>>[1] = a /\ <<a, d, e>>[2] = d /\ <<a, d, e>>[3] = e
  OBVIOUS
<1>9. \A s \in 1 .. 3 : s = 1 \/ s = 2 \/ s = 3
  OBVIOUS
<1> QED
  BY <1>2, <1>6, <1>7, <1>8, <1>9 DEF ReadsFrom

\* What the call of the current turn is.
LEMMA TurnCall ==
    ASSUME TypeOK, phase \in Loops, index \in Turns,
           NEW m, m = motor_ids[index], NEW T, T = CallOf(m, index)
    PROVE  /\ m \in Motors
           /\ phase = "update" => ReadsFrom(T, m)
           /\ phase # "update" => WritesTo(T, m)
           /\ phase \in {"start", "enable", "destroy"} =>
                DOMAIN T = 1 .. 1 /\ T[1].reg = SYS_ENABLE_DRIVER
           /\ phase = "destroy" => T[1].val = 0
           /\ phase = "enable" => T[1].val = IF argument THEN 1 ELSE 0
           /\ phase = "reset" => DOMAIN T = 1 .. 1 /\ T[1].reg = SYS_SET_ZERO_POS
           /\ phase = "command" =>
                /\ DOMAIN T = 1 .. 2
                /\ T[1].reg = TAG_POSITION_L /\ T[1].val = argument[index] % 65536
                /\ T[2].reg = TAG_POSITION_L + 1
                /\ T[2].val = (argument[index] \div 65536) % 65536
<1>1. m \in Motors
  BY DEF TypeOK, Turns
<1>2. CASE phase = "start"
  <2>1. T = WriteRegister(m, SYS_ENABLE_DRIVER, 1)
    BY <1>2 DEF CallOf, EnableMotor
  <2> QED
    BY <1>1, <1>2, <2>1, OneWrite, RegsAssumption
<1>3. CASE phase = "destroy"
  <2>1. T = WriteRegister(m, SYS_ENABLE_DRIVER, 0)
    BY <1>3 DEF CallOf, EnableMotor
  <2> QED
    BY <1>1, <1>3, <2>1, OneWrite, RegsAssumption
<1>4. CASE phase = "enable"
  <2> DEFINE v == IF argument THEN 1 ELSE 0
  <2>1. T = WriteRegister(m, SYS_ENABLE_DRIVER, v)
    BY <1>4 DEF CallOf, EnableMotor
  <2>2. v \in Int
    OBVIOUS
  <2> HIDE DEF v
  <2>3. /\ DOMAIN T = 1 .. 1 /\ WritesTo(T, m) /\ T[1].reg = SYS_ENABLE_DRIVER
        /\ T[1].val = v
    BY <2>1, <2>2, OneWrite, RegsAssumption
  <2> QED
    BY <1>1, <1>4, <2>3 DEF v
<1>5. CASE phase = "reset"
  <2>1. T = SetZeroPosition(m)
    BY <1>5 DEF CallOf
  <2> QED
    BY <1>1, <1>5, <2>1, ZeroWrites
<1>6. CASE phase = "update"
  <2>1. T = GetJointState(m)
    BY <1>6 DEF CallOf
  <2> QED
    BY <1>1, <1>6, <2>1, StateReads
<1>7. CASE phase = "command"
  <2>1. argument[index] \in Int
    <3>1. argument \in Commands /\ Len(argument) = Len(motor_ids) /\ motor_ids \in Seq(Motors)
      BY <1>7 DEF TypeOK
    <3>2. argument \in Seq(Int)
      BY <3>1, CommandsAssumption
    <3> QED
      BY <3>1, <3>2 DEF Turns
  <2>2. /\ argument[index] % 65536 \in Int
        /\ (argument[index] \div 65536) % 65536 \in Int
    BY <2>1
  <2>3. T = SetTargetPosition(m, [low |-> argument[index] % 65536,
                                  high |-> (argument[index] \div 65536) % 65536])
    BY <1>7 DEF CallOf, Halves
  <2> QED
    BY <1>1, <1>7, <2>2, <2>3, TargetWrites
<1> QED
  BY <1>2, <1>3, <1>4, <1>5, <1>6, <1>7 DEF Loops, Callbacks

-----------------------------------------------------------------------------
(* Steps of the driver and the motors, answers being timely *)

DriverActs == MotorWorks \/ DriverWorks

Motor == motor_ids[index]

\* A call that writes insists on every access, one that reads on the first.
LEMMA CurrentCall ==
    ASSUME NodeInv, calling
    PROVE  /\ phase \in Loops /\ index \in Turns /\ Motor \in Motors
           /\ DOMAIN Task = 1 .. Len(Task) /\ Len(Task) \in Nat \ {0}
           /\ Step \in DOMAIN Task
           /\ phase = "update" => ReadsFrom(Task, Motor)
           /\ phase # "update" => WritesTo(Task, Motor)
<1>1. /\ TypeOK /\ phase \in Loops /\ index \in Turns /\ Step \in DOMAIN Task
      /\ Task = CallOf(Motor, index)
  BY DEF NodeInv, CallInv, Motor
<1>2. /\ Motor \in Motors
      /\ phase = "update" => ReadsFrom(Task, Motor)
      /\ phase # "update" => WritesTo(Task, Motor)
  BY <1>1, TurnCall DEF Motor
<1>3. DOMAIN Task = 1 .. Len(Task) /\ Len(Task) \in Nat \ {0}
  BY <1>2 DEF WritesTo, ReadsFrom
<1> QED
  BY <1>1, <1>2, <1>3

\* The driver leaves the node alone, and writes what the call says.
LEMMA DriverEffect ==
    ASSUME NodeInv, DriverActs
    PROVE  /\ calling /\ busy["node"] /\ outcome["node"] = "busy"
           /\ task' = task /\ UNCHANGED <<node, loop, requests>>
           /\ \/ regs' = regs
              \/ /\ Task[Step].cmd = "write" /\ initialized
                 /\ regs' = [regs EXCEPT ![Motor] =
                                [regs[Motor] EXCEPT ![Task[Step].reg] = Task[Step].val]]
<1>1. busy["node"] /\ task' = task /\ UNCHANGED <<node, loop, requests>>
  BY DEF DriverActs, MotorWorks, DriverWorks, Driver!Apply, Driver!Answer, Driver!Succeed,
         Driver!Fail
<1>2. calling /\ outcome["node"] = "busy"
  BY <1>1 DEF NodeInv, ServiceTypes
<1>3. CASE initialized /\ Driver!Apply("node")
  <2>1. Task[Step].cmd = "write"
    BY <1>3 DEF Driver!Apply, Driver!Access, Task, Step
  <2>2. Task[Step].motor = Motor
    BY <1>2, <2>1, CurrentCall DEF WritesTo, ReadsFrom
  <2>3. regs' = [regs EXCEPT ![Task[Step].motor] =
                   [regs[Task[Step].motor] EXCEPT ![Task[Step].reg] = Task[Step].val]]
    BY <1>3 DEF Driver!Apply, Driver!Access, Task, Step
  <2> QED
    BY <1>1, <1>2, <1>3, <2>1, <2>2, <2>3
<1>4. CASE Driver!Answer("node") \/ Driver!Succeed("node") \/ Driver!Fail("node")
  BY <1>1, <1>2, <1>4 DEF Driver!Answer, Driver!Succeed, Driver!Fail
<1> QED
  BY <1>3, <1>4 DEF DriverActs, MotorWorks, DriverWorks

\* The registers of the other motors stay, and most of this one's.
LEMMA DriverWrites ==
    ASSUME NodeInv, DriverActs
    PROVE  /\ regs' \in [Motors -> [Regs -> Int]]
           /\ \A m \in Motors : m # Motor => regs'[m] = regs[m]
           /\ phase = "update" => regs' = regs
           /\ \A r \in Regs : regs'[Motor][r] # regs[Motor][r] =>
                /\ initialized /\ Task[Step].cmd = "write"
                /\ r = Task[Step].reg /\ regs'[Motor][r] = Task[Step].val
           /\ Task[Step].cmd = "read" => regs' = regs
<1>1. /\ calling /\ regs \in [Motors -> [Regs -> Int]]
  BY DriverEffect DEF NodeInv, ServiceTypes
<1>2. Motor \in Motors /\ Step \in DOMAIN Task
  BY <1>1, CurrentCall
<1>3. CASE regs' = regs
  BY <1>1, <1>2, <1>3
<1>4. CASE regs' # regs
  <2>1. /\ Task[Step].cmd = "write" /\ initialized
        /\ regs' = [regs EXCEPT ![Motor] =
                      [regs[Motor] EXCEPT ![Task[Step].reg] = Task[Step].val]]
    BY <1>4, DriverEffect
  <2>2. phase # "update"
    BY <1>1, <1>2, <2>1, CurrentCall DEF ReadsFrom
  <2>3. Task[Step].reg \in Regs /\ Task[Step].val \in Int
    BY <1>1, <1>2, <2>2, CurrentCall DEF WritesTo
  <2>4. regs[Motor] \in [Regs -> Int]
    BY <1>1, <1>2
  <2>5. [regs[Motor] EXCEPT ![Task[Step].reg] = Task[Step].val] \in [Regs -> Int]
    BY <2>3, <2>4
  <2>6. regs' \in [Motors -> [Regs -> Int]]
    BY <1>1, <1>2, <2>1, <2>5
  <2>7. regs'[Motor] = [regs[Motor] EXCEPT ![Task[Step].reg] = Task[Step].val]
    BY <1>1, <1>2, <2>1
  <2>8. \A m \in Motors : m # Motor => regs'[m] = regs[m]
    BY <1>1, <2>1
  <2>9. \A r \in Regs : regs'[Motor][r] # regs[Motor][r] =>
           r = Task[Step].reg /\ regs'[Motor][r] = Task[Step].val
    BY <2>3, <2>4, <2>7
  <2> QED
    BY <2>1, <2>2, <2>6, <2>8, <2>9
<1> QED
  BY <1>3, <1>4

\* What a call has written stays written while the call lasts.
LEMMA AppliedStays ==
    ASSUME NodeInv, DriverActs, NEW s \in DOMAIN Task, Task[s].cmd = "write", Applied(s)
    PROVE  Applied(s)'
<1>1. calling /\ task' = task
  BY DriverEffect
<1>2. /\ Motor \in Motors /\ Step \in DOMAIN Task /\ DOMAIN Task = 1 .. Len(Task)
      /\ Len(Task) \in Nat \ {0}
  BY <1>1, CurrentCall
<1>3. phase # "update"
  BY <1>1, CurrentCall DEF ReadsFrom
<1>4. WritesTo(Task, Motor)
  BY <1>1, <1>3, CurrentCall
<1>5. Task[s].motor = Motor /\ Task[s].reg \in Regs
  BY <1>4 DEF WritesTo
<1>6. regs[Motor][Task[s].reg] = Task[s].val
  BY <1>5 DEF Applied
<1>7. CASE regs'[Motor][Task[s].reg] = regs[Motor][Task[s].reg]
  BY <1>1, <1>5, <1>6, <1>7 DEF Applied, Task
<1>8. CASE regs'[Motor][Task[s].reg] # regs[Motor][Task[s].reg]
  <2>1. /\ Task[s].reg = Task[Step].reg
        /\ regs'[Motor][Task[s].reg] = Task[Step].val
    BY <1>5, <1>8, DriverWrites
  <2>2. s = Step
    BY <1>2, <1>4, <2>1 DEF WritesTo
  <2> QED
    BY <1>1, <1>5, <2>1, <2>2 DEF Applied, Task
<1> QED
  BY <1>7, <1>8

LEMMA DriverKeepsTypes ==
    ASSUME NodeInv, DriverActs
    PROVE  ServiceTypes'
<1>1. /\ ServiceTypes /\ calling /\ calling' = calling
      /\ regs' \in [Motors -> [Regs -> Int]]
      /\ busy["node"] /\ outcome["node"] = "busy" /\ task' = task
  BY DriverEffect, DriverWrites DEF NodeInv, loop
<1>2. CASE Driver!Apply("node")
  BY <1>1, <1>2 DEF ServiceTypes, Driver!Apply
<1>3. CASE Driver!Answer("node")
  BY <1>1, <1>3 DEF ServiceTypes, Driver!Answer
<1>4. CASE Driver!Succeed("node")
  BY <1>1, <1>4 DEF ServiceTypes, Driver!Succeed, Driver!MoveOn, Driver!Return
<1>5. CASE Driver!Fail("node")
  BY <1>1, <1>5 DEF ServiceTypes, Driver!Fail, Driver!MoveOn, Driver!Return
<1> QED
  BY <1>2, <1>3, <1>4, <1>5 DEF DriverActs, MotorWorks, DriverWorks

LEMMA MoveOnSteps ==
    ASSUME NodeInv, calling, busy["node"], Driver!MoveOn("node"), task' = task
    PROVE  /\ Step' \in DOMAIN Task
           /\ \A s \in DOMAIN Task : s < Step' \/ outcome'["node"] = "ok" => s <= Step
<1>1. /\ DOMAIN Task = 1 .. Len(Task) /\ Len(Task) \in Nat \ {0} /\ Step \in DOMAIN Task
  BY CurrentCall
<1>2. /\ "node" \in DOMAIN step /\ "node" \in DOMAIN outcome /\ outcome["node"] = "busy"
  BY DEF NodeInv, ServiceTypes
<1>3. CASE step["node"] = Len(task["node"])
  <2>1. Step' = Step
    BY <1>3 DEF Driver!MoveOn, Driver!Return, Step
  <2> QED
    BY <1>1, <1>3, <2>1 DEF Step, Task
<1>4. CASE step["node"] # Len(task["node"])
  <2>1. Step' = Step + 1 /\ outcome' = outcome
    BY <1>2, <1>4 DEF Driver!MoveOn, Step
  <2> QED
    BY <1>1, <1>2, <1>4, <2>1 DEF Step, Task
<1> QED
  BY <1>3, <1>4

LEMMA DriverKeepsCall ==
    ASSUME NodeInv, DriverActs
    PROVE  CallInv'
<1>1. /\ calling /\ busy["node"] /\ outcome["node"] = "busy" /\ task' = task /\ Task' = Task
      /\ UNCHANGED <<calling, phase, index, motor_ids, argument, timely>>
  BY DriverEffect DEF node, loop, Task
<1>2. /\ phase \in Loops /\ index \in Turns /\ Task = CallOf(motor_ids[index], index)
      /\ Step \in DOMAIN Task /\ DOMAIN got["node"] = DOMAIN Task
      /\ \A s \in done["node"] :
           s \in DOMAIN Task /\ (timely /\ Task[s].cmd = "write" => Applied(s))
      /\ \A s \in DOMAIN Task : Task[s].must /\ s < Step => Finished(s)
      /\ sample["node"] # NoVals =>
           /\ Task[Step].cmd = "read"
           /\ Task[Step].must => sample["node"] = ContentOf(Task[Step])
  BY <1>1 DEF NodeInv, CallInv
<1>3. DOMAIN Task = 1 .. Len(Task) /\ Len(Task) \in Nat \ {0}
  BY <1>1, CurrentCall
<1>4. /\ phase' \in Loops /\ index' \in Turns' /\ Task' = CallOf(motor_ids[index], index)'
  BY <1>1, <1>2 DEF Turns, CallOf
<1>5. /\ "node" \in DOMAIN task /\ "node" \in DOMAIN step /\ "node" \in DOMAIN busy
      /\ "node" \in DOMAIN got /\ "node" \in DOMAIN outcome
      /\ "node" \in DOMAIN done /\ "node" \in DOMAIN sample
  BY DEF NodeInv, ServiceTypes
<1>6. \A s \in done["node"] :
        s \in DOMAIN Task /\ (timely /\ Task[s].cmd = "write" => Applied(s)')
  BY <1>2, AppliedStays
<1>7. regs' = regs => \A s \in DOMAIN Task : ContentOf(Task[s])' = ContentOf(Task[s])
  BY <1>1 DEF ContentOf, Driver!Content
\* The parts of the invariant that the step may disturb.
<1> DEFINE Rest ==
             /\ Step' \in DOMAIN Task /\ DOMAIN got'["node"] = DOMAIN Task
             /\ \A s \in done'["node"] :
                  s \in DOMAIN Task /\ (timely /\ Task[s].cmd = "write" => Applied(s)')
             /\ \A s \in DOMAIN Task :
                  Task[s].must /\ (s < Step' \/ outcome'["node"] = "ok") => Finished(s)'
             /\ sample'["node"] # NoVals =>
                  /\ Task[Step'].cmd = "read"
                  /\ Task[Step'].must => sample'["node"] = ContentOf(Task[Step])'
<1> SUFFICES Rest
  BY <1>1, <1>4 DEF CallInv
<1>8. CASE Driver!Apply("node")
  <2>1. /\ Task[Step].cmd = "write" /\ Step' = Step
        /\ done'["node"] = done["node"] \cup {Step}
        /\ UNCHANGED <<got, outcome, sample>>
        /\ regs' = [regs EXCEPT ![Task[Step].motor][Task[Step].reg] = Task[Step].val]
    BY <1>5, <1>8 DEF Driver!Apply, Driver!Access, Task, Step
  <2>2. phase # "update"
    BY <1>1, <1>2, <2>1, CurrentCall DEF ReadsFrom
  <2>3. WritesTo(Task, Motor) /\ Motor \in Motors
    BY <1>1, <2>2, CurrentCall
  <2>4. /\ Task[Step].reg \in Regs /\ Task[Step].motor = Motor
    BY <1>2, <2>3 DEF WritesTo
  <2>5. regs \in [Motors -> [Regs -> Int]]
    BY DEF NodeInv, ServiceTypes
  <2>6. Applied(Step)'
    BY <1>1, <2>1, <2>3, <2>4, <2>5 DEF Applied
  <2>7. \A s \in DOMAIN Task : Task[s].cmd = "write"
    BY <2>3 DEF WritesTo
  <2>8. \A s \in DOMAIN Task : Finished(s) => Finished(s)'
    BY <1>1, <2>7, AppliedStays DEF Finished
  <2>9. sample["node"] = NoVals
    BY <1>2, <2>1
  <2> QED
    BY <1>1, <1>2, <1>6, <2>1, <2>6, <2>8, <2>9
<1>9. CASE Driver!Answer("node")
  <2>1. /\ Task[Step].cmd = "read" /\ Step' = Step
        /\ UNCHANGED <<got, outcome, done, regs>>
        /\ sample'["node"] = Driver!Content(Task[Step].motor, Task[Step].reg, Task[Step].count)
    BY <1>5, <1>9 DEF Driver!Answer, Driver!Access, Task, Step
  <2>2. sample'["node"] = ContentOf(Task[Step])'
    BY <1>1, <1>2, <1>7, <2>1 DEF ContentOf
  <2>3. \A s \in DOMAIN Task : Finished(s) => Finished(s)'
    BY <1>1, <1>7, <2>1 DEF Finished, Applied
  <2> QED
    BY <1>1, <1>2, <1>6, <2>1, <2>2, <2>3
<1>10. CASE Driver!Succeed("node")
  <2>1. /\ Driver!MoveOn("node") /\ regs' = regs /\ done' = done /\ sample'["node"] = NoVals
    BY <1>5, <1>10 DEF Driver!Succeed
  <2>2. /\ Step' \in DOMAIN Task
        /\ \A s \in DOMAIN Task : s < Step' \/ outcome'["node"] = "ok" => s <= Step
    BY <1>1, <2>1, MoveOnSteps
  <2>3. \/ Task[Step].cmd = "write" /\ Step \in done["node"] /\ got' = got
        \/ /\ Task[Step].cmd = "read" /\ sample["node"] # NoVals
           /\ got' = [got EXCEPT !["node"][Step] = sample["node"]]
    BY <1>10 DEF Driver!Succeed, Driver!Access, Task, Step
  <2>4. /\ DOMAIN got'["node"] = DOMAIN Task
        /\ \A s \in DOMAIN Task : s # Step => got'["node"][s] = got["node"][s]
        /\ Task[Step].cmd = "read" => got'["node"][Step] = sample["node"]
    BY <1>2, <1>5, <2>3
  <2>5. \A s \in DOMAIN Task : s # Step /\ Finished(s) => Finished(s)'
    BY <1>1, <1>7, <2>1, <2>4 DEF Finished, Applied
  <2>7. \A s \in DOMAIN Task : s = Step /\ Task[s].must => Finished(s)'
    BY <1>1, <1>2, <1>6, <1>7, <2>1, <2>3, <2>4 DEF Finished
  <2>8. \A s \in DOMAIN Task : s <= Step => s < Step \/ s = Step
    BY <1>2, <1>3
  <2> QED
    BY <1>1, <1>2, <1>6, <2>1, <2>2, <2>4, <2>5, <2>7, <2>8
<1>11. CASE Driver!Fail("node")
  <2>1. /\ regs' = regs /\ done' = done /\ got' = got /\ sample'["node"] = NoVals
    BY <1>5, <1>11 DEF Driver!Fail
  <2>2. \A s \in DOMAIN Task : Finished(s) => Finished(s)'
    BY <1>1, <1>7, <2>1 DEF Finished, Applied
  <2>3. CASE Task[Step].must
    <3>1. Step' = Step /\ outcome'["node"] = "failed"
      BY <1>5, <1>11, <2>3 DEF Driver!Fail, Driver!Access, Driver!Return, Task, Step
    <3> QED
      BY <1>1, <1>2, <1>6, <2>1, <2>2, <3>1
  <2>4. CASE ~Task[Step].must
    <3>1. Driver!MoveOn("node")
      BY <1>11, <2>4 DEF Driver!Fail, Driver!Access, Task, Step
    <3>2. /\ Step' \in DOMAIN Task
          /\ \A s \in DOMAIN Task : s < Step' \/ outcome'["node"] = "ok" => s <= Step
      BY <1>1, <3>1, MoveOnSteps
    <3>3. \A s \in DOMAIN Task : s <= Step => s < Step \/ s = Step
      BY <1>2, <1>3
    <3> QED
      BY <1>1, <1>2, <1>6, <2>1, <2>2, <2>4, <3>2, <3>3
  <2> QED
    BY <2>3, <2>4
<1> QED
  BY <1>8, <1>9, <1>10, <1>11 DEF DriverActs, MotorWorks, DriverWorks

LEMMA DriverKeepsNode ==
    ASSUME NodeInv, DriverActs
    PROVE  NodeInv'
<1>1. /\ calling /\ task' = task /\ UNCHANGED <<node, loop, requests>>
  BY DriverEffect
<1>2. /\ phase \in Loops /\ index \in Turns /\ Motor \in Motors /\ Step \in DOMAIN Task
      /\ TypeOK /\ Task = CallOf(Motor, index)
  BY <1>1, CurrentCall DEF NodeInv, CallInv, Motor
<1>3. ServiceTypes' /\ CallInv'
  BY DriverKeepsTypes, DriverKeepsCall
<1>4. TypeOK' /\ OpenInv' /\ QueueInv'
  BY <1>1 DEF node, loop, requests, NodeInv, TypeOK, OpenInv, QueueInv
<1>5. \A i \in Turns : motor_ids[i] \in Motors
  BY <1>2 DEF TypeOK, Turns
<1>6. phase \in {"destroy", "enable"} =>
        Step = 1 /\ Task[1].reg = SYS_ENABLE_DRIVER
  BY <1>2, TurnCall DEF Motor
<1>7. ASSUME NEW i \in Turns, phase \in {"destroy", "enable"}
      PROVE  EnableOf(i)' = EnableOf(i) \/ EnableOf(i)' = Task[1].val
  <2>1. EnableOf(i)' = regs'[motor_ids[i]][SYS_ENABLE_DRIVER]
    BY <1>1 DEF EnableOf, node
  <2>2. CASE motor_ids[i] = Motor
    BY <1>6, <1>7, <2>1, <2>2, DriverWrites, RegsAssumption DEF EnableOf
  <2>3. CASE motor_ids[i] # Motor
    BY <1>5, <2>1, <2>3, DriverWrites DEF EnableOf
  <2> QED
    BY <2>2, <2>3
<1>8. DestroyInv'
  <2>1. phase = "destroy" => Task[1].val = 0
    BY <1>2, TurnCall DEF Motor
  <2>2. /\ timely' = timely /\ phase' = phase /\ index' = index /\ failed' = failed
        /\ Turns' = Turns
    BY <1>1 DEF node, loop, Turns
  <2> QED
    BY <1>7, <2>1, <2>2 DEF NodeInv, DestroyInv
<1>9. MotorsOffAtExit'
  BY <1>1, <1>2 DEF MotorsOffAtExit, loop, Loops, Callbacks
<1>10. EnableInv'
  <2>1. phase = "enable" => Task[1].val = IF argument THEN 1 ELSE 0
    BY <1>2, TurnCall DEF Motor
  <2>2. /\ success' = success /\ phase' = phase /\ index' = index /\ argument' = argument
        /\ timely' = timely /\ Turns' = Turns
    BY <1>1 DEF node, loop, Turns
  <2> QED
    BY <1>7, <2>1, <2>2 DEF NodeInv, EnableInv
<1>11. UpdateInv'
  <2>1. phase = "update" => regs' = regs
    BY DriverWrites
  <2>2. phase' = phase /\ states' = states /\ motor_ids' = motor_ids /\ Turns' = Turns
    BY <1>1 DEF node, loop, Turns
  <2> QED
    BY <2>1, <2>2 DEF NodeInv, UpdateInv
<1> QED
  BY <1>3, <1>4, <1>8, <1>9, <1>10, <1>11 DEF NodeInv

LEMMA DriverKeepsTargets ==
    ASSUME NodeInv, TargetInv, DriverActs
    PROVE  TargetInv'
<1>1. /\ calling /\ task' = task /\ UNCHANGED <<node, loop, requests>>
  BY DriverEffect
<1>2. /\ phase \in Loops /\ index \in Turns /\ Motor \in Motors /\ Step \in DOMAIN Task
      /\ TypeOK /\ Task = CallOf(Motor, index)
  BY <1>1, CurrentCall DEF NodeInv, CallInv, Motor
<1>3. \A i \in Turns : motor_ids[i] \in Motors
  BY <1>2 DEF TypeOK, Turns
<1>4. /\ phase' = phase /\ index' = index /\ argument' = argument /\ failed' = failed
      /\ missed' = missed /\ commands' = commands /\ last_command' = last_command
      /\ timely' = timely /\ motor_ids' = motor_ids /\ Turns' = Turns
  BY <1>1 DEF node, loop, requests, Turns
<1>5. Distinct'
  BY <1>4 DEF TargetInv, Distinct
<1>6. ASSUME NEW i \in Turns, regs'[motor_ids[i]] = regs[motor_ids[i]]
      PROVE  TargetOf(i)' = TargetOf(i)
  BY <1>4, <1>6 DEF TargetOf, Int32At
<1>7. CommandInv'
  <2>1. ASSUME phase = "command", NEW i \in Turns, i < index
        PROVE  TargetOf(i)' = TargetOf(i)
    <3>1. motor_ids[i] # Motor
      <4>1. index \in Int
        BY <1>2 DEF TypeOK
      <4>2. i # index
        BY <2>1, <4>1
      <4> QED
        BY <1>2, <4>2 DEF TargetInv, Distinct, Motor
    <3> QED
      BY <1>3, <1>6, <3>1, DriverWrites
  <2> QED
    BY <1>4, <2>1 DEF TargetInv, CommandInv
<1>8. LatestInv'
  <2>1. ASSUME phase # "command", NEW i \in Turns
        PROVE  TargetOf(i)' = TargetOf(i)
    <3>1. CASE motor_ids[i] # Motor
      BY <1>3, <1>6, <3>1, DriverWrites
    <3>2. CASE motor_ids[i] = Motor
      <4>1. Task[Step].cmd = "write" =>
              Task[Step].reg \notin {TAG_POSITION_L, TAG_POSITION_L + 1}
        <5>1. phase = "update" => Task[Step].cmd = "read"
          BY <1>2, TurnCall DEF ReadsFrom, Motor
        <5>2. phase \notin {"update", "command"} =>
                Task[Step].reg = SYS_ENABLE_DRIVER \/ Task[Step].reg = SYS_SET_ZERO_POS
          BY <1>2, TurnCall DEF Motor, Loops, Callbacks
        <5> QED
          BY <2>1, <5>1, <5>2
             DEF SYS_ENABLE_DRIVER, SYS_SET_ZERO_POS, TAG_POSITION_L
      <4>2. /\ regs'[Motor][TAG_POSITION_L] = regs[Motor][TAG_POSITION_L]
            /\ regs'[Motor][TAG_POSITION_L + 1] = regs[Motor][TAG_POSITION_L + 1]
        BY <4>1, DriverWrites, RegsAssumption
      <4> QED
        BY <1>4, <3>2, <4>2 DEF TargetOf, Int32At
    <3> QED
      BY <3>1, <3>2
  <2> QED
    BY <1>4, <2>1 DEF TargetInv, LatestInv
<1> QED
  BY <1>5, <1>7, <1>8 DEF TargetInv

-----------------------------------------------------------------------------
(* A call returns *)

LEMMA ReturnedOk ==
    ASSUME NodeInv, calling, outcome["node"] = "ok"
    PROVE  /\ TypeOK /\ phase \in Loops /\ index \in Turns /\ Motor \in Motors
           /\ Task = CallOf(Motor, index)
           /\ \A s \in DOMAIN Task : Task[s].must => Finished(s)
BY CurrentCall DEF NodeInv, CallInv, Motor

LEMMA EnableReturned ==
    ASSUME NodeInv, timely, calling, outcome["node"] = "ok",
           phase \in {"destroy", "enable"}
    PROVE  EnableOf(index) = Task[1].val
<1>1. /\ DOMAIN Task = 1 .. 1 /\ Task[1].reg = SYS_ENABLE_DRIVER /\ WritesTo(Task, Motor)
  BY ReturnedOk, TurnCall DEF Motor
<1>2. 1 \in DOMAIN Task /\ Task[1].cmd = "write" /\ Task[1].must /\ Task[1].motor = Motor
  BY <1>1 DEF WritesTo
<1>3. Applied(1)
  BY <1>2, ReturnedOk DEF Finished
<1> QED
  BY <1>1, <1>2, <1>3 DEF Applied, EnableOf, Motor

\* The halves of a 32-bit number, joined, are the number.
LEMMA Joined ==
    ASSUME NEW low \in Int, NEW high \in Int, -32768 <= high, high < 32768
    PROVE  Unpack(low, high % 65536) = 65536 * high + low
<1>1. /\ high % 65536 = IF high >= 0 THEN high ELSE high + 65536
      /\ high % 65536 \in Int
  BY SMT
<1>2. Signed(high % 65536) = high
  BY <1>1, SMT DEF Signed
<1>3. ASSUME NEW h, Signed(h) = high
      PROVE  Unpack(low, h) = 65536 * high + low
  <2>1. Unpack(low, h) = high * 65536 + low
    BY <1>3 DEF Unpack
  <2> QED
    BY <2>1
<1> QED
  BY <1>2, <1>3

LEMMA Division ==
    ASSUME NEW v \in Int
    PROVE  v \div 65536 \in Int /\ v % 65536 \in Int /\ v = 65536 * (v \div 65536) + (v % 65536)
<1>1. PICK high \in Int : high = v \div 65536
  BY SMT
<1>2. PICK low \in Int : low = v % 65536
  BY SMT
<1>3. v = 65536 * high + low
  BY <1>1, <1>2, SMT
<1> QED
  BY <1>1, <1>2, <1>3

LEMMA HalvesJoined ==
    ASSUME NEW v \in Int, -32768 <= v \div 65536, v \div 65536 < 32768
    PROVE  Unpack(v % 65536, (v \div 65536) % 65536) = v
BY Division, Joined

LEMMA TargetReturned ==
    ASSUME NodeInv, timely, calling, outcome["node"] = "ok", phase = "command"
    PROVE  TargetOf(index) = argument[index]
<1>1. /\ DOMAIN Task = 1 .. 2 /\ WritesTo(Task, Motor)
      /\ Task[1].reg = TAG_POSITION_L /\ Task[1].val = argument[index] % 65536
      /\ Task[2].reg = TAG_POSITION_L + 1
      /\ Task[2].val = (argument[index] \div 65536) % 65536
  BY ReturnedOk, TurnCall DEF Motor
<1>2. /\ 1 \in DOMAIN Task /\ Task[1].cmd = "write" /\ Task[1].must /\ Task[1].motor = Motor
      /\ 2 \in DOMAIN Task /\ Task[2].cmd = "write" /\ Task[2].must /\ Task[2].motor = Motor
  BY <1>1 DEF WritesTo
<1>3. Applied(1) /\ Applied(2)
  BY <1>2, ReturnedOk DEF Finished
<1>4. TargetOf(index) = Unpack(argument[index] % 65536, (argument[index] \div 65536) % 65536)
  BY <1>1, <1>2, <1>3 DEF Applied, TargetOf, Int32At, Motor
<1>5. /\ argument \in Commands /\ argument \in Seq(Int) /\ index \in DOMAIN argument
  <2>1. argument \in Commands /\ Len(argument) = Len(motor_ids) /\ motor_ids \in Seq(Motors)
    BY ReturnedOk DEF TypeOK
  <2>2. argument \in Seq(Int)
    BY <2>1, CommandsAssumption
  <2> QED
    BY <2>1, <2>2, ReturnedOk DEF Turns
<1>6. argument[index] \in Int
  BY <1>5
<1>7. -32768 <= argument[index] \div 65536 /\ argument[index] \div 65536 < 32768
  BY <1>5, TargetsAssumption
<1> QED
  BY <1>4, <1>6, <1>7, HalvesJoined

LEMMA MotionReturned ==
    ASSUME NodeInv, calling, outcome["node"] = "ok", phase = "update"
    PROVE  /\ Motion(got["node"][1]) = MotionAt(regs[Motor])
           /\ MotionAt(regs[Motor]) \in [current : Int, speed : Int, position : Int]
<1>1. ReadsFrom(Task, Motor) /\ Motor \in Motors
  BY ReturnedOk, TurnCall DEF Motor
<1>2. /\ 1 \in DOMAIN Task /\ Task[1].cmd = "read" /\ Task[1].must
      /\ Task[1].motor = Motor /\ Task[1].reg = CUR_CURRENT_L /\ Task[1].count = 6
  BY <1>1 DEF ReadsFrom
<1>3. got["node"][1] = Driver!Content(Motor, CUR_CURRENT_L, 6)
  BY <1>2, ReturnedOk DEF Finished, ContentOf
<1> DEFINE v == got["node"][1]
           rf == regs[Motor]
<1>4. v = [i \in 1 .. 6 |-> rf[16 + i - 1]]
  BY <1>3 DEF Driver!Content, CUR_CURRENT_L
<1> HIDE DEF v
<1>5. /\ v[1] = rf[16] /\ v[2] = rf[17] /\ v[3] = rf[18]
      /\ v[4] = rf[19] /\ v[5] = rf[20] /\ v[6] = rf[21]
  BY <1>4
<1>6. Motion(v) = MotionAt(rf)
  BY <1>5 DEF Motion, MotionAt, Int32At, CUR_CURRENT_L, CUR_SPEED_L, CUR_POSITION_L
<1>7. rf \in [Regs -> Int]
  BY <1>1 DEF NodeInv, ServiceTypes
<1>8. \A r \in 16 .. 21 : rf[r] \in Int
  BY <1>7, RegsAssumption DEF CUR_CURRENT_L
<1> HIDE DEF rf
<1>9. \A low, high \in Int : Unpack(low, high) \in Int
  BY DEF Unpack, Signed
<1>10. /\ Int32At(rf, CUR_CURRENT_L) \in Int /\ Int32At(rf, CUR_SPEED_L) \in Int
       /\ Int32At(rf, CUR_POSITION_L) \in Int
  <2>1. /\ Int32At(rf, CUR_CURRENT_L) = Unpack(rf[16], rf[17])
        /\ Int32At(rf, CUR_SPEED_L) = Unpack(rf[18], rf[19])
        /\ Int32At(rf, CUR_POSITION_L) = Unpack(rf[20], rf[21])
    BY DEF Int32At, CUR_CURRENT_L, CUR_SPEED_L, CUR_POSITION_L
  <2>2. /\ rf[16] \in Int /\ rf[17] \in Int /\ rf[18] \in Int
        /\ rf[19] \in Int /\ rf[20] \in Int /\ rf[21] \in Int
    BY <1>8
  <2> QED
    BY <1>9, <2>1, <2>2
<1>11. MotionAt(rf) \in [current : Int, speed : Int, position : Int]
  BY <1>10 DEF MotionAt
<1> QED
  BY <1>6, <1>11 DEF v, rf

\* What the loop makes of a result.
LEMMA ReturnEffect ==
    ASSUME NodeInv, CallReturns
    PROVE  /\ calling /\ calling' = FALSE /\ index' = index + 1
           /\ success' => success /\ outcome["node"] = "ok"
           /\ success' \in BOOLEAN
           /\ phase # "update" => states' = states
           /\ outcome["node"] # "ok" => states' = states
           /\ phase = "update" /\ outcome["node"] = "ok" =>
                states' = Append(states, <<Motor, MotionAt(regs[Motor])>>)
           /\ failed' = failed \/ failed' = failed \cup {index}
           /\ initialized => outcome["node"] = "ok" \/ failed' = failed \cup {index}
           /\ UNCHANGED <<regs, node, phase, argument, missed, requests>>
<1>1. calling
  BY DEF CallReturns
<1>2. outcome["node"] = "ok" /\ phase = "update" =>
        Motion(got["node"][1]) = MotionAt(regs[Motor])
  BY <1>1, MotionReturned
<1>3. /\ calling' = FALSE /\ index' = index + 1
      /\ success' = (success /\ outcome["node"] = "ok")
      /\ failed' = IF outcome["node"] = "ok" \/ ~initialized THEN failed
                   ELSE failed \cup {index}
      /\ UNCHANGED <<regs, node, phase, argument, missed, requests>>
  BY DEF CallReturns, NextTurn, AllSuccess
<1>4. states' = IF outcome["node"] = "ok" /\ phase = "update"
               THEN Append(states, <<Motor, Motion(got["node"][1])>>) ELSE states
  BY DEF CallReturns, Motor
<1> QED
  BY <1>1, <1>2, <1>3, <1>4

LEMMA ForgetTypes ==
    ASSUME Forget, ~calling', regs' \in [Motors -> [Regs -> Int]]
    PROVE  ServiceTypes' /\ CallInv'
<1>1. /\ "node" \in DOMAIN task' /\ "node" \in DOMAIN step' /\ "node" \in DOMAIN busy'
      /\ "node" \in DOMAIN got' /\ "node" \in DOMAIN outcome'
      /\ "node" \in DOMAIN done' /\ "node" \in DOMAIN sample'
      /\ busy'["node"] = FALSE
  BY DEF Forget, OfNode
<1> QED
  BY <1>1 DEF ServiceTypes, CallInv

LEMMA ReturnKeepsNode ==
    ASSUME NodeInv, CallReturns
    PROVE  NodeInv'
<1>1. /\ calling /\ calling' = FALSE /\ index' = index + 1 /\ success' \in BOOLEAN
      /\ UNCHANGED <<regs, node, phase, argument, missed, requests>>
  BY ReturnEffect
<1>2. TypeOK /\ phase \in Loops /\ index \in Turns /\ Motor \in Motors
  BY <1>1, CurrentCall DEF NodeInv
<1>3. /\ motor_ids' = motor_ids /\ timely' = timely /\ Turns' = Turns
  BY <1>1 DEF node, Turns
<1>4. Turns = 1 .. Len(motor_ids) /\ Len(motor_ids) \in Nat /\ index \in Nat
  BY <1>2 DEF TypeOK, Turns
<1>5. ServiceTypes' /\ CallInv'
  BY <1>1, ForgetTypes DEF CallReturns, NodeInv, ServiceTypes
<1>6. TypeOK'
  <2>1. index' \in 1 .. Len(motor_ids) + 1
    BY <1>1, <1>2, <1>4
  <2>2. failed' \subseteq DOMAIN motor_ids
    BY <1>2, ReturnEffect DEF TypeOK, Turns
  <2>3. states' \in Seq(Motors \X [current : Int, speed : Int, position : Int])
    <3>1. CASE states' = states
      BY <1>2, <3>1 DEF TypeOK
    <3>2. CASE states' # states
      <4>1. /\ phase = "update" /\ outcome["node"] = "ok"
            /\ states' = Append(states, <<Motor, MotionAt(regs[Motor])>>)
        BY <3>2, ReturnEffect
      <4>2. MotionAt(regs[Motor]) \in [current : Int, speed : Int, position : Int]
        BY <1>1, <4>1, MotionReturned
      <4>3. <<Motor, MotionAt(regs[Motor])>>
              \in Motors \X [current : Int, speed : Int, position : Int]
        BY <1>2, <4>2
      <4>4. states \in Seq(Motors \X [current : Int, speed : Int, position : Int])
        BY <1>2 DEF TypeOK
      <4> QED
        BY <4>1, <4>3, <4>4
    <3> QED
      BY <3>1, <3>2
  <2> QED
    BY <1>1, <1>2, <2>1, <2>2, <2>3 DEF TypeOK, node, requests
<1>7. OpenInv' /\ QueueInv' /\ MotorsOffAtExit'
  BY <1>1, <1>2 DEF NodeInv, OpenInv, QueueInv, MotorsOffAtExit, Loops, Callbacks, node, requests
<1>8. ASSUME NEW i \in Turns
      PROVE  EnableOf(i)' = EnableOf(i) /\ (i < index' => i < index \/ i = index)
  BY <1>1, <1>3, <1>4 DEF EnableOf
<1>9. timely /\ outcome["node"] = "ok" /\ phase \in {"destroy", "enable"} =>
        EnableOf(index) = Task[1].val
  BY <1>1, EnableReturned
<1>10. /\ phase = "destroy" => Task[1].val = 0
       /\ phase = "enable" => Task[1].val = IF argument THEN 1 ELSE 0
  <2>1. Task = CallOf(Motor, index)
    BY <1>1 DEF NodeInv, CallInv, Motor
  <2> QED
    BY <1>2, <2>1, TurnCall DEF Motor
<1>11. DestroyInv'
  <2>1. phase = "destroy" => initialized
    BY DEF NodeInv, OpenInv, Loops
  <2>2. /\ failed \subseteq failed'
        /\ timely /\ phase = "destroy" => index \in failed' \/ EnableOf(index) = 0
    BY <1>9, <1>10, <2>1, ReturnEffect
  <2> QED
    BY <1>1, <1>3, <1>8, <2>2 DEF NodeInv, DestroyInv, node
<1>12. EnableInv'
  <2>1. success' => success /\ outcome["node"] = "ok"
    BY ReturnEffect
  <2> QED
    BY <1>1, <1>3, <1>8, <1>9, <1>10, <2>1 DEF NodeInv, EnableInv
<1>13. UpdateInv'
  <2>1. CASE states' = states
    BY <1>1, <1>3, <2>1 DEF NodeInv, UpdateInv
  <2>2. CASE phase = "update" /\ states' # states
    <3>1. states' = Append(states, <<Motor, MotionAt(regs[Motor])>>)
      BY <2>2, ReturnEffect
    <3>2. states \in Seq(Motors \X [current : Int, speed : Int, position : Int])
      BY <1>2 DEF TypeOK
    <3>3. \A s \in DOMAIN states' :
            \/ s \in DOMAIN states /\ states'[s] = states[s]
            \/ states'[s] = <<Motor, MotionAt(regs[Motor])>>
      BY <3>1, <3>2
    <3>4. \A s \in DOMAIN states' :
            /\ \E i \in Turns : motor_ids[i] = states'[s][1]
            /\ states'[s][2] = MotionAt(regs[states'[s][1]])
      BY <1>2, <2>2, <3>3 DEF NodeInv, UpdateInv, Motor
    <3> QED
      BY <1>1, <1>3, <3>4 DEF UpdateInv
  <2>3. CASE phase # "update"
    BY <1>1, <2>3 DEF UpdateInv
  <2> QED
    BY <2>1, <2>2, <2>3
<1> QED
  BY <1>5, <1>6, <1>7, <1>11, <1>12, <1>13 DEF NodeInv

LEMMA ReturnKeepsTargets ==
    ASSUME NodeInv, TargetInv, CallReturns
    PROVE  TargetInv'
<1>1. /\ calling /\ index' = index + 1
      /\ UNCHANGED <<regs, node, phase, argument, missed, requests>>
  BY ReturnEffect
<1>2. TypeOK /\ phase \in Loops /\ index \in Turns
  BY <1>1, CurrentCall DEF NodeInv
<1>3. motor_ids' = motor_ids /\ timely' = timely /\ Turns' = Turns
  BY <1>1 DEF node, Turns
<1>4. Turns = 1 .. Len(motor_ids) /\ Len(motor_ids) \in Nat /\ index \in Nat
  BY <1>2 DEF TypeOK, Turns
<1>5. ASSUME NEW i \in Turns
      PROVE  TargetOf(i)' = TargetOf(i) /\ (i < index' => i < index \/ i = index)
  BY <1>1, <1>3, <1>4 DEF TargetOf, Int32At
<1>6. Distinct' /\ LatestInv'
  BY <1>1, <1>3, <1>5 DEF TargetInv, Distinct, LatestInv, requests
<1>7. CommandInv'
  <2>1. phase = "command" => initialized
    BY DEF NodeInv, OpenInv, Loops, Callbacks
  <2>2. timely /\ outcome["node"] = "ok" /\ phase = "command" => TargetOf(index) = argument[index]
    BY <1>1, TargetReturned
  <2>3. /\ failed \subseteq failed'
        /\ timely /\ phase = "command" => index \in failed' \/ TargetOf(index) = argument[index]
    BY <2>1, <2>2, ReturnEffect
  <2> QED
    BY <1>1, <1>3, <1>5, <2>3 DEF TargetInv, CommandInv
<1> QED
  BY <1>6, <1>7 DEF TargetInv

-----------------------------------------------------------------------------
(* The other steps of the node *)

LEMMA NoCall ==
    ASSUME NodeInv, phase \notin Loops
    PROVE  ~calling
BY DEF NodeInv, CallInv

LEMMA CallKeeps ==
    ASSUME NodeInv, Call
    PROVE  NodeInv' /\ (TargetInv => TargetInv')
<1>1. /\ phase \in Loops /\ index <= Len(motor_ids) /\ calling' = TRUE
      /\ UNCHANGED <<node, phase, index, states, success, argument, failed, missed, requests>>
      /\ regs' = regs
  BY DEF Call, Driver!Invoke
<1>2. TypeOK /\ ServiceTypes
  BY DEF NodeInv
<1>3. index \in Turns
  BY <1>1, <1>2 DEF TypeOK, Turns
<1> DEFINE T == CallOf(motor_ids[index], index)
<1>4. DOMAIN T = 1 .. Len(T) /\ Len(T) \in Nat \ {0}
  BY <1>1, <1>2, <1>3, TurnCall DEF WritesTo, ReadsFrom
<1> HIDE DEF T
<1>5. /\ "node" \in DOMAIN task' /\ "node" \in DOMAIN step' /\ "node" \in DOMAIN busy'
      /\ "node" \in DOMAIN got' /\ "node" \in DOMAIN outcome'
      /\ "node" \in DOMAIN done' /\ "node" \in DOMAIN sample'
      /\ Task' = T /\ Step' = 1 /\ DOMAIN got'["node"] = DOMAIN T
      /\ outcome'["node"] = "busy" /\ done'["node"] = {} /\ sample'["node"] = NoVals
  BY <1>2 DEF Call, Driver!Invoke, ServiceTypes, Task, Step, T
<1>6. ServiceTypes'
  BY <1>1, <1>2, <1>5 DEF ServiceTypes
<1>7. Task' = CallOf(motor_ids[index], index)'
  BY <1>1, <1>5 DEF node, T, CallOf
<1>8. Step' \in DOMAIN T /\ \A s \in DOMAIN T : ~(s < Step')
  BY <1>4, <1>5
<1>9. index' \in Turns' /\ phase' \in Loops
  BY <1>1, <1>3 DEF Turns, node
<1>10. CallInv'
  BY <1>5, <1>7, <1>8, <1>9 DEF CallInv
<1>11. TypeOK' /\ OpenInv' /\ QueueInv'
  BY <1>1, <1>2 DEF TypeOK, NodeInv, OpenInv, QueueInv, node, requests
<1>12. DestroyInv' /\ MotorsOffAtExit' /\ EnableInv' /\ UpdateInv'
  BY <1>1 DEF NodeInv, DestroyInv, MotorsOffAtExit, EnableInv, UpdateInv, EnableOf, Turns, node
<1>13. TargetInv => TargetInv'
  BY <1>1 DEF TargetInv, Distinct, CommandInv, LatestInv, TargetOf, Turns, node, requests
<1> QED
  BY <1>6, <1>10, <1>11, <1>12, <1>13 DEF NodeInv

LEMMA ServiceKept ==
    ASSUME NodeInv, ~calling, UNCHANGED service, calling' = FALSE
    PROVE  ServiceTypes' /\ CallInv'
BY DEF NodeInv, ServiceTypes, CallInv, service

\* A new loop has done nothing yet.
LEMMA EnterKeeps ==
    ASSUME NodeInv, ~calling, UNCHANGED <<service, timely, motor_ids>>,
           index' = 1, states' = << >>, calling' = FALSE
    PROVE  /\ ServiceTypes' /\ CallInv'
           /\ DestroyInv' /\ EnableInv' /\ UpdateInv' /\ CommandInv'
<1>1. ServiceTypes' /\ CallInv'
  BY ServiceKept
<1>2. Turns' = 1 .. Len(motor_ids)
  BY DEF NodeInv, TypeOK, Turns
<1>3. \A i \in Turns' : ~(i < index')
  BY <1>2
<1>4. DestroyInv' /\ EnableInv' /\ CommandInv'
  BY <1>3 DEF DestroyInv, EnableInv, CommandInv
<1>5. UpdateInv'
  BY DEF UpdateInv
<1> QED
  BY <1>1, <1>4, <1>5

\* A step that has to do with no command.
LEMMA PlainKeeps ==
    ASSUME NodeInv, ~calling,
           UNCHANGED <<service, timely, motor_ids, joint_names, missed, commands, last_command>>,
           index' = 1, states' = << >>, calling' = FALSE, success' = TRUE, failed' = {},
           phase # "command",
           phase' \in {"start", "ready", "destroy", "update", "enable", "reset", "spin"},
           initialized' \in BOOLEAN, shutdown' \in BOOLEAN,
           enable_request' \in BOOLEAN \cup {NoRequest},
           phase' = "enable" => argument' \in BOOLEAN,
           OpenInv'
    PROVE  NodeInv' /\ (TargetInv => TargetInv')
<1>1. /\ ServiceTypes' /\ CallInv'
      /\ DestroyInv' /\ EnableInv' /\ UpdateInv' /\ CommandInv'
  BY EnterKeeps
<1>2. TypeOK'
  <2>1. /\ motor_ids \in Seq(Motors) /\ commands \in Seq(Commands) /\ Len(commands) <= Depth
        /\ last_command \in Commands \cup {NoCommand} /\ missed \subseteq DOMAIN motor_ids
        /\ timely \in BOOLEAN
    BY DEF NodeInv, TypeOK
  <2>2. index' \in 1 .. Len(motor_ids) + 1
    BY <2>1
  <2>3. states' \in Seq(Motors \X [current : Int, speed : Int, position : Int])
    OBVIOUS
  <2> QED
    BY <2>1, <2>2, <2>3 DEF TypeOK, Loops, Callbacks
<1>3. QueueInv' /\ MotorsOffAtExit'
  BY DEF NodeInv, QueueInv, MotorsOffAtExit
<1>4. TargetInv => TargetInv'
  <2>1. regs' = regs /\ Turns' = Turns
    BY DEF service, Turns
  <2> QED
    BY <1>1, <2>1 DEF TargetInv, Distinct, LatestInv, TargetOf
<1> QED
  BY <1>1, <1>2, <1>3, <1>4 DEF NodeInv

LEMMA RejectKeeps ==
    ASSUME NodeInv, Reject
    PROVE  NodeInv' /\ (TargetInv => TargetInv')
<1>1. /\ phase = "construct" /\ phase' = "ready" /\ shutdown' = TRUE
      /\ index' = 1 /\ states' = << >> /\ calling' = FALSE /\ success' = TRUE /\ failed' = {}
      /\ UNCHANGED <<service, node, missed, commands, enable_request, last_command>>
  BY DEF Reject, Enter
<1>2. ~calling
  BY <1>1, NoCall DEF Loops, Callbacks
<1>3. OpenInv'
  BY <1>1 DEF NodeInv, OpenInv, Loops, Callbacks, node
<1> QED
  BY <1>1, <1>2, <1>3, PlainKeeps DEF NodeInv, TypeOK, node

LEMMA ConstructKeeps ==
    ASSUME NodeInv, Construct
    PROVE  NodeInv' /\ (TargetInv => TargetInv')
<1>1. /\ phase = "construct" /\ phase' = "start" /\ initialized' = TRUE
      /\ index' = 1 /\ states' = << >> /\ calling' = FALSE /\ success' = TRUE /\ failed' = {}
      /\ UNCHANGED <<service, timely, motor_ids, joint_names, missed, requests>>
  BY DEF Construct, Enter
<1>2. ~calling
  BY <1>1, NoCall DEF Loops, Callbacks
<1>3. OpenInv'
  BY <1>1 DEF OpenInv
<1> QED
  BY <1>1, <1>2, <1>3, PlainKeeps DEF NodeInv, TypeOK, requests

LEMMA DestroyKeeps ==
    ASSUME NodeInv, Destroy
    PROVE  NodeInv' /\ (TargetInv => TargetInv')
<1>1. /\ phase = "spin" /\ phase' = "destroy"
      /\ index' = 1 /\ states' = << >> /\ calling' = FALSE /\ success' = TRUE /\ failed' = {}
      /\ UNCHANGED <<service, node, missed, requests>>
  BY DEF Destroy, Enter
<1>2. ~calling
  BY <1>1, NoCall DEF Loops, Callbacks
<1>3. OpenInv'
  BY <1>1 DEF NodeInv, OpenInv, Loops, Callbacks, node
<1> QED
  BY <1>1, <1>2, <1>3, PlainKeeps DEF NodeInv, TypeOK, node, requests

LEMMA EndStartKeeps ==
    ASSUME NodeInv, EndStart \/ StartSpin
    PROVE  NodeInv' /\ (TargetInv => TargetInv')
<1>1. /\ phase \in {"start", "ready"} /\ ~shutdown /\ phase' \in {"ready", "spin"}
      /\ index' = 1 /\ states' = << >> /\ calling' = FALSE /\ success' = TRUE /\ failed' = {}
      /\ UNCHANGED <<service, node, missed, requests>>
  BY DEF EndStart, StartSpin, LoopEnds, Enter
<1>2. ~calling
  BY NoCall DEF EndStart, StartSpin, LoopEnds, Loops, Callbacks
<1>3. OpenInv'
  BY <1>1 DEF NodeInv, OpenInv, Loops, Callbacks, node
<1> QED
  BY <1>1, <1>2, <1>3, PlainKeeps DEF NodeInv, TypeOK, node, requests

LEMMA EndLoopKeeps ==
    ASSUME NodeInv, EndReset \/ EndUpdate
    PROVE  NodeInv' /\ (TargetInv => TargetInv')
<1>1. /\ phase \in {"reset", "update"} /\ ~calling /\ phase' = "spin"
      /\ index' = 1 /\ states' = << >> /\ calling' = FALSE /\ success' = TRUE /\ failed' = {}
      /\ UNCHANGED <<service, node, missed, requests>>
  BY DEF EndReset, EndUpdate, LoopEnds, Enter
<1>2. OpenInv'
  BY <1>1 DEF NodeInv, OpenInv, Loops, Callbacks, node
<1> QED
  BY <1>1, <1>2, PlainKeeps DEF NodeInv, TypeOK, node, requests

LEMMA EndEnableKeeps ==
    ASSUME NodeInv, EndEnable
    PROVE  NodeInv' /\ (TargetInv => TargetInv')
<1>1. /\ phase = "enable" /\ ~calling /\ phase' = "spin" /\ enable_request' = NoRequest
      /\ index' = 1 /\ states' = << >> /\ calling' = FALSE /\ success' = TRUE /\ failed' = {}
      /\ UNCHANGED <<service, node, missed, commands, shutdown, last_command>>
  BY DEF EndEnable, LoopEnds, Enter
<1>2. OpenInv'
  BY <1>1 DEF NodeInv, OpenInv, Loops, Callbacks, node
<1> QED
  BY <1>1, <1>2, PlainKeeps DEF NodeInv, TypeOK, node

LEMMA StartPlainKeeps ==
    ASSUME NodeInv, StartUpdate \/ StartReset \/ StartEnable
    PROVE  NodeInv' /\ (TargetInv => TargetInv')
<1>1. /\ phase = "spin" /\ ~shutdown /\ phase' \in {"update", "reset", "enable"}
      /\ phase' = "enable" => argument' = enable_request /\ enable_request # NoRequest
      /\ index' = 1 /\ states' = << >> /\ calling' = FALSE /\ success' = TRUE /\ failed' = {}
      /\ UNCHANGED <<service, node, missed, shutdown, last_command, commands, enable_request>>
  BY DEF StartUpdate, StartReset, StartEnable, StartCallback, Enter
<1>2. ~calling
  BY <1>1, NoCall DEF Loops, Callbacks
<1>3. OpenInv'
  BY <1>1 DEF NodeInv, OpenInv, Loops, Callbacks, node
<1>4. phase' = "enable" => argument' \in BOOLEAN
  BY <1>1 DEF NodeInv, TypeOK
<1> QED
  BY <1>1, <1>2, <1>3, <1>4, PlainKeeps DEF NodeInv, TypeOK, node

\* A step that leaves the last loop behind: the process ends.
LEMMA LeaveKeeps ==
    ASSUME NodeInv, ~calling, phase # "command", phase' \in {"over", "aborted"},
           initialized' \in BOOLEAN,
           UNCHANGED <<service, timely, motor_ids, joint_names, index, calling, states, success,
                       argument, failed, missed, requests>>,
           MotorsOffAtExit'
    PROVE  NodeInv' /\ (TargetInv => TargetInv')
<1>1. TypeOK /\ regs' = regs /\ Turns' = Turns
  BY DEF NodeInv, service, Turns
<1>2. TypeOK' /\ OpenInv' /\ QueueInv'
  BY <1>1 DEF NodeInv, TypeOK, OpenInv, QueueInv, Loops, Callbacks, requests
<1>3. ServiceTypes' /\ CallInv'
  BY <1>1 DEF NodeInv, ServiceTypes, CallInv, service
<1>4. DestroyInv' /\ EnableInv' /\ UpdateInv' /\ CommandInv'
  BY DEF DestroyInv, EnableInv, UpdateInv, CommandInv
<1>5. TargetInv => TargetInv'
  BY <1>1, <1>4 DEF TargetInv, Distinct, LatestInv, TargetOf, requests
<1> QED
  BY <1>2, <1>3, <1>4, <1>5 DEF NodeInv

LEMMA DeinitKeeps ==
    ASSUME NodeInv, Deinit
    PROVE  NodeInv' /\ (TargetInv => TargetInv')
<1>1. /\ phase = "destroy" /\ ~calling /\ index > Len(motor_ids) /\ phase' = "over"
      /\ initialized' = FALSE
      /\ UNCHANGED <<service, timely, motor_ids, joint_names, index, calling, states, success,
                     argument, failed, missed, requests>>
  BY DEF Deinit, LoopEnds
<1>2. TypeOK /\ regs' = regs
  BY <1>1 DEF NodeInv, service
<1>3. \A i \in Turns : i < index
  BY <1>1, <1>2 DEF TypeOK, Turns
<1>4. MotorsOffAtExit'
  BY <1>1, <1>2, <1>3 DEF NodeInv, DestroyInv, MotorsOffAtExit, EnableOf, Turns
<1> QED
  BY <1>1, <1>4, LeaveKeeps

LEMMA ThrowKeeps ==
    ASSUME NodeInv, Throw
    PROVE  NodeInv' /\ (TargetInv => TargetInv')
<1>1. /\ phase \in {"start", "ready"} /\ ~calling /\ phase' = "aborted"
      /\ UNCHANGED <<service, node, index, calling, states, success, argument, failed,
                     missed, requests>>
  BY NoCall DEF Throw, LoopEnds, Loops, Callbacks
<1>2. MotorsOffAtExit'
  BY <1>1 DEF MotorsOffAtExit
<1> QED
  BY <1>1, <1>2, LeaveKeeps DEF NodeInv, TypeOK, node

\* The oldest command leaves the queue.
LEMMA TailQueue ==
    ASSUME NEW q \in Seq(Commands), q # << >>
    PROVE  /\ Head(q) \in Commands /\ Tail(q) \in Seq(Commands) /\ Len(Tail(q)) = Len(q) - 1
           /\ Tail(q) = << >> => Head(q) = q[Len(q)]
           /\ Tail(q) # << >> => Tail(q)[Len(Tail(q))] = q[Len(q)]
<1>1. /\ Head(q) \in Commands /\ Tail(q) \in Seq(Commands) /\ Len(Tail(q)) = Len(q) - 1
      /\ Len(q) \in Nat \ {0} /\ Head(q) = q[1]
      /\ \A i \in 1 .. Len(Tail(q)) : Tail(q)[i] = q[i + 1]
  BY HeadTailProperties, EmptySeq
<1> DEFINE r == Tail(q)
<1> HIDE DEF r
<1>2. r = << >> => Len(r) = 0
  BY EmptySeq
<1>3. r # << >> => Len(r) \in Nat \ {0}
  BY <1>1, EmptySeq DEF r
<1>4. r = << >> => Head(q) = q[Len(q)]
  BY <1>1, <1>2 DEF r
<1>5. r # << >> => r[Len(r)] = q[Len(q)]
  BY <1>1, <1>3 DEF r
<1> QED
  BY <1>1, <1>4, <1>5 DEF r

LEMMA StartCommandKeeps ==
    ASSUME NodeInv, StartCommand
    PROVE  NodeInv' /\ (TargetInv => TargetInv')
<1>1. /\ phase = "spin" /\ commands # << >> /\ commands' = Tail(commands)
      /\ index' = 1 /\ states' = << >> /\ calling' = FALSE /\ success' = TRUE /\ failed' = {}
      /\ UNCHANGED <<service, node, missed, shutdown, last_command, enable_request>>
      /\ \/ /\ Len(Head(commands)) = Len(motor_ids)
            /\ phase' = "command" /\ argument' = Head(commands) /\ ~shutdown
         \/ Len(Head(commands)) # Len(motor_ids) /\ phase' = "spin"
  BY DEF StartCommand, StartCallback, Enter
<1>2. ~calling
  BY <1>1, NoCall DEF Loops, Callbacks
<1>3. TypeOK /\ commands \in Seq(Commands)
  BY DEF NodeInv, TypeOK
<1>4. /\ ServiceTypes' /\ CallInv'
      /\ DestroyInv' /\ EnableInv' /\ UpdateInv' /\ CommandInv'
  BY <1>1, <1>2, EnterKeeps DEF node
<1>5. OpenInv' /\ MotorsOffAtExit'
  BY <1>1 DEF NodeInv, OpenInv, MotorsOffAtExit, Loops, Callbacks, node
<1>6. /\ Head(commands) \in Commands /\ Tail(commands) \in Seq(Commands)
      /\ Len(Tail(commands)) = Len(commands) - 1
  BY <1>1, <1>3, TailQueue
<1>7. TypeOK'
  <2>1. Len(commands') <= Depth
    BY <1>1, <1>3, <1>6, NodeAssumption DEF TypeOK
  <2>2. index' \in 1 .. Len(motor_ids) + 1
    BY <1>1, <1>3 DEF TypeOK
  <2>3. states' \in Seq(Motors \X [current : Int, speed : Int, position : Int])
    BY <1>1
  <2>4. phase' \in Loops \cup {"spin"} /\ phase' # "enable"
    BY <1>1 DEF Loops, Callbacks
  <2> QED
    BY <1>1, <1>3, <1>6, <2>1, <2>2, <2>3, <2>4 DEF TypeOK, node
<1>8. last_command = commands[Len(commands)] /\ last_command # NoCommand
  BY <1>1 DEF NodeInv, QueueInv
<1>9. QueueInv'
  <2>1. commands' # << >> => last_command' = commands'[Len(commands')]
    BY <1>1, <1>3, <1>8, TailQueue
  <2>2. commands' = << >> => Head(commands) = last_command'
    BY <1>1, <1>3, <1>8, TailQueue
  <2> QED
    BY <1>1, <1>8, <2>1, <2>2 DEF QueueInv
<1>10. TargetInv => TargetInv'
  <2>1. LatestInv'
    <3>1. commands' = << >> => Head(commands) = last_command'
      BY <1>1, <1>3, <1>8, TailQueue
    <3>2. commands' = << >> /\ phase' # "command" => Len(last_command') # Len(motor_ids')
      BY <1>1, <3>1 DEF node
    <3> QED
      BY <3>2 DEF LatestInv
  <2> QED
    BY <1>1, <1>4, <2>1 DEF TargetInv, Distinct, Turns, node
<1> QED
  BY <1>4, <1>5, <1>7, <1>9, <1>10 DEF NodeInv

LEMMA EndCommandKeeps ==
    ASSUME NodeInv, EndCommand
    PROVE  NodeInv' /\ (TargetInv => TargetInv')
<1>1. /\ phase = "command" /\ ~calling /\ index > Len(motor_ids) /\ phase' = "spin"
      /\ index' = 1 /\ states' = << >> /\ calling' = FALSE /\ success' = TRUE /\ failed' = {}
      /\ missed' = failed
      /\ UNCHANGED <<service, node, requests>>
  BY DEF EndCommand, LoopEnds, Enter
<1>2. TypeOK /\ Turns' = Turns /\ regs' = regs /\ motor_ids' = motor_ids
  BY <1>1 DEF NodeInv, Turns, node, service
<1>3. /\ ServiceTypes' /\ CallInv'
      /\ DestroyInv' /\ EnableInv' /\ UpdateInv' /\ CommandInv'
  BY <1>1, <1>2, EnterKeeps DEF node
<1>4. OpenInv' /\ MotorsOffAtExit' /\ QueueInv'
  BY <1>1 DEF NodeInv, OpenInv, MotorsOffAtExit, QueueInv, Loops, Callbacks, node, requests
<1>5. TypeOK'
  <2>1. index' \in 1 .. Len(motor_ids) + 1
    BY <1>1, <1>2 DEF TypeOK
  <2>2. states' \in Seq(Motors \X [current : Int, speed : Int, position : Int])
    BY <1>1
  <2> QED
    BY <1>1, <1>2, <2>1, <2>2 DEF TypeOK, node, requests
<1>6. \A i \in Turns : i < index
  BY <1>1, <1>2 DEF TypeOK, Turns
<1>7. TargetInv => LatestInv'
  <2>1. commands = << >> => argument = last_command
    BY <1>1 DEF NodeInv, QueueInv
  <2>2. TargetInv /\ timely => \A i \in Turns : i \in failed \/ TargetOf(i) = argument[i]
    BY <1>1, <1>6 DEF TargetInv, CommandInv
  <2>3. timely' = timely
    BY <1>1 DEF node
  <2> QED
    BY <1>1, <1>2, <2>1, <2>2, <2>3 DEF LatestInv, TargetOf, requests
<1> QED
  BY <1>2, <1>3, <1>4, <1>5, <1>7 DEF NodeInv, TargetInv, Distinct

\* The newest command is the last of the queue, also when the queue was full.
LEMMA KeepLastKeeps ==
    ASSUME NEW q \in Seq(Commands), Len(q) <= Depth, NEW c \in Commands
    PROVE  LET r == KeepLast(q, c)
           IN  r \in Seq(Commands) /\ Len(r) <= Depth /\ r # << >> /\ r[Len(r)] = c
<1>1. Depth \in Nat \ {0}
  BY NodeAssumption
<1>2. CASE Len(q) < Depth
  <2>1. /\ Append(q, c) \in Seq(Commands) /\ Len(Append(q, c)) = Len(q) + 1
        /\ Append(q, c) # << >> /\ Append(q, c)[Len(q) + 1] = c
    OBVIOUS
  <2> QED
    BY <1>1, <1>2, <2>1 DEF KeepLast
<1>3. CASE ~(Len(q) < Depth)
  <2>1. Len(q) = Depth /\ q # << >>
    BY <1>1, <1>3
  <2>2. Tail(q) \in Seq(Commands) /\ Len(Tail(q)) = Len(q) - 1
    BY <2>1, HeadTailProperties
  <2>3. /\ Append(Tail(q), c) \in Seq(Commands) /\ Len(Append(Tail(q), c)) = Len(Tail(q)) + 1
        /\ Append(Tail(q), c) # << >> /\ Append(Tail(q), c)[Len(Tail(q)) + 1] = c
    BY <2>2, AppendProperties
  <2> QED
    BY <1>1, <1>3, <2>1, <2>2, <2>3 DEF KeepLast
<1> QED
  BY <1>2, <1>3

\* A step of the robot or of nobody: the node and its motors stay as they are.
LEMMA RobotKeeps ==
    ASSUME NodeInv, Robot \/ UNCHANGED vars
    PROVE  NodeInv' /\ (TargetInv => TargetInv')
<1>1. /\ UNCHANGED <<service, node, loop>>
      /\ \/ UNCHANGED <<commands, last_command>>
         \/ \E c \in Commands : /\ commands' = KeepLast(commands, c) /\ last_command' = c
                               /\ UNCHANGED <<enable_request, shutdown>>
      /\ enable_request' = enable_request \/ enable_request' \in BOOLEAN
      /\ shutdown' = shutdown \/ shutdown' = TRUE
  BY DEF Robot, SendCommand, RequestEnable, Shutdown, vars, requests
<1>2. TypeOK /\ commands \in Seq(Commands) /\ Len(commands) <= Depth
  BY DEF NodeInv, TypeOK
<1>3. \/ commands' = commands /\ last_command' = last_command
      \/ /\ commands' \in Seq(Commands) /\ Len(commands') <= Depth /\ commands' # << >>
         /\ last_command' = commands'[Len(commands')]
         /\ last_command' \in Commands
  BY <1>1, <1>2, KeepLastKeeps
<1>4. TypeOK'
  <2>1. /\ commands' \in Seq(Commands) /\ Len(commands') <= Depth
        /\ last_command' \in Commands \cup {NoCommand}
    BY <1>2, <1>3 DEF TypeOK
  <2>2. enable_request' \in BOOLEAN \cup {NoRequest} /\ shutdown' \in BOOLEAN
    BY <1>1, <1>2 DEF TypeOK
  <2> QED
    BY <1>1, <1>2, <2>1, <2>2 DEF TypeOK, node, loop
<1>5. ServiceTypes' /\ CallInv'
  <2>1. ServiceTypes'
    BY <1>1 DEF NodeInv, ServiceTypes, service, loop
  <2>2. /\ Task' = Task /\ Step' = Step /\ Turns' = Turns
        /\ CallOf(motor_ids[index], index)' = CallOf(motor_ids[index], index)
    BY <1>1 DEF Task, Step, Turns, CallOf, service, loop, node
  <2>3. \A a : ContentOf(a)' = ContentOf(a)
    BY <1>1 DEF ContentOf, Driver!Content, service
  <2>4. \A s : Applied(s)' = Applied(s) /\ Finished(s)' = Finished(s)
    BY <1>1, <2>2, <2>3 DEF Finished, Applied, service, node
  <2>5. CallInv'
    BY <1>1, <2>2, <2>3, <2>4 DEF NodeInv, CallInv, service, loop, node
  <2> QED
    BY <2>1, <2>5
<1>6. OpenInv' /\ DestroyInv' /\ MotorsOffAtExit' /\ EnableInv' /\ UpdateInv'
  BY <1>1 DEF NodeInv, OpenInv, DestroyInv, MotorsOffAtExit, EnableInv, UpdateInv, EnableOf, Turns,
              service, loop, node
<1>7. QueueInv'
  BY <1>1, <1>3, CommandsAssumption DEF NodeInv, QueueInv, loop
<1>8. TargetInv => TargetInv'
  BY <1>1, <1>3 DEF TargetInv, Distinct, CommandInv, LatestInv, TargetOf, Turns, service, loop, node
<1> QED
  BY <1>4, <1>5, <1>6, <1>7, <1>8 DEF NodeInv

-----------------------------------------------------------------------------
(* Late answers and late writes *)

Written == {SYS_ENABLE_DRIVER, SYS_SET_ZERO_POS, TAG_POSITION_L, TAG_POSITION_L + 1}

LEMMA NodeWrites ==
    ASSUME NEW c \in NodeCalls, NEW s \in DOMAIN c, c[s].cmd = "write"
    PROVE  c[s].motor \in Motors /\ c[s].reg \in Written \cap Regs /\ c[s].val \in Int
<1>1. PICK m \in Motors :
        \/ c \in {EnableMotor(m, TRUE), EnableMotor(m, FALSE), GetJointState(m),
                  SetZeroPosition(m)}
        \/ \E v \in Targets : c = SetTargetPosition(m, Halves(v))
  BY DEF NodeCalls
<1>2. CASE c \in {EnableMotor(m, TRUE), EnableMotor(m, FALSE)}
  <2>1. PICK v \in Int : c = WriteRegister(m, SYS_ENABLE_DRIVER, v)
    BY <1>2 DEF EnableMotor
  <2>2. DOMAIN c = 1 .. 1 /\ WritesTo(c, m) /\ c[1].reg = SYS_ENABLE_DRIVER
    BY <2>1, OneWrite, RegsAssumption
  <2> QED
    BY <2>2 DEF WritesTo, Written
<1>3. CASE c = GetJointState(m)
  BY <1>3, StateReads DEF ReadsFrom
<1>4. CASE c = SetZeroPosition(m)
  <2>1. DOMAIN c = 1 .. 1 /\ WritesTo(c, m) /\ c[1].reg = SYS_SET_ZERO_POS
    BY <1>4, ZeroWrites
  <2> QED
    BY <2>1 DEF WritesTo, Written
<1>5. CASE \E v \in Targets : c = SetTargetPosition(m, Halves(v))
  <2>1. PICK v \in Targets : c = SetTargetPosition(m, Halves(v))
    BY <1>5
  <2>2. v \in Int
    BY CommandsAssumption DEF Targets
  <2>3. v % 65536 \in Int /\ (v \div 65536) % 65536 \in Int
    BY <2>2
  <2>4. /\ DOMAIN c = 1 .. 2 /\ WritesTo(c, m)
        /\ c[1].reg = TAG_POSITION_L /\ c[2].reg = TAG_POSITION_L + 1
    BY <2>1, <2>3, TargetWrites DEF Halves
  <2>5. s = 1 \/ s = 2
    BY <2>4
  <2> QED
    BY <2>4, <2>5 DEF WritesTo, Written
<1> QED
  BY <1>1, <1>2, <1>3, <1>4, <1>5

\* No late write touches the block that a state is read from.
LEMMA LateEffect ==
    ASSUME NodeInv, Late
    PROVE  /\ ~timely /\ regs' \in [Motors -> [Regs -> Int]]
           /\ \A m \in Motors : \A r \in 16 .. 21 : regs'[m][r] = regs[m][r]
           /\ UNCHANGED <<task, step, busy, got, outcome, sample, node, loop, requests>>
           /\ done' = done \/ done' = [done EXCEPT !["node"] = @ \cup {Step}]
           /\ done' # done => busy["node"]
<1>1. regs \in [Motors -> [Regs -> Int]]
  BY DEF NodeInv, ServiceTypes
<1>2. CASE LateAck
  BY <1>1, <1>2 DEF LateAck, Step
<1>3. CASE LateWrite
  <2>1. PICK c \in NodeCalls : \E s \in DOMAIN c :
          /\ c[s].cmd = "write"
          /\ regs' = [regs EXCEPT ![c[s].motor][c[s].reg] = c[s].val]
    BY <1>3 DEF LateWrite
  <2>2. PICK s \in DOMAIN c :
          /\ c[s].cmd = "write"
          /\ regs' = [regs EXCEPT ![c[s].motor][c[s].reg] = c[s].val]
    BY <2>1
  <2> DEFINE n == c[s].motor
             q == c[s].reg
             v == c[s].val
  <2>3. n \in Motors /\ q \in Written /\ q \in Regs /\ v \in Int
    BY <2>2, NodeWrites
  <2>4. regs' = [regs EXCEPT ![n] = [regs[n] EXCEPT ![q] = v]]
    BY <2>2
  <2> HIDE DEF n, q, v
  <2>5. regs[n] \in [Regs -> Int] /\ [regs[n] EXCEPT ![q] = v] \in [Regs -> Int]
    BY <1>1, <2>3
  <2>6. regs' \in [Motors -> [Regs -> Int]]
    BY <1>1, <2>3, <2>4, <2>5
  <2>7. q \notin 16 .. 21
    BY <2>3 DEF Written, SYS_ENABLE_DRIVER, SYS_SET_ZERO_POS, TAG_POSITION_L
  <2>8. \A r \in 16 .. 21 : r \in Regs
    BY RegsAssumption DEF CUR_CURRENT_L
  <2>9. ASSUME NEW m \in Motors, NEW r \in 16 .. 21
        PROVE  regs'[m][r] = regs[m][r]
    <3>1. r \in Regs /\ r # q
      BY <2>7, <2>8
    <3>2. CASE m = n
      BY <1>1, <2>3, <2>4, <2>5, <3>1, <3>2
    <3>3. CASE m # n
      BY <1>1, <2>4, <3>3
    <3> QED
      BY <3>2, <3>3
  <2> QED
    BY <1>3, <2>6, <2>9 DEF LateWrite
<1> QED
  BY <1>2, <1>3 DEF Late

LEMMA LateKeeps ==
    ASSUME NodeInv, Late
    PROVE  NodeInv' /\ (TargetInv => TargetInv')
<1>1. /\ ~timely /\ regs' \in [Motors -> [Regs -> Int]]
      /\ \A m \in Motors : \A r \in 16 .. 21 : regs'[m][r] = regs[m][r]
      /\ UNCHANGED <<task, step, busy, got, outcome, sample, node, loop, requests>>
  BY LateEffect
<1>2. timely' = timely /\ Turns' = Turns /\ Task' = Task /\ Step' = Step
  BY <1>1 DEF node, Turns, Task, Step
<1>3. TypeOK' /\ OpenInv' /\ QueueInv'
  BY <1>1 DEF NodeInv, TypeOK, OpenInv, QueueInv, node, loop, requests
<1>4. DestroyInv' /\ MotorsOffAtExit' /\ EnableInv' /\ CommandInv' /\ LatestInv'
  BY <1>1, <1>2 DEF DestroyInv, MotorsOffAtExit, EnableInv, CommandInv, LatestInv
<1>5. UpdateInv'
  <2>1. ASSUME phase = "update", NEW s \in DOMAIN states
        PROVE  /\ states[s][1] \in Motors
               /\ MotionAt(regs'[states[s][1]]) = MotionAt(regs[states[s][1]])
    <3>1. states[s][1] \in Motors
      BY <2>1 DEF NodeInv, TypeOK, UpdateInv, Turns
    <3>2. \A r \in 16 .. 21 : regs'[states[s][1]][r] = regs[states[s][1]][r]
      BY <1>1, <3>1
    <3> QED
      BY <3>1, <3>2 DEF MotionAt, Int32At, CUR_CURRENT_L, CUR_SPEED_L, CUR_POSITION_L
  <2> QED
    BY <1>1, <1>2, <2>1 DEF NodeInv, UpdateInv, loop, node
<1>6. ServiceTypes'
  BY <1>1, LateEffect DEF NodeInv, ServiceTypes, loop
<1>7. CallInv'
  <2>1. SUFFICES ASSUME calling
                 PROVE  CallInv'
    BY <1>1 DEF CallInv, loop
  <2>2. /\ phase' \in Loops /\ index' \in Turns'
        /\ Task' = CallOf(motor_ids[index], index)'
    BY <1>1, <1>2, <2>1 DEF NodeInv, CallInv, CallOf, loop, node
  <2>3. \A s \in done'["node"] : s \in DOMAIN Task
    BY <2>1, LateEffect DEF NodeInv, CallInv, ServiceTypes
  <2>4. ASSUME NEW s \in DOMAIN Task, Task[s].must, Task[s].cmd = "read"
        PROVE  ContentOf(Task[s])' = ContentOf(Task[s])
    <3>1. phase = "update" /\ s = 1
      BY <2>1, <2>4, CurrentCall DEF WritesTo, ReadsFrom
    <3>2. /\ Task[s].motor = Motor /\ Task[s].reg = CUR_CURRENT_L /\ Task[s].count = 6
          /\ Motor \in Motors
      BY <2>1, <3>1, CurrentCall DEF ReadsFrom
    <3>3. \A i \in 1 .. 6 : 16 + i - 1 \in 16 .. 21
      OBVIOUS
    <3>4. \A i \in 1 .. 6 : regs'[Motor][16 + i - 1] = regs[Motor][16 + i - 1]
      BY <1>1, <3>2, <3>3
    <3> QED
      BY <1>2, <3>2, <3>4 DEF ContentOf, Driver!Content, CUR_CURRENT_L
  <2>5. \A s \in DOMAIN Task : Task[s].must /\ Finished(s) => Finished(s)'
    BY <1>1, <1>2, <2>4 DEF Finished
  <2>6. Step \in DOMAIN Task
    BY <2>1 DEF NodeInv, CallInv
  <2> QED
    BY <1>1, <1>2, <2>1, <2>2, <2>3, <2>4, <2>5, <2>6 DEF NodeInv, CallInv
<1>8. TargetInv => TargetInv'
  BY <1>1, <1>2, <1>4 DEF TargetInv, Distinct, node
<1> QED
  BY <1>3, <1>4, <1>5, <1>6, <1>7, <1>8 DEF NodeInv

-----------------------------------------------------------------------------
(* The invariant *)

LEMMA InitInv ==
    ASSUME Init
    PROVE  NodeInv
<1>1. PICK p \in Parameters : /\ motor_ids = [i \in DOMAIN p.ids |-> Cast(p.ids[i])]
                              /\ joint_names = p.names /\ timely = p.timely
  BY DEF Init
<1>2. p.ids \in Seq(Int) /\ timely \in BOOLEAN
  BY <1>1, NodeAssumption
<1>3. \A i \in DOMAIN p.ids : Cast(p.ids[i]) \in Motors
  BY DEF Motors
<1>4. motor_ids \in Seq(Motors)
  <2>1. DOMAIN p.ids = 1 .. Len(p.ids) /\ Len(p.ids) \in Nat
    BY <1>2
  <2>2. motor_ids \in [1 .. Len(p.ids) -> Motors]
    BY <1>1, <1>3, <2>1
  <2> QED
    BY <2>1, <2>2
<1>5. /\ Idle /\ regs = [m \in Motors |-> InitialFile(m)]
      /\ initialized = FALSE
      /\ phase = "construct" /\ index = 1 /\ calling = FALSE
      /\ states = << >> /\ success = TRUE /\ argument = NoRequest /\ failed = {}
      /\ commands = << >> /\ enable_request = NoRequest /\ shutdown = FALSE
      /\ last_command = NoCommand /\ missed = {}
  BY DEF Init
<1>6. TypeOK
  <2>1. index \in 1 .. Len(motor_ids) + 1
    BY <1>4, <1>5
  <2>2. states \in Seq(Motors \X [current : Int, speed : Int, position : Int])
    BY <1>5
  <2>3. commands \in Seq(Commands) /\ Len(commands) <= Depth
    BY <1>5, NodeAssumption
  <2> QED
    BY <1>2, <1>4, <1>5, <2>1, <2>2, <2>3 DEF TypeOK
<1>7. ServiceTypes
  <2>1. regs \in [Motors -> [Regs -> Int]]
    BY <1>5, NodeAssumption
  <2> QED
    BY <1>5, <2>1 DEF ServiceTypes, Idle, OfNode
<1>8. CallInv /\ OpenInv /\ DestroyInv /\ MotorsOffAtExit /\ EnableInv /\ UpdateInv /\ QueueInv
  BY <1>5 DEF CallInv, OpenInv, DestroyInv, MotorsOffAtExit, EnableInv, UpdateInv, QueueInv,
              Loops, Callbacks
<1> QED
  BY <1>6, <1>7, <1>8 DEF NodeInv

\* No two parameters of one start name the same motor, cast to a byte.
DistinctIds ==
    \A p \in Parameters : \A i, j \in DOMAIN p.ids : Cast(p.ids[i]) = Cast(p.ids[j]) => i = j

LEMMA InitTargets ==
    ASSUME DistinctIds, Init
    PROVE  TargetInv
BY DEF Init, DistinctIds, TargetInv, Distinct, CommandInv, LatestInv, Turns

LEMMA NextKeeps ==
    ASSUME NodeInv, [Next]_vars
    PROVE  NodeInv' /\ (TargetInv => TargetInv')
<1>1. CASE MotorWorks \/ DriverWorks
  BY <1>1, DriverKeepsNode, DriverKeepsTargets DEF DriverActs
<1>2. CASE Call
  BY <1>2, CallKeeps
<1>3. CASE CallReturns
  BY <1>3, ReturnKeepsNode, ReturnKeepsTargets
<1>4. CASE Reject \/ Construct \/ Throw \/ Destroy \/ Deinit
  BY <1>4, RejectKeeps, ConstructKeeps, ThrowKeeps, DestroyKeeps, DeinitKeeps
<1>5. CASE EndStart \/ StartSpin \/ EndReset \/ EndUpdate \/ EndCommand \/ EndEnable
  BY <1>5, EndStartKeeps, EndLoopKeeps, EndCommandKeeps, EndEnableKeeps
<1>6. CASE Start
  BY <1>6, StartPlainKeeps, StartCommandKeeps DEF Start
<1>7. CASE Robot \/ UNCHANGED vars
  BY <1>7, RobotKeeps
<1>8. CASE Late
  BY <1>8, LateKeeps
<1> QED
  BY <1>1, <1>2, <1>3, <1>4, <1>5, <1>6, <1>7, <1>8 DEF Next, NodeStep

\* NodeInv holds in every reachable state: it is inductive.
THEOREM NodeInvariant == Spec => []NodeInv
BY InitInv, NextKeeps, PTL DEF Spec

-----------------------------------------------------------------------------
(* What the node guarantees *)

\* Every variable of the node keeps its type.
THEOREM NodeTypes == Spec => []TypeOK
<1>1. NodeInv => TypeOK
  BY DEF NodeInv
<1> QED
  BY <1>1, NodeInvariant, PTL

(***************************************************************************)
(* If answers are timely, ~WHJDriverNode leaves no motor enabled but those *)
(* whose disabling failed, for any number of motors, duplicates included.  *)
(* A node that a shutdown before spin aborts runs no destructor, and the   *)
(* theorem says nothing of it.                                             *)
(***************************************************************************)
THEOREM ExitDisables == Spec => []MotorsOffAtExit
<1>1. NodeInv => MotorsOffAtExit
  BY DEF NodeInv
<1> QED
  BY <1>1, NodeInvariant, PTL

(***************************************************************************)
(* If answers are timely, enableService answers with success only when     *)
(* every motor is as requested, whatever calls failed and whatever ran     *)
(* before the answer.  (The acknowledgement of an earlier write, late, can *)
(* pass for that of a write which never arrived.)                          *)
(***************************************************************************)
THEOREM SuccessIsTrue == Spec => SuccessMeansAll
<1>1. NodeInv /\ [Next]_vars =>
        [timely /\ EndEnable /\ success =>
           \A i \in DOMAIN motor_ids :
               regs[motor_ids[i]][SYS_ENABLE_DRIVER] = IF argument THEN 1 ELSE 0]_vars
  <2>1. SUFFICES ASSUME NodeInv, timely, EndEnable, success
                 PROVE  \A i \in Turns : EnableOf(i) = IF argument THEN 1 ELSE 0
    BY DEF Turns, EnableOf
  <2>2. phase = "enable" /\ index > Len(motor_ids)
    BY <2>1 DEF EndEnable, LoopEnds
  <2>3. \A i \in Turns : i < index
    BY <2>1, <2>2 DEF NodeInv, TypeOK, Turns
  <2> QED
    BY <2>1, <2>2, <2>3 DEF NodeInv, EnableInv
<1> QED
  BY <1>1, NodeInvariant, PTL DEF Spec, SuccessMeansAll

\* A set of numbers that is not empty has a least element.
LEMMA Least ==
    ASSUME NEW S, S \subseteq Nat, S # {}
    PROVE  \E x \in S : \A y \in S : ~(y < x)
<1>1. PICK x \in S : \A y \in S : ~(<<y, x>> \in OpToRel(<, Nat))
  BY NatLessThanWellFounded, WFMin
<1> QED
  BY <1>1 DEF OpToRel

(***************************************************************************)
(* Every name on joint_states stands with the motion of its own motor, for *)
(* any ids and names, whichever motors did not answer, and whether answers *)
(* are timely or not.                                                      *)
(***************************************************************************)
THEOREM NamesMatch == Spec => []JointsNamedRight
<1>1. ASSUME NodeInv
      PROVE  JointsNamedRight
  <2>1. SUFFICES ASSUME phase = "update", NEW s \in DOMAIN states
                 PROVE  \E i \in Turns : /\ NameOf(s) = joint_names[i]
                                        /\ states[s][2] = MotionAt(regs[motor_ids[i]])
    BY DEF JointsNamedRight, LoopEnds, Message, Turns
  <2> DEFINE S == {i \in Turns : motor_ids[i] = states[s][1]}
  <2>2. S # {} /\ states[s][2] = MotionAt(regs[states[s][1]])
    BY <1>1, <2>1 DEF NodeInv, UpdateInv
  <2>3. Turns = 1 .. Len(motor_ids) /\ Len(motor_ids) \in Nat
    BY <1>1 DEF NodeInv, TypeOK, Turns
  <2>4. S \subseteq Nat
    BY <2>3
  <2>5. PICK x \in S : \A y \in S : ~(y < x)
    BY <2>2, <2>4, Least
  <2> DEFINE First(i) == /\ motor_ids[i] = states[s][1]
                         /\ \A j \in 1 .. i - 1 : motor_ids[j] # states[s][1]
  <2>6. x \in Turns /\ First(x)
    BY <2>3, <2>5
  <2> DEFINE k == CHOOSE i \in Turns : First(i)
  <2>7. k \in Turns /\ First(k)
    BY <2>6
  <2>8. NameOf(s) = joint_names[k]
    BY DEF NameOf, Turns
  <2> QED
    BY <2>2, <2>7, <2>8
<1> QED
  BY <1>1, NodeInvariant, PTL

(***************************************************************************)
(* If answers are timely: when the queue is empty and no command is in     *)
(* hand, every motor that was reached has the target of the newest         *)
(* command, for any queue depth, if no motor is named twice.               *)
(***************************************************************************)
THEOREM NewestWins == ASSUME DistinctIds PROVE Spec => []LatestCommand
<1>1. Init => TargetInv
  BY InitTargets
<1>2. NodeInv /\ TargetInv /\ [Next]_vars => TargetInv'
  BY NextKeeps
<1>3. TargetInv => LatestCommand
  BY DEF TargetInv, LatestInv, LatestCommand, TargetOf, Turns
<1> QED
  BY <1>1, <1>2, <1>3, NodeInvariant, PTL DEF Spec
=============================================================================
