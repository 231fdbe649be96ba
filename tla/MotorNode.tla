------------------------------ MODULE MotorNode ------------------------------
(***************************************************************************)
(* The ROS 2 node (src/src/ros2/whj_driver_node.cpp) over the driver.  Its *)
(* constructor, the callbacks that rclcpp::spin runs one at a time, and    *)
(* its destructor are loops over motor_ids_ with a call of the driver in   *)
(* each turn.  The driver is RegisterService, which WHJDriver implements   *)
(* for a single caller if answers are timely: a call may take effect and   *)
(* fail all the same.  If answers may be late, a write may also succeed    *)
(* without effect, by the acknowledgement of an earlier write, and a write *)
(* may take effect after its call.                                         *)
(*                                                                         *)
(* Once rclcpp has been shut down, creating publishers, services and       *)
(* timers, and spin, throw.  Nothing catches that: the process is aborted, *)
(* without the destructor.                                                 *)
(***************************************************************************)
EXTENDS DriverValues

CONSTANTS
    Parameters,     \* [ids, names, timely]: parameters the node may be started with,
                    \* and whether every answer then arrives in time
    Commands,       \* position commands: a 32-bit target for each motor
    Depth,          \* depth of the command subscription (10)
    Regs, Vals, InitialFile(_),
    NoRequest, NoCommand, NoVals

\* static_cast<uint8_t>(id)
Cast(id) == id % 256

Motors == UNION {{Cast(p.ids[i]) : i \in DOMAIN p.ids} : p \in Parameters}

Targets == UNION {{c[i] : i \in DOMAIN c} : c \in Commands}

NodeCalls ==
    UNION {{EnableMotor(m, TRUE), EnableMotor(m, FALSE), GetJointState(m), SetZeroPosition(m)}
             \cup {SetTargetPosition(m, Halves(v)) : v \in Targets} : m \in Motors}

ASSUME NodeAssumption ==
    /\ Depth \in Nat \ {0}
    /\ \A p \in Parameters : p.ids \in Seq(Int) /\ p.timely \in BOOLEAN
    /\ NoRequest \notin BOOLEAN
    /\ \A m \in Motors : InitialFile(m) \in [Regs -> Int]

ASSUME CommandsAssumption == (\A c \in Commands : c \in Seq(Int)) /\ NoCommand \notin Commands

\* int32_t
ASSUME TargetsAssumption ==
    \A c \in Commands : \A i \in DOMAIN c :
        -32768 <= c[i] \div 65536 /\ c[i] \div 65536 < 32768

\* The registers the node's calls access
ASSUME RegsAssumption ==
    /\ \A r \in CUR_CURRENT_L .. CUR_CURRENT_L + 5 : r \in Regs
    /\ SYS_ENABLE_DRIVER \in Regs /\ SYS_SET_ZERO_POS \in Regs
    /\ TAG_POSITION_L \in Regs /\ TAG_POSITION_L + 1 \in Regs

VARIABLES
    task, step, busy, got, outcome, regs, done, sample, \* the driver and the motors
    initialized,    \* driver_ is initialised
    motor_ids, joint_names,
    timely,         \* of the network: never changes
    phase,          \* "construct", "start", "ready", "spin", a callback, "destroy",
                    \* "over", "aborted"
    index,          \* the loop over motor_ids_
    calling,        \* is a call of the driver in progress?
    states,         \* the local variables states, success and msg or request
    success,
    argument,
    commands,       \* queue of the subscription
    enable_request, \* the request to enable_motors without a response
    shutdown,       \* has rclcpp been shut down?
    last_command,   \* history: the last command sent
    failed,         \* history: turns of the last loop in which the motor's call failed
    missed          \* history: the same of the last command

service  == <<task, step, busy, got, outcome, regs, done, sample>>
node     == <<initialized, timely, motor_ids, joint_names>>
loop     == <<phase, index, calling, states, success, argument, failed, missed>>
requests == <<commands, enable_request, shutdown, last_command>>
vars     == <<service, node, loop, requests>>

OfNode(v) == [t \in {"node"} |-> v]

Driver == INSTANCE RegisterService
    WITH Threads <- {"node"}, Sensors <- {}, Calls <- OfNode(NodeCalls)

Callbacks == {"update", "command", "enable", "reset"}
Loops == Callbacks \cup {"start", "destroy"}

\* Next uses none of the operators marked (bug).

-----------------------------------------------------------------------------
(* The loops *)

\* No call is in progress, and there is none after this step.
Idle ==
    /\ task = OfNode(<< >>) /\ step = OfNode(1) /\ busy = OfNode(FALSE)
    /\ got = OfNode(<< >>) /\ outcome = OfNode("none")
    /\ done = OfNode({}) /\ sample = OfNode(NoVals)

Forget ==
    /\ task' = OfNode(<< >>) /\ step' = OfNode(1) /\ busy' = OfNode(FALSE)
    /\ got' = OfNode(<< >>) /\ outcome' = OfNode("none")
    /\ done' = OfNode({}) /\ sample' = OfNode(NoVals)

\* The local variables are new, also those of a driver's call.
Enter(place, value) ==
    /\ phase' = place
    /\ index' = 1
    /\ argument' = value
    /\ success' = TRUE
    /\ states' = << >>
    /\ failed' = {}
    /\ calling' = FALSE

\* The call a loop makes for motor m in turn i.
CallOf(m, i) ==
    CASE phase = "start"   -> EnableMotor(m, TRUE)
      [] phase = "destroy" -> EnableMotor(m, FALSE)
      [] phase = "update"  -> GetJointState(m)
      [] phase = "command" -> SetTargetPosition(m, Halves(argument[i]))
      [] phase = "enable"  -> EnableMotor(m, argument)
      [] phase = "reset"   -> SetZeroPosition(m)

Call ==
    /\ phase \in Loops
    /\ ~calling
    /\ index <= Len(motor_ids)
    /\ Driver!Invoke("node")
    /\ task'["node"] = CallOf(motor_ids[index], index)
    /\ calling' = TRUE
    /\ UNCHANGED <<node, phase, index, states, success, argument, failed, missed, requests>>

\* What the motors do for a call.
MotorWorks ==
    /\ initialized
    /\ Driver!Apply("node") \/ Driver!Answer("node")
    /\ UNCHANGED <<node, loop, requests>>

\* The driver is through with a register access; one that is not initialised fails.
DriverWorks ==
    /\ (initialized /\ Driver!Succeed("node")) \/ Driver!Fail("node")
    /\ UNCHANGED <<node, loop, requests>>

\* The write in progress is taken to be done for a late acknowledgement of an
\* earlier one, whatever that wrote.
LateAck ==
    /\ ~timely /\ initialized
    /\ busy["node"] /\ Driver!Access("node").cmd = "write"
    /\ done' = [done EXCEPT !["node"] = @ \cup {step["node"]}]
    /\ UNCHANGED <<task, step, busy, got, outcome, regs, sample, node, loop, requests>>

\* A write reaches its motor late, when its call is over.  Reads need no such
\* action: the registers that the node reads are none of those it writes.
LateWrite ==
    /\ ~timely /\ initialized
    /\ \E c \in NodeCalls : \E s \in DOMAIN c :
         /\ c[s].cmd = "write"
         /\ \E i \in DOMAIN motor_ids : motor_ids[i] = c[s].motor
         /\ regs' = [regs EXCEPT ![c[s].motor][c[s].reg] = c[s].val]
    /\ UNCHANGED <<task, step, busy, got, outcome, done, sample, node, loop, requests>>

\* (bug) The loop is left when a call fails.
TurnOrBreak(ok) == index' = IF ok THEN index + 1 ELSE Len(motor_ids) + 1

\* (bug) A call that failed is made again.
TurnOrRetry(ok) == index' = IF ok THEN index + 1 ELSE index

NextTurn(ok) == index' = index + 1

\* (bug) The last result counts.
LastSuccess(ok) == ok

AllSuccess(ok) == success /\ ok

\* The call has returned, and its result is taken.
CallReturns ==
    /\ calling
    /\ ~busy["node"]
    /\ LET ok == outcome["node"] = "ok"
       IN  /\ NextTurn(ok)
           /\ success' = AllSuccess(ok)
           /\ states' = IF ok /\ phase = "update"
                        THEN Append(states, <<motor_ids[index], Motion(got["node"][1])>>)
                        ELSE states
           /\ failed' = IF ok \/ ~initialized THEN failed ELSE failed \cup {index}
    /\ calling' = FALSE
    /\ Forget
    /\ UNCHANGED <<regs, node, phase, argument, missed, requests>>

LoopEnds(callback) == phase = callback /\ ~calling /\ index > Len(motor_ids)

-----------------------------------------------------------------------------
(* The constructor and the destructor *)

\* The parameters do not fit, or the driver cannot be initialised: the
\* constructor shuts rclcpp down, and returns.
Reject ==
    /\ phase = "construct"
    /\ shutdown' = TRUE
    /\ Enter("ready", NoRequest)
    /\ UNCHANGED <<service, node, missed, commands, enable_request, last_command>>

\* driver_.init succeeds, and the motors are enabled.
Construct ==
    /\ phase = "construct"
    /\ Len(motor_ids) = Len(joint_names)
    /\ initialized' = TRUE
    /\ Enter("start", NoRequest)
    /\ UNCHANGED <<service, timely, motor_ids, joint_names, missed, requests>>

\* The motors are enabled, what failed is ignored; the publisher, the
\* subscription, the services and the timer are created.
EndStart ==
    /\ LoopEnds("start") /\ ~shutdown
    /\ Enter("ready", NoRequest)
    /\ UNCHANGED <<service, node, missed, requests>>

\* main: rclcpp::spin
StartSpin ==
    /\ phase = "ready" /\ ~shutdown
    /\ Enter("spin", NoRequest)
    /\ UNCHANGED <<service, node, missed, requests>>

\* The constructor or spin throws for the shutdown: the process is aborted.
Throw ==
    /\ LoopEnds("start") \/ phase = "ready"
    /\ shutdown
    /\ phase' = "aborted"
    /\ UNCHANGED <<service, node, index, calling, states, success, argument, failed,
                   missed, requests>>

\* (bug) deinit comes first.
DeinitFirst ==
    /\ phase = "spin" /\ shutdown
    /\ Enter("destroy", NoRequest)
    /\ initialized' = FALSE
    /\ UNCHANGED <<service, timely, motor_ids, joint_names, missed, requests>>

\* rclcpp::spin has returned, and main ends.
Destroy ==
    /\ phase = "spin" /\ shutdown
    /\ Enter("destroy", NoRequest)
    /\ UNCHANGED <<service, node, missed, requests>>

Deinit ==
    /\ LoopEnds("destroy")
    /\ phase' = "over"
    /\ initialized' = FALSE
    /\ UNCHANGED <<service, timely, motor_ids, joint_names, index, calling, states, success,
                   argument, failed, missed, requests>>

-----------------------------------------------------------------------------
(* The callbacks: spin takes them up one at a time.  The timer may be due, *)
(* and a request to reset_zero_position waiting, at any time.              *)

StartCallback(callback, value) ==
    /\ phase = "spin" /\ ~shutdown
    /\ Enter(callback, value)
    /\ UNCHANGED <<service, node, missed, shutdown, last_command>>

StartUpdate == StartCallback("update", NoRequest) /\ UNCHANGED <<commands, enable_request>>

StartReset == StartCallback("reset", NoRequest) /\ UNCHANGED <<commands, enable_request>>

StartEnable ==
    /\ enable_request # NoRequest
    /\ StartCallback("enable", enable_request)
    /\ UNCHANGED <<commands, enable_request>>

\* A command of the wrong size is dropped.
StartCommand ==
    /\ commands # << >>
    /\ commands' = Tail(commands)
    /\ IF Len(Head(commands)) = Len(motor_ids)
       THEN StartCallback("command", Head(commands))
       ELSE StartCallback("spin", NoRequest)
    /\ UNCHANGED enable_request

\* What failed is ignored.
EndReset ==
    /\ LoopEnds("reset")
    /\ Enter("spin", NoRequest)
    /\ UNCHANGED <<service, node, missed, requests>>

\* (bug) The states are taken to be those of the first motors.
NameByPosition(s) == joint_names[s]

\* The first motor with the id of the state.
NameOf(s) ==
    joint_names[CHOOSE i \in DOMAIN motor_ids :
                    /\ motor_ids[i] = states[s][1]
                    /\ \A j \in 1 .. i - 1 : motor_ids[j] # states[s][1]]

\* What updateTimer publishes on joint_states, unless it is empty.
Message == [s \in DOMAIN states |-> [name |-> NameOf(s), motion |-> states[s][2]]]

EndUpdate ==
    /\ LoopEnds("update")
    /\ Enter("spin", NoRequest)
    /\ UNCHANGED <<service, node, missed, requests>>

EndCommand ==
    /\ LoopEnds("command")
    /\ Enter("spin", NoRequest)
    /\ missed' = failed
    /\ UNCHANGED <<service, node, requests>>

\* The response carries success.
EndEnable ==
    /\ LoopEnds("enable")
    /\ Enter("spin", NoRequest)
    /\ enable_request' = NoRequest
    /\ UNCHANGED <<service, node, missed, commands, shutdown, last_command>>

-----------------------------------------------------------------------------
(* The rest of the robot; the subscription and the services exist when the  *)
(* constructor has returned                                                *)

Listening == phase \in Callbacks \cup {"ready", "spin"} /\ ~shutdown

\* A full queue loses its oldest command.
KeepLast(q, c) == IF Len(q) < Depth THEN Append(q, c) ELSE Append(Tail(q), c)

SendCommand ==
    /\ Listening
    /\ \E c \in Commands :
         /\ commands' = KeepLast(commands, c)
         /\ last_command' = c
    /\ UNCHANGED <<service, node, loop, enable_request, shutdown>>

RequestEnable ==
    /\ Listening
    /\ enable_request = NoRequest
    /\ enable_request' \in BOOLEAN
    /\ UNCHANGED <<service, node, loop, commands, shutdown, last_command>>

\* SIGINT
Shutdown ==
    /\ phase \in Callbacks \cup {"construct", "start", "ready", "spin"}
    /\ shutdown' = TRUE
    /\ UNCHANGED <<service, node, loop, commands, enable_request, last_command>>

-----------------------------------------------------------------------------
Init ==
    /\ Idle
    /\ regs = [m \in Motors |-> InitialFile(m)]
    /\ \E p \in Parameters :
         /\ motor_ids = [i \in DOMAIN p.ids |-> Cast(p.ids[i])]
         /\ joint_names = p.names
         /\ timely = p.timely
    /\ initialized = FALSE
    /\ phase = "construct" /\ index = 1 /\ calling = FALSE
    /\ states = << >> /\ success = TRUE /\ argument = NoRequest /\ failed = {}
    /\ commands = << >> /\ enable_request = NoRequest /\ shutdown = FALSE
    /\ last_command = NoCommand /\ missed = {}

\* The one thread of the process.
NodeStep ==
    \/ Call \/ CallReturns
    \/ Reject \/ Construct \/ EndStart \/ StartSpin \/ Throw \/ Destroy \/ Deinit
    \/ EndReset \/ EndUpdate \/ EndCommand \/ EndEnable

Start == StartUpdate \/ StartCommand \/ StartEnable \/ StartReset

Robot == SendCommand \/ RequestEnable \/ Shutdown

Late == LateAck \/ LateWrite

Next == NodeStep \/ MotorWorks \/ DriverWorks \/ Late \/ Start \/ Robot

Spec == Init /\ [][Next]_vars

\* A call of the driver returns (its attempts and their timeouts are bounded),
\* and the executor takes up in turn all that is ready.
FairSpec ==
    /\ Spec
    /\ WF_vars(NodeStep)
    /\ WF_vars(DriverWorks)
    /\ SF_vars(StartCommand)
    /\ SF_vars(StartEnable)

-----------------------------------------------------------------------------
(* Properties *)

\* Every variable of the node has its type.
TypeOK ==
    /\ initialized \in BOOLEAN /\ timely \in BOOLEAN /\ calling \in BOOLEAN
    /\ motor_ids \in Seq(Motors)
    /\ phase \in Loops \cup {"construct", "ready", "spin", "over", "aborted"}
    /\ index \in 1 .. Len(motor_ids) + 1
    /\ states \in Seq(Motors \X [current : Int, speed : Int, position : Int])
    /\ failed \subseteq DOMAIN motor_ids /\ missed \subseteq DOMAIN motor_ids
    /\ success \in BOOLEAN /\ shutdown \in BOOLEAN
    /\ enable_request \in BOOLEAN \cup {NoRequest}
    /\ phase = "enable" => argument \in BOOLEAN
    /\ phase = "command" => argument \in Commands /\ Len(argument) = Len(motor_ids)
    /\ commands \in Seq(Commands) /\ Len(commands) <= Depth
    /\ last_command \in Commands \cup {NoCommand}

\* A message on joint_states gives each joint in it the motion of its own
\* motor, though motors that did not answer are left out of the message
\* (updateTimer, driver.cpp:378).
JointsNamedRight ==
    LoopEnds("update") =>
        \A s \in DOMAIN Message :
            \E i \in DOMAIN motor_ids :
                /\ Message[s].name = joint_names[i]
                /\ Message[s].motion = MotionAt(regs[motor_ids[i]])

\* If answers are timely: when all commands have been handled, every motor that
\* was reached has the target of the newest one: none is skipped because another
\* failed, and a flood of commands loses the old ones (positionCommandCallback).
LatestCommand ==
    (/\ timely
     /\ phase = "spin"
     /\ commands = << >>
     /\ last_command # NoCommand
     /\ Len(last_command) = Len(motor_ids))
        => \A i \in DOMAIN motor_ids \ missed :
               Int32At(regs[motor_ids[i]], TAG_POSITION_L) = last_command[i]

\* If answers are timely: a node that ends, and is not aborted by a shutdown
\* before spin, leaves no motor enabled, but those whose disabling failed
\* (~WHJDriverNode).
MotorsOffAtExit ==
    timely /\ phase = "over" =>
        \A i \in DOMAIN motor_ids \ failed : regs[motor_ids[i]][SYS_ENABLE_DRIVER] = 0

\* If answers are timely: a response of success says that every motor is as
\* requested; the callbacks in between cannot have changed that (enableService).
SuccessMeansAll ==
    [][timely /\ EndEnable /\ success =>
         \A i \in DOMAIN motor_ids :
             regs[motor_ids[i]][SYS_ENABLE_DRIVER] = IF argument THEN 1 ELSE 0]_vars

Ended == phase \in {"over", "aborted"}

\* Motors that fail never hold up the node: a request to enable_motors is
\* answered, or the node ends.
RequestsAnswered == enable_request # NoRequest ~> enable_request = NoRequest \/ Ended
=============================================================================
