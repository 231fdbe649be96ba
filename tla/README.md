# Formal verification of the RealMan WHJ joint motor driver

This directory holds TLA+ models of the driver in this repository and of the
programs around it, the TLC runs that check them on small instances, and
theorems about them with proofs for TLAPS. File names without a directory are
those of the repository: `driver.cpp` is `src/core/driver.cpp`, `linux_can.cpp`
and `windows_can.cpp` are in `src/platform/`, `whj_driver_node.cpp` is in
`src/ros2/`, `driver.hpp` is `include/realman_whj/driver.hpp`, `protocol.hpp`,
`command.hpp` and `types.hpp` are in `include/realman_whj/core/`, and the Python
files are in `examples/python/`.

## 1. The system

A host commands RealMan WHJ joint motors over CAN FD. Every motor has a file of
16-bit registers. The host sends a request frame whose CAN id is the motor id
(read *n* registers from *r*, or write one register), and the motor answers with
the id + 0x100. Positions, speeds and currents are 32-bit quantities in two
registers, low half first.

| Component | State it keeps | Operations | Interacts with |
|---|---|---|---|
| Driver transactions (`driver.cpp:46-193`) | `initialized_`, `retry_count_`, `responses_` (one entry per response id, under a mutex and a condition variable) | `sendAndWait`, `readRegister(s)`, `writeRegister`, `handleResponse`, `init`, `deinit`, `setRetryCount` | called by any number of user threads, `std::async` workers and the monitor thread; `handleResponse` runs on the receive thread of the CAN interface |
| Public calls (`driver.cpp:195-234`, `278-553`) | none | about 35 calls, each a sequence of register accesses | driver transactions |
| Results of the reading calls | none | decoding of blocks of registers into `JointState`, `MotorInfo`, limits and PID parameters | public calls |
| State monitoring (`driver.cpp:236-276`, `528-539`) | `monitoring_`, `monitor_ids_`, `monitor_thread_`, `state_callback_` with its mutex | `startStateMonitoring`, `stopStateMonitoring`, `setStateCallback`, the monitor thread | reads states through the public calls; calls the user back while it holds the mutex |
| Linux CAN interface (`linux_can.cpp`) | `sock_`, `is_open_`, `should_stop_`, `rx_thread_`, `callback_`, `rx_queue_` | `init`, `close`, `send`, `receive`, `registerCallback`, the receive thread | the kernel's file descriptors; calls `handleResponse` back |
| Windows CAN interface (`windows_can.cpp`) | a UDP socket, Winsock, `is_open_`, `simulation_mode_`, `use_gateway_`, `sim_message_count_`, the receive thread, callback and queue | `init` for the gateway or for simulation, `close`, `send` (which answers itself in simulation), `receive`, `registerCallback` | the gateway; calls `handleResponse` back, in simulation on the sender's own thread |
| Protocol codec (`protocol.hpp`) | none | frame builders and parsers | driver transactions |
| ROS 2 node (`whj_driver_node.cpp`) | parameters, a driver, `motor_ids_`, `joint_names_`; the queues of its executor | timer, command subscription, two services, on one executor thread; constructor and destructor | public calls |
| Motion controller (`motion_controller.py`) | the planner's phase, clock, position and velocity; `running` | `plan`, `update`, `reset`; `move_to_position`, `stop`; the menu | sends setpoints through the Python motor controller |
| Motor controller (`motor_control.py`) | none of its own; the receive buffer of the adapter | `send_command` and the calls made of it | the ZLG driver |
| Recovery tool (`encoder_recovery.py`) | the results of its calls | one sequence of calls, with two questions to the user | the motor controller |
| ZLG CAN driver (`zlgcan_driver.py`) | device and channel handles, `_is_open` | `open`, `init_canfd`, `close` | the vendor's library; the device is open in one program at a time |
| Bindings, factory, examples, tests | none | | |

What is hard in it: callers that share one response slot per motor while late,
lost and repeated answers come in; calls of several writes that fail half way;
threads that are joined while they wait, sleep or run user code; descriptors
that are closed under another thread; a counter that is counted and then looked
at; callbacks that queue up behind motors that do not answer; a trajectory whose
clock, timeout and cancellation belong to different parties; answers that are
recognised by their length only. `hazards` in `PROJECT.json` lists these places
line by line.

What makes each component correct:

* transactions and calls: what a read returns is true of the motor, and fresh; a
  successful write has taken effect; a failed call has left a prefix of its
  writes; nothing happens to a motor after the call is over; every call returns;
* results: a state or a description is the motor's at one instant; what has been
  set is what is read back;
* codec: padded, short, refused and foreign replies are told apart; a call
  reaches the motor its id names;
* monitoring: one monitor thread at most, none after a stop; the callback that
  runs is the one that is set; stop returns;
* CAN interfaces: no receive thread after a close; only the interface's own
  descriptor is read; frames keep their order; nothing is leaked by an init that
  fails; the simulation keeps its rate and stays off the network; close returns;
* node: joints are named right and requests are answered; if answers are timely,
  the newest command wins, success means all, and no motor stays enabled when the
  node ends by itself;
* motion: setpoints go forward at a limited rate, inside the move, and arrive
  before the timeout; the move returns; stop stops;
* recovery: success is real; the zero position is set again for a reason; enabling
  the motor does not move it.

## 2. Modules

| Module | What it is | Its correspondence to the code |
|---|---|---|
| `WHJDriver` | the transaction engine: threads in calls, the response slots, the bus and the motors | one action per step between two accesses to shared state: `StartCall`, `Enter` (the `initialized_` test and the loop's start), `BeginAttempt` (erase), `Send`/`SendFails`, `Take`/`Timeout` (the end of the wait, with the parsing that follows), `GiveUp`; `HandleResponse` is the receive thread; `InitDriver`, `Deinit`, `SetRetryCount` come at any moment |
| `DriverCalls` | every public call as a sequence of accesses: motor, command, register, count, value, whether the call insists on it (`must`), how many values it needs (`need`) | `WHJDriver` and others take the set of calls of each thread as a constant |
| `RegisterService` | what a register access promises, without frames, retries and timeouts: it takes effect and answers, and only then succeeds | abstract specification; implemented by `WHJDriver` (`ServiceSpec`) and by `WireDriver` (`WireImplementsService`), used by `MotorNode` |
| `DriverValues`, `DriverResults` | what the reading calls make of the values, and the 32-bit packing; its properties over `WHJDriver` | pure operators over the values in `got` |
| `Protocol` | frames, builders and parsers, byte by byte | `makeFrame`, the five-bit id, `parseReadResponse`, `parseWriteResponse` |
| `WireDriver` | one call at a time on the wire: requests and replies as bytes, CAN FD padding, error frames, refusals, silence; and the simulated motor | the loops of `readRegister`, `readRegisters`, `writeRegister`; `windows_can.cpp:167-204` for the simulation |
| `Monitoring` | the monitor thread and the calls that control it | `upc` and `mpc` are the places of the user threads and of each monitor thread; a `std::thread` is joinable or not, and an operation on it that throws or terminates sets `terminated` |
| `LinuxCAN` | one interface object over a table of file descriptors | `upc`, `rpc` likewise; other code of the process opens and closes descriptors of its own (`OtherFile`) |
| `WindowsCAN` | one interface object with gateway and simulation | `pc` of user and receive threads; the counter, the two looks at it, and the callback on the sender's thread are steps of their own |
| `MotorNode` | the ROS 2 node over `RegisterService` | each loop over `motor_ids_` is a call of the driver per turn; the executor takes a ready callback; SIGINT at any time, which aborts the process without the destructor if it comes before `spin` (`Throw`). `timely` says of the network whether answers come in time; if not, a write may be acknowledged in another's place (`LateAck`) or reach the motor after its call (`LateWrite`) |
| `TrapezoidalPlanner`, `SmoothMotion` | the planner as functions on a record; the move, `stop` and KeyboardInterrupt as a state machine | `update` is one step of `SmoothMotion`; positions and times are integers (section 4) |
| `MotorController` | `send_command` over the line, the receive buffer and the motor | a call is `SendCommand` and later `Returns`; `Serve`, `Lose`, `Arrive` are the motor and the bus |
| `EncoderRecovery` | `main` of the recovery tool on it | `rpc` is the next call; `Result` applies what `main` makes of the answer |
| `ZlgCan` | handles of device and channel | `open`, `init_canfd`, `close`, and a process that ends without `close` |
| `PythonTools` | both programs on one adapter | composes `SmoothMotion`, `EncoderRecovery`, `ZlgCan` |
| `MCWHJDriver`, `MCDriverResults`, `MCWireDriver`, `MCMonitoring`, `MCLinuxCAN`, `MCWindowsCAN`, `MCMotorNode`, `MCSmoothMotion`, `MCPythonTools` | instances for TLC | |
| `WHJDriverProofs`, `WireProofs`, `MonitoringProofs`, `LinuxCANProofs`, `WindowsCANProofs`, `MotorNodeProofs`, `RecoveryProofs`, `MotionProofs` | theorems | section 6 |

How they are composed. `DriverResults` extends `WHJDriver` and `DriverCalls`:
engine, calls and decoding are one state machine. `WireDriver` composes
`Protocol`, `DriverCalls` and the simulation. `MotorNode` uses the driver as
`RegisterService`, which `WHJDriver` implements for a single caller if answers are
timely (`EngineImplementsService`); for answers that are not, it adds what finding
1 and a write that outlives its call can do, as more than the engine does:
`LateAck` and `LateWrite` need no earlier write that would explain them. `Monitoring`
uses `getJointState` as a call that returns a state or none, which
`EveryCallReturns` and the service specification justify. `WHJDriver` uses the
CAN interface as one that is open or closed, whose `send` may fail and whose
receive thread delivers frames in order and one at a time, which `LinuxCAN`
shows (`QueueFollowsCallback`).

Operators whose comment says `(bug)` are wrong forms of the definition that
follows them. No specification uses them; `mutants` in `PROJECT.json` pairs each
property with one that violates it.

Abstractions. Outside `Protocol` and `WireDriver` a frame is a record, not
bytes. A lock that is held for a statement or two is one atomic step; one that
is held while user code runs is a variable. Time is a choice: a wait expires when
it likes, unless `Timely`, which says that the round trip of a frame that is not
lost is shorter than `timeout_ms`. A frame is lost when it comes to the head of
its queue, which is the same as losing it anywhere on the way. Motors serve
requests in order, and may refuse or not answer any of them. A motor of the
recovery meets a new error only when it is enabled.

## 3. Runs

| Run | Instance | Properties | What it shows |
|---|---|---|---|
| `exclusive` | 2 threads, a motor each, `Timely`; calls repeat for ever; 2 attempts | `AckMeansApplied`, `PrefixApplied`, `FreshRead`, `NoWriteAfterReturn`, `ServiceSpec` | under the conditions the examples keep (one caller per motor, a live bus) success means applied, failure leaves a prefix, reads are fresh, and the engine is a register service |
| `shared` | 2 threads on 1 motor whose position moves, one call each, late answers, fair | `ReadProvenance`, `ResultsTrue`, `EveryCallReturns` | what holds without any condition: values, states and descriptions are true of one instant, and every call returns |
| `calls` | 1 thread, every public call once, to the ids 1, 17 and 33 and to the simulation; 0, 2 or 3 attempts | `FailsForAReason`, `SettingsReadBack`, `BuildersAgree`, `SimulationLimits`, `WireImplementsService` | byte by byte, a call is a register service for the motor the five bits of its id name, fails for a reason only, and reads back what is set; the simulation can do single accesses only |
| `late_ack` | 1 thread, 1 motor, late answers | `AckMeansApplied` violated | finding 1 |
| `status` | 1 thread, a healthy motor | `StatusTrue` violated | finding 2 |
| `monitor` | 2 threads that start and stop, one that inits and deinits, one that sets callbacks, a callback that may call back; 3 starts, lists of 0 to 2 motors, fair | `QuietAfterStop`, `NeverTerminates`, `LatestCallback`, `IdsStable`, `StopReturns` | monitoring in programs that keep its two rules (`~misused`); the callback's mutex does its work in every program |
| `can_open_close` | 1 thread that opens and closes, an open interface too; 1 that sends and receives; 2 descriptors, 2 receive threads, 2 frames, fair | `QueueFollowsCallback`, `QuietAfterClose`, `NothingLeaked`, `ReadsOwnSocket`, `CloseReturns` | opening and closing, with inits that fail at any step |
| `can_send_race` | the same, 1 receive thread, 1 frame | `SentOnBus` violated | finding 3 |
| `windows` | 1 thread that opens for the gateway or for simulation, closes, registers and sends; 1 that sends and receives; fair | `AnswerRate`, `QueueAgrees`, `NothingLeaked`, `SimulationStaysHome`, `CloseReturns` | no thread gets two answers in a period; callback and queue get the same frames; nothing is left behind; nothing goes to the gateway after an init for simulation |
| `node` | nodes with 2 motors (one id above 255) and timely answers, with 1 and late answers, and one that cannot start; a command queue of 1; SIGINT at any time; fair | `JointsNamedRight`, `LatestCommand`, `MotorsOffAtExit`, `SuccessMeansAll`, `RequestsAnswered` | the node with calls that fail at any point; the second, third and fourth property are stated for timely answers |
| `tools` | positions 0, 7, 20, 108 with VMax 6, AMax = DMax = 2, cruises of up to 2 skipped; stop at any moment; a recovery with answers up to one call late; one adapter; fair | `WithinMove`, `NeverTimesOut`, `RateLimited`, `MoveReturns`, `SuccessIsReal`, `ZeroForAReason`, `HoldsStill` | long moves go forward at a limited rate, but for one leap over a skipped cruise; all moves arrive in time unless stopped; a recovery that reports success has one, sets the zero position for an encoder error only, and enables the motor where it stands |
| `motion_stop` | the move alone | `StopStops` violated | finding 4 |

The end of section 7 says what happens outside these instances.

Deadlock is checked except in four runs: `calls` and `node` end; the programs of
`can_open_close` and `monitor` can end in `std::terminate`, and a callback of
`monitor` can block its own thread.

### Bounds, and why they are enough

* Threads and motors: interference is between two parties (two callers of one
  slot, a caller and the receive thread); nothing in the code counts threads. The
  theorems hold for any number.
* Values: two or three register values tell a stale, torn or misplaced value from
  the right one; 65535 gives both halves the sign bit. In the register files of
  `shared` and `calls` neighbours differ. Of the ids 1, 17 and 33 the last is
  above the 31 a frame can name, and is taken for 1.
* `MaxInFlight` = 1 queues one frame per direction and motor. A caller has one
  request under way, so more is only reached by late answers; `late_ack` has 2.
* Attempts: 2 is the least number with a retry; `shared` has 1, because the
  reading of a state has three accesses already and each may meet the late
  answer to the one before. `calls` has the code's default, 3, and 0.
* `OneCall` ends a thread's run after one call, where repeating calls adds states
  but no new meeting of two; `exclusive` repeats them.
* `MaxStarts` = 3, `MaxInits` = 2: thread objects made in a behaviour; 2 are needed
  for a thread that outlives its successor's start.
* `MaxFrames` = 2 distinguishes order; `Fds` = 2 lets a descriptor be reused;
  `MaxSends` = 3 with a `Period` of 2 passes the answer and comes back to it.
  `calls` has the real period of 10.
* `Depth` = 1 (the code's is 10): a queue of one overflows with the second command.
  Late answers have one motor to be late about: what they do to one motor has to
  do with no other.
* `MaxGap` = 3 ticks between two turns of the motion loop; a long move has a
  phase of each kind of at least 3 ticks, so that a late turn may jump over a
  phase's end. The moves between 0, 7, 20 and 108 are triangular, long enough for a
  cruise that is skipped, or long (`ShortCruise` = 2 is out of proportion to the
  tick, so that there is such a move), and `MinTimeout` = 27 ticks, the least that `Patient` allows, is more
  than the formula gives for some moves and less for others.
* `Angles` = {-1, 0}: both halves of -1 have all bits, so that read as an error
  code it says everything. `Codes`: no error, one that is no encoder error, and
  two that are.
* `MaxLate` = 1: an answer may be taken by the next call. With 2, `SuccessIsReal`
  fails (section 7).

### Fairness

* `WHJDriver!FairSpec`: each thread runs on; `wait_for` expires; each motor
  answers, refuses or loses the request, and the receive thread takes the frame
  or the bus loses it. Nobody has to start a call, to init the driver or to
  change the retry count.
* `Monitoring!FairSpec`, `LinuxCAN!FairSpec`, `WindowsCAN!FairSpec`: user threads
  finish the call they have begun if they are not blocked; the monitor thread's
  sleep ends; `poll` and `recvfrom` return after their timeout with or without a
  frame; user callbacks return. Frames need not come.
* `MotorNode!FairSpec`: the loops of the callbacks go on and a call of the driver
  returns (weak fairness); the executor serves a subscription or a service that
  stays ready while other callbacks run in between (strong fairness of
  `StartCommand` and `StartEnable`), as `rclcpp`'s single-threaded executor does,
  which goes over everything that is ready before it waits again.
* `PythonTools!ToolsSpec`: the move's loop runs and time passes. Nobody has to
  begin a program, stop, interrupt or begin a move.

All but the executor's is weak fairness of single threads: what an operating
system gives every runnable thread. No property relies on a frame that arrives,
on a retry that succeeds or on who gets a mutex.

## 4. Numbers

A quantity of `DriverValues` is the integer before it is scaled to a float. A
position of `SmoothMotion` is an integer, its unit the 0.1 degree below which
`move_to_position` does nothing (`motion_controller.py:279`; of the 0.001 degree
of `plan` nothing is left then); a time is a tick of the loop (20 ms); the square root of the
triangular profile is avoided by comparing squares; the instances are chosen so
that the full ramps are whole numbers. A position of `MotorController` is the
32-bit integer in units of 0.0001 degree; `int(pos / 0.0001)` of a position that
has been read is taken to give it back. The rounding of floats is not modelled.

## 5. Findings

1. `writeRegister` documents "true if write successful" (`driver.hpp:104`). A
   response is matched by the motor's id alone (`driver.cpp:71`, `:102`) and
   `parseWriteResponse` does not look at the register it acknowledges
   (`protocol.hpp:138-147`): after a timeout and a retry the second
   acknowledgement of the low half of a target is taken for that of the high
   half (run `late_ack`).
2. `getJointState` reads four registers from `SYS_VOLTAGE` and takes the third
   for the error code and the fourth for the enable flag (`driver.cpp:223-224`);
   they are the reduction ratio and a reserved register (run `status`).
3. `send` documents "true if successfully queued/sent"
   (`can_interface.hpp:53`). `close` frees the descriptor before `send` can
   notice, so that a frame may be written to another file (run
   `can_send_race`).
4. `stop`: "Stop current motion" (`motion_controller.py:385`): the loop ends, and
   the target is sent to the motor at once (run `motion_stop`).

## 6. What is proved

The theorems hold for all values of the constants that satisfy the named
assumptions of the modules (`DriverAssumption`, `MonitoringAssumption`,
`LinuxCANAssumption`, `WindowsCANAssumption`, `ControllerAssumption`,
`WireAssumption`, `PlannerAssumption`, `MotionAssumption` and those of
`MotorNode`); TLC evaluates these in every run. They are about `Spec`,
and `RecoverySpec` for the recovery tool, which have no fairness, and so for every
schedule; those about `ToolsSpec`, of both programs, do not use its fairness.

`WHJDriverProofs`, first part: the engine without a condition on timing or sharing:

* `TypeCorrect`: `TypeOK`. It carries the bound of the loop counter, which needs
  the place of the thread too (a counter at `send` or `wait` is below
  `MaxRetries`), and the place of each thread in its call.
* `ReadsAreTrue`: `ReadProvenance`. The invariant behind it, `ReadInv`, says of
  every frame on the bus and in a slot that it is true: its values were the
  registers it names at an instant in `past`. Since `past` only grows, what is
  true stays true; since a read compares the register of the answer, a frame
  that is accepted is true of what was asked.

`WHJDriverProofs`, second part: the engine if no two threads call the same motor
(`Exclusive`) and answers are timely (`Timely`):

* `WritesAcknowledged`, `FailureLeavesPrefix`, `ReadsAreFresh`, `NoLateWrites`.
  The invariant, `ExchangeInv`, says that a motor has one exchange at a time:
  while no thread waits for it its queues and its slot are empty, and while one
  waits there is at most one frame, which is its request, or an answer to it
  that tells the truth about `done` and `sample`. It is inductive because the
  wait ends only with the frame or after it is lost, and this is where `Timely`
  is used; `Exclusive` is used where another thread's step must leave the motor
  alone. `AckInv` adds what a thread has gone past, and gives the properties.
* `EngineImplementsService`: every step of the engine is a step of
  `RegisterService` or leaves its variables alone (`NextImplements`, one lemma per
  group of actions), and initial states are initial states. The mapping is the
  identity on the shared variables and forgets `pc` but for `busy`.

`WHJDriverProofs`, third part: the results of the reading calls, without
conditions:

* `StatesAreTrue`, `InfosAreTrue`, and both as `ResultsAreTrue`; the motor's id and
  its model in a description are the low bytes of their registers, as
  `MotorInfo` has a `uint8_t` for each (`types.hpp:154-155`). `DeliveredInv`
  says that a call that has gone past a read it insists on has its values, as
  many as it needs; with `ReadProvenance` the blocks are true (`BlockIsTrue`), and
  the decoding puts each value in its place.
* `PackingIsExact`: splitting a 32-bit integer as `writeInt32` does and joining
  the halves as `unpackInt32` does gives the integer back.

`WireProofs`, for any motors, register files, values, retry counts and calls that
are legal. `LegalCall` and `Served` say what the calls of `driver.cpp` are: at least
one access, never more than 31 registers at once (the longest block is 13), no
more values needed than asked for, and registers that the motor has. That the
calls of `DriverCalls` are legal is a theorem (`PublicCallsAreLegal`); that a motor
has the registers is a hypothesis, which TLC evaluates for its instance. The proofs go down to the bytes: `ReadValues`
of a padded reply begins with the values sent (`Padding`, `Payload`, `ReadReply`),
and no parser takes an error frame or an empty one (`Garbled`).

* `WireTypes`, `FailuresHaveReasons`. `ReplyInv` ties the frame in hand to the
  attempts that have missed: a frame that no parser takes is one more miss, and
  any other carries what the motor sampled, has applied, or has refused.
* `WireIsAService`: every step of the driver, of the wire and of the motor is a
  step of `RegisterService` or leaves it alone, for one thread whose
  call is the one on the wire.
* `SettingsAreTrue`. `PastInv` says of every access that the call has gone past
  what it returned or did; `SampleInv` and `DoneInv`, that what a call that only
  reads has sampled, and what a call that writes no register twice has written,
  is in the registers still. The decoding of limits, gains and errors then
  follows. For errors it uses that the codes of a bitmap add up to the bitmap, a
  hypothesis (`BitmapParses`): the sum is a recursion over codes, which no
  installed prover can induct on, and TLC evaluates it for each of the 65536 bitmaps in every run of
  `MCWireDriver`.
* `BuildersBuildTheSame`, by unfolding both builders byte by byte, for all
  motors, modes and targets.
* `SimulationIsLimited`, if the driver makes fewer attempts than the simulation's
  period (`FewRetries`: the code has 3 and 10, which TLC evaluates) and calls insist
  on a prefix of their accesses (`InsistsFirst`, see the next theorem). `SimulationInv` counts: an
  answer finds the counter at 0, and in the access after it the counter is the
  number of attempts, too few to come round to the next answer.

* `PublicCallsAreLegal`: every public call of the driver (`PublicCalls`), whatever
  its motor, registers, values and gains, and a scan of any motors, satisfies
  `LegalCall` and insists on a prefix of its accesses. `JoinCalls` is the step: a call
  that insists on all its accesses may be followed by any.

`MonitoringProofs`, for any number of threads, whatever each of them calls:

* `MonitoringTypes`, and `CallbackIsLatest` from the part of the type invariant
  that ties the owner of the mutex to the thread in the callback.
* `StopIsQuiet`, `MonitorIsUnique`, `ThreadsAreJoined`, `IdsAreStable`, as long as
  starts and stops have not overlapped and the callback has not called the driver
  (`~misused`, a condition on the past and not on the constants). `ThreadInv` says
  that one thread at most is in a start or stop, that `monitor_thread_` names
  every thread alive, and that it is empty from the join to the launch; the
  properties alone are not inductive, because what a join leaves behind depends on
  which thread `monitor_thread_` names.

`LinuxCANProofs`:

* `CanTypes`, without a condition.
* `CloseSilences`, `NoSocketLeaks`, `ReadsItsSocket`, `QueueAfterCallback`, if one
  thread opens and closes the interface (`SoleController`), for any number of
  threads that send, receive and register, any descriptors, opens and frames. The
  invariant has one part per question: `RoleInv` (who is in `init` or `close`),
  `ThreadInv` (a running receive thread is the one `close` joins), `SocketInv`
  (`sock_` is the one CAN socket, at each place of `close` that releases it),
  `LoopInv` (the copy of the descriptor in the loop is `sock_`), `FrameInv` (what
  has been read is what is taken, queued and, for one frame, between the two).

`WindowsCANProofs`:

* `SimulationAnswers`, for any period, any users and whatever they call: `AnswerInv`
  says that a thread about to look at the counter has one message that no answer
  of its own stands for yet; `WholeTurns` is the arithmetic of the test. The mutual
  effect of other threads is that the counter only grows.
* `NothingIsLeaked`, `SimulationIsLocal`, under `SoleController`: `WinInv` says at
  each place of `initGateway` and `close` which socket, Winsock count and thread
  there is, and which mode a sender saw.
* `QueuesAgree`, under `SoleController`: `FrameInv` says that a frame is in the
  history of the callback, or in that of the queue, once, or with just one of the
  threads that are still to bring it there (`Arrived`); the same lemmas
  (`FrameBegins`, `FrameArrives`, `AllArrived`) serve both histories and both
  orders of delivering. `OrderInv` is what `~simulation_mode` adds: only the one
  receive thread delivers.

`MotorNodeProofs`, for any motors, parameters, commands and queue depth, whatever
calls fail. `timely` is a hypothesis of `MotorsOffAtExit`, `SuccessMeansAll` and
`LatestCommand`, as it is of the service they rest on (`EngineImplementsService`);
without it they are false, by finding 1:

* `NodeTypes`, `ExitDisables`, `SuccessIsTrue`, `NamesMatch`. `NodeInv` says of the
  call in progress that it is the one of this turn of the loop and what its
  finished accesses have done, and of a loop that every turn behind `index` has
  its effect or is in `failed`; what it says of writes it says if answers are
  timely, what it says of reads always, since no late write touches the block
  that a state is read from (`LateEffect`). `NamesMatch` therefore needs no
  hypothesis. An earlier turn of the same motor (ids may be
  given twice, or be equal after the cast) is not undone by a later one, since
  both ask for the same.
* `NewestWins`, if no motor is named twice (`DistinctIds`): targets differ by
  turn, so that this condition is needed. `TargetInv` adds that a motor out of
  `missed` has kept the last command's target.

`RecoveryProofs`, for any positions of 32 bits and any error codes. An answer has
no mark of its call; what takes its place is the order (`OrderInv`): ages fall
strictly from the head of the buffer to the end of the line, and requests are
served in that order. So a call that takes its own answer leaves nothing on its
way, and nothing was served after it (`ServeOwn`):

* `RecoveryTypes`, however late answers may be.
* `RecoveryZeroForAReason`, however late: until the disabling only reads are on
  their way, so that the error the program reads in its own answer is the one it
  found (`StatusInv`), and its two flags only ever fall after that (`SuspectInv`).
* `RecoveryHoldsStill`, however late: from the reading of the position to the last
  half of the target, each acknowledgement accepted says that its half of the
  target is the position's (`HoldInv`), and two halves make 32 bits
  (`JoinHalves`).
* `RecoverySuccessIsReal`, if answers are at most one call late (`MaxLate <= 1`):
  what is late for the final reading of the error answers a write, and a write's
  answer is too short to be an error code (`SuccessInv`); from then on only reads
  are on their way, and what was read stays true. With 2 it fails (section 7).

`MotionProofs`, for any velocity and accelerations whose ramps are whole numbers
(`PlannerAssumption`), any positions and any lateness of the loop. The planner is
a clock that is looked at now and then, and the clock of a phase starts when the
loop finds the one before over; the invariants therefore speak of the last update,
`since` ticks ago, when the phase of now was not over (`InPhase` in `MoveInv`).
What `update` does is stated once (`UpdateCases`); the squares and the divisions
are in the lemmas on ramps (`Climb`, `Descent`, `Ascent`, `LongProfile`):

* `MoveStaysWithin`, `MoveRateLimited`, for moves long enough to reach the maximum
  velocity (`Long`; for shorter ones both fail, section 7). A cruise of a millisecond at most
  is skipped by the planner (`Cruises`), its distance is not: the first setpoint of
  the deceleration may be ahead by that much more (`Leap`). `PathInv` says that the
  last position sent is where the phase was `since` ticks ago (`Covered`), and
  `Advances` that from there an update goes forward, by `VMax * since` at most, in
  the phase or over its end (with `Leap`, over a skipped one).
* `MoveNeverTimesOut`, for long and short moves, under `Patient`. `TimeInv` adds up
  the time: a ramp, a cruise, and for each phase that is past one late turn. Three
  late turns fit in a third of the timeout (`Patient`), and the phases in the other
  two: `Triangle` for the profile without a cruise, whose two ramps take no longer
  than those of the symmetric one in the code's formula, and `Trapezium` for the
  others, by both rules of `TimedOut`.
* `ToolsRunTheRecovery`: `ToolsSpec` implements `RecoverySpec`; and with the steps
  of the menu and of the exits, which are outside of a move, `ToolsMovesAreSafe` and
  `ToolsRecoveryIsSafe` give the safety properties of the run `tools`.

`Patient` is a condition on the bus. Its first part holds of the default profile.
For its second, turns may be late by 0.5 s (a ninth of the 5 s of
`motion_controller.py:301`). A turn waits for two acknowledgements and now and then
for a position, and each wait may last 0.5 s (`motor_control.py:28`) before the
move fails; so a motor that answers, but each time almost too late, is outside of it.

Only model-checked: every liveness property, `MoveReturns` among them (the prover
has no rule for ENABLED).

## 7. Limits

Not modelled:

* the scaling of floats, error descriptions and model names (floating point, and
  data without control);
* `CANInterfaceFactory` (`createCANInterface` chooses an implementation at compile
  time), the Python bindings (each names one call), the launch and build files:
  they keep no state of their own;
* the protocol and query scripts in `examples/python/` and the C++ examples: they
  call the driver once in a row and print what they get; the `main` of
  `motor_control.py`, which is a menu over calls that have no state on the host;
* the vendor's library: binaries. `ZlgCan` models the driver above it;
* object lifetime (a `WHJDriver` moved or destroyed while futures are
  outstanding), the data race on `last_error_`, and memory: the receive queue
  that nobody empties grows for ever (`linux_can.cpp:260`).

What the code does that no property forbids, and a reader of the interface may
not expect:

* `DriverConfig::default_retries` (`types.hpp:53`) has no effect on
  `retry_count_`.
* A motor id above 31 reaches another motor (`protocol.hpp:37`); only
  `readRegister` refuses it. In the node, ids are cast to eight bits: two that
  become equal share a motor, which then has two names, and the later target.
* After an init for simulation the Windows interface simulates for good, also
  when a gateway is opened and reports success (`windows_can.cpp:47`, `:148`); a
  second `init` for the gateway without `close` terminates the program.
* A description has the low byte of the registers for the id and the model: a model
  of 65535 is reported as 255 (`driver.cpp:399-400`).
* SIGINT before `spin` (while the constructor enables the motors, say) makes the
  creation of the publishers, or `spin`, throw; nothing in `main` catches it, no
  destructor runs, and the motors enabled so far stay enabled
  (`whj_driver_node.cpp:61-91`, `:175-181`). `MotorsOffAtExit` excepts such a node.
* With late answers the node may report a success for a motor that was never
  reached, miss half of a target, or leave a motor enabled that it takes to be
  disabled: finding 1, and the `timely` of its properties.
* If the cruise of a long move lasts a millisecond or less
  (`motion_controller.py:193`) the planner skips it, and its first decelerating
  setpoint (`:235`) leaps over the distance of the cruise. The distances `Leap`
  allows are those.
* A triangular profile of the planner begins its deceleration with the maximum
  velocity it never had (`motion_controller.py:201`, `:231-234`), although
  `:138` says that it never reaches it: a short move may overshoot and jump
  back. `RateLimited` and `WithinMove` are about long moves.
* `encoder_recovery.py:82` reports an unreadable error status as no error and
  ends; `:179` enables the motor whether its target could be set or not, which is
  why `HoldsStill` speaks only of recoveries in which each of these accesses got
  its own answer (`held`). If the first disabling was lost, a target of which one
  half is written moves the motor while it is enabled.
* `send_command` takes any answer (`motor_control.py:41`): `set_work_mode` and the
  others report success for a refusal, and a position read as an error code can
  have the user set the zero position again (`crossed` in `ZeroForAReason`).
* `get_system_info` (`motor_control.py:77`) reads six registers from
  `SYS_MODEL_TYPE` and shows the third to the fifth, error code, voltage and
  temperature, as voltage, temperature and reduction ratio.
* `init_canfd` of the ZLG driver returns without `close` when it fails; the device
  is given back when the process ends.

What is known to fail when an instance is widened:

* `node` without `timely` in its properties: `LatestCommand`, `MotorsOffAtExit` and
  `SuccessMeansAll` fail by `LateAck` alone.
* `exclusive` with two threads on one motor: one takes the other's
  acknowledgement and `AckMeansApplied` fails, with timely answers too. This is
  why the theorems assume `Exclusive`; `driver.hpp:28-30` does not ask for it.
* `monitor` without `~misused`: overlapping starts or stops end in
  `std::terminate` (`driver.cpp:268`, `:274`), and so does a callback that calls
  `stopStateMonitoring`; one that calls `setStateCallback` blocks for ever.
* `deinit` does not stop the monitor thread (`driver.cpp:312-317`), which polls
  on and resumes after the next `init`.
* `can_open_close` for programs that call `init` on an open interface (`reopened`):
  `std::terminate`, a lost socket, and, if `socket()` fails, an interface that says
  it is open without one (`linux_can.cpp:63-67`, `:178`).
* `tools` with `MaxLate` = 2: an answer that is two calls late makes the recovery
  report a success it did not have, since the final reading of the error may take
  the answer to an earlier one.
* `tools` with `DMax` below `AMax`: the automatic timeout
  (`motion_controller.py:283-299`) is shorter than the trajectory, and
  `NeverTimesOut` fails. So it does with turns later than `Patient` allows, for
  example `MaxGap` = 5 with `MinTimeout` = 12.

## 8. Plan

Done, in this order, the most important behaviour first: the transaction engine,
its calls and its abstract service, and their proofs; monitoring and its proofs;
the Linux interface and its proofs; the planner and the motion; the results and
their proofs; the codec and the driver on the wire and their proofs; the Windows
interface and its proofs; the ROS 2 node and its proofs; the recovery tool on the adapter and its
proofs; the motion's proofs, and those of both programs together.

Left:

1. A third program on the adapter (`main` of `motor_control.py`), and the second
   attempt of `open` in `ZlgCan`.

## 9. Running it

`tlc -config Exclusive.cfg MCWHJDriver.tla` checks a run; `runs` in
`PROJECT.json` names the module and configuration of each. `tlapm
WHJDriverProofs.tla` checks the proofs of a module. No run takes more than three
minutes with two workers.
