------------------------------ MODULE WireDriver ------------------------------
(***************************************************************************)
(* One call of WHJDriver on the wire: the frames of Protocol, and what     *)
(* answers them, which is a motor on a CAN FD bus or the simulated motor   *)
(* of the Windows interface (src/src/platform/windows_can.cpp).            *)
(*                                                                         *)
(* There is one thread and no late answer, so that an exchange is a        *)
(* request and then its reply or the timeout; what several threads and     *)
(* late answers do is in WHJDriver.  A motor may refuse a request, answer  *)
(* it with an error, or stay silent.                                       *)
(***************************************************************************)
EXTENDS Protocol, FiniteSets, Functions

CONSTANTS
    Motors,         \* motor ids as the caller gives them
    Regs,           \* register addresses of a motor
    Vals,           \* 16-bit register values
    InitialFiles,   \* contents the registers of a motor may start with
    MotorCalls,     \* the calls that are made to motors
    SimulatedCalls, \* the calls that are made in the simulation
    RetryCounts,    \* values of retry_count_
    Period,         \* the simulation answers every Period-th request (10)
    NoFrame,
    NoVals          \* "this access has returned no values"

\* uint8_t and uint16_t
Byte == 0 .. 255
UINT16_MAX == 65535
Word16 == 0 .. UINT16_MAX

BusIds == {m % 32 : m \in Motors}

\* The accesses that a call may be made of.  The answer to a read has to fit in
\* a frame, and its caller never needs more values than it asks for.
Accesses ==
    [motor : Byte, cmd : {"read", "write"}, reg : Byte, count : 0 .. 31, val : Word16,
     must : BOOLEAN, need : 0 .. 31]

LegalCall(c) ==
    /\ c \in Seq(Accesses) /\ c # << >>
    /\ \A s \in DOMAIN c :
         /\ c[s].need <= c[s].count
         /\ c[s].need = 1 => c[s].count = 1
         /\ c[s].cmd = "write" => c[s].need = 0

\* The motor has the registers that are accessed.
Served(s) ==
    /\ s.motor \in Motors
    /\ \A i \in 1 .. s.count : s.reg + i - 1 \in Regs
    /\ s.cmd = "write" => s.reg \in Regs /\ s.val \in Vals

ASSUME WireAssumption ==
    /\ Motors \subseteq Byte
    /\ Vals \subseteq Word16
    /\ InitialFiles \subseteq [Regs -> Vals]
    /\ \A c \in MotorCalls \cup SimulatedCalls : LegalCall(c)
    /\ \A c \in MotorCalls : \A s \in DOMAIN c : Served(c[s])
    /\ RetryCounts \subseteq Nat
    /\ Period \in Nat \ {0}
    /\ NoVals \notin Seq(Word16)

VARIABLES
    peer,           \* what answers: "motor" or "simulation"
    initialized,    \* initialized_
    retry_count,    \* retry_count_
    count,          \* sim_message_count_, modulo Period
    pc,             \* "idle", "access", "request", "reply" or "silence"
    frame,          \* the last frame
    task, step,     \* the call, and its current access
    retry,          \* the loop counter of the access
    got, outcome,   \* what the accesses and the call have returned
    regs,           \* the registers of each motor
    done, sample,   \* history: see RegisterService
    misses,         \* history: attempts at the access without a proper answer
    refused         \* history: a write of the call was refused

setup  == <<peer, initialized, retry_count>>
caller == <<task, step, retry, got, outcome>>
motor  == <<regs, done>>
vars   == <<setup, count, pc, frame, caller, motor, sample, misses, refused>>

\* Next uses none of the operators marked (bug).

Cur == task[step]

\* readRegister, which returns one value and looks at the id.
Single(s) == s.cmd = "read" /\ s.need = 1

Rejected == ~initialized \/ (Single(Cur) /\ Cur.motor \notin 1 .. MAX_MOTOR_ID)

RequestFrame(s) ==
    IF s.cmd = "read" THEN ReadFrame(s.motor, s.reg, s.count)
                      ELSE WriteFrame(s.motor, s.reg, s.val)

-----------------------------------------------------------------------------
(* The driver *)

Return(result) ==
    /\ pc' = "idle"
    /\ outcome' = result
    /\ UNCHANGED <<step, retry, misses>>

\* The call goes on to its next access, or returns success after the last.
NextAccess ==
    IF step = Len(task)
    THEN Return("ok")
    ELSE /\ pc' = "access"
         /\ step' = step + 1
         /\ retry' = 0
         /\ misses' = {}
         /\ UNCHANGED outcome

AccessSucceeds(vals) ==
    /\ NextAccess
    /\ got' = [got EXCEPT ![step] = vals]

AccessFails ==
    /\ IF Cur.must THEN Return("failed") ELSE NextAccess
    /\ UNCHANGED got

Again ==
    /\ pc' = "access"
    /\ retry' = retry + 1
    /\ UNCHANGED <<step, got, outcome, misses>>

StartCall ==
    /\ outcome = "none"
    /\ task' \in (IF peer = "motor" THEN MotorCalls ELSE SimulatedCalls)
    /\ got' = [s \in DOMAIN task' |-> NoVals]
    /\ outcome' = "busy"
    /\ pc' = "access"
    /\ UNCHANGED <<setup, count, frame, step, retry, motor, sample, misses, refused>>

\* Not initialised, an invalid id, or the loop is exhausted.
GiveUp ==
    /\ pc = "access"
    /\ Rejected \/ retry >= retry_count
    /\ AccessFails
    /\ sample' = NoVals
    /\ UNCHANGED <<setup, count, frame, task, motor, refused>>

Transmit ==
    /\ pc = "access"
    /\ ~Rejected
    /\ retry < retry_count
    /\ frame' = RequestFrame(Cur)
    /\ pc' = "request"
    /\ UNCHANGED <<setup, count, caller, motor, sample, misses, refused>>

\* send returned false, or wait_for expired.
Unanswered ==
    /\ pc = "silence"
    /\ Again
    /\ UNCHANGED <<setup, count, frame, task, motor, sample, refused>>

\* (bug) A block must have exactly the length that was asked for.
EnoughExactly(values) == Len(values) = Cur.need

\* values->size() < n is the condition for failure.
Enough(values) == Len(values) >= Cur.need

\* readRegister: values[0], and another try if there is none.
ConcludeSingle ==
    /\ pc = "reply"
    /\ Single(Cur)
    /\ IF ReadParses(frame, Cur.motor, Cur.reg) /\ ReadValues(frame) # << >>
       THEN AccessSucceeds(<<ReadValues(frame)[1]>>) /\ sample' = NoVals
       ELSE Again /\ UNCHANGED sample
    /\ UNCHANGED <<setup, count, frame, task, motor, refused>>

\* readRegisters, and the test of the caller for enough values.
ConcludeBlock ==
    /\ pc = "reply"
    /\ Cur.cmd = "read" /\ ~Single(Cur)
    /\ IF ReadParses(frame, Cur.motor, Cur.reg)
       THEN /\ IF Enough(ReadValues(frame)) THEN AccessSucceeds(ReadValues(frame))
                                            ELSE AccessFails
            /\ sample' = NoVals
       ELSE Again /\ UNCHANGED sample
    /\ UNCHANGED <<setup, count, frame, task, motor, refused>>

\* writeRegister
ConcludeWrite ==
    /\ pc = "reply"
    /\ Cur.cmd = "write"
    /\ IF WriteParses(frame, Cur.motor)
       THEN /\ IF WriteAcknowledged(frame) THEN AccessSucceeds(NoVals) ELSE AccessFails
            /\ sample' = NoVals
       ELSE Again /\ UNCHANGED sample
    /\ UNCHANGED <<setup, count, frame, task, motor, refused>>

-----------------------------------------------------------------------------
(* The motor, which decodes the bytes it gets *)

Reply(bytes) ==
    /\ pc' = "reply"
    /\ frame' = [id |-> frame.id + RESPONSE_ID_OFFSET, data |-> bytes]

\* The lengths a CAN FD frame can have.
FrameLengths == 0 .. 8 \cup {12, 16, 20, 24, 32, 48, 64}

\* The bus makes a frame as long as the next such length, with zeros.
Padded(bytes) ==
    LET n == CHOOSE n \in FrameLengths :
                 n >= Len(bytes) /\ \A k \in FrameLengths : k >= Len(bytes) => n <= k
    IN  bytes \o [i \in 1 .. n - Len(bytes) |-> 0]

Content(m, reg, n) == [i \in 1 .. n |-> regs[m][reg + i - 1]]

ByteOf(values, i) ==
    LET v == values[(i + 1) \div 2] IN IF i % 2 = 1 THEN v % 256 ELSE v \div 256

MotorReads ==
    /\ pc = "request" /\ peer = "motor"
    /\ frame.data[1] = CMD_READ
    /\ LET values == Content(frame.id, frame.data[2], frame.data[3])
       IN  /\ Reply(Padded(<<CMD_READ, frame.data[2]>>
                             \o [i \in 1 .. 2 * frame.data[3] |-> ByteOf(values, i)]))
           /\ sample' = values
    /\ UNCHANGED <<setup, count, caller, motor, misses, refused>>

MotorWrites ==
    /\ pc = "request" /\ peer = "motor"
    /\ frame.data[1] = CMD_WRITE
    /\ regs' = [regs EXCEPT ![frame.id][frame.data[2]] = frame.data[3] + 256 * frame.data[4]]
    /\ done' = done \cup {step}
    /\ Reply(<<CMD_WRITE, frame.data[2], WRITE_SUCCESS>>)
    /\ UNCHANGED <<setup, count, caller, sample, misses, refused>>

MotorRefuses ==
    /\ pc = "request" /\ peer = "motor"
    /\ frame.data[1] = CMD_WRITE
    /\ Reply(<<CMD_WRITE, frame.data[2], WRITE_FAILED>>)
    /\ refused' = TRUE
    /\ UNCHANGED <<setup, count, caller, motor, sample, misses>>

\* An error frame, whose second byte says which error; or no data at all.
MotorErrs ==
    /\ pc = "request" /\ peer = "motor"
    /\ Reply(<<CMD_ERR, 1>>) \/ Reply(<< >>)
    /\ misses' = misses \cup {retry}
    /\ UNCHANGED <<setup, count, caller, motor, sample, refused>>

\* The interface does not take the request, or it or its reply is lost.
MotorSilent ==
    /\ pc \in {"request", "reply"} /\ peer = "motor"
    /\ pc' = "silence"
    /\ misses' = misses \cup {retry}
    /\ UNCHANGED <<setup, count, frame, caller, motor, sample, refused>>

-----------------------------------------------------------------------------
(* The simulation *)

\* (bug) Every third request is answered.
AnswersEveryThird(n) == n % 3 = 0

\* sim_message_count_ % 10 == 0
Answers(n) == n % Period = 0

\* The request comes back, marked as a response, at once.
Simulate ==
    /\ pc = "request" /\ peer = "simulation"
    /\ count' = (count + 1) % Period
    /\ IF Answers(count')
       THEN Reply(IF frame.data[1] = CMD_READ
                  THEN <<CMD_READ, frame.data[2], 52, 18>>
                  ELSE <<CMD_WRITE, frame.data[2], 1>>)
       ELSE pc' = "silence" /\ UNCHANGED frame
    /\ UNCHANGED <<setup, caller, motor, sample, misses, refused>>

-----------------------------------------------------------------------------
\* A driver that has made some calls before, without which the simulation
\* would always begin at 0.
Init ==
    /\ peer \in {"motor", "simulation"}
    /\ initialized \in BOOLEAN
    /\ retry_count \in RetryCounts
    /\ count \in (IF peer = "motor" THEN {0} ELSE 0 .. Period - 1)
    /\ regs \in (IF peer = "motor" THEN {[m \in BusIds |-> f] : f \in InitialFiles}
                                   ELSE {<< >>})
    /\ pc = "idle"
    /\ frame = NoFrame
    /\ task = << >> /\ step = 1 /\ retry = 0
    /\ got = << >> /\ outcome = "none"
    /\ done = {} /\ sample = NoVals
    /\ misses = {} /\ refused = FALSE

Caller == StartCall \/ GiveUp \/ Transmit \/ Unanswered
            \/ ConcludeSingle \/ ConcludeBlock \/ ConcludeWrite

Motor == MotorReads \/ MotorWrites \/ MotorRefuses \/ MotorErrs \/ MotorSilent

Next == Caller \/ Motor \/ Simulate

Spec == Init /\ [][Next]_vars
-----------------------------------------------------------------------------
(* Properties *)

(***************************************************************************)
(* The wire is a register service.  A call to an id is served by the motor *)
(* that the low five bits of the id name, which is that motor for every    *)
(* valid id, and another one for an id above 31; and the values of a block *)
(* are what the motor answered, though zeros may follow them.              *)
(***************************************************************************)
Addressed(c) == [s \in DOMAIN c |-> [c[s] EXCEPT !.motor = @ % 32]]

AskedFor(s) == IF got[s] = NoVals THEN NoVals ELSE SubSeq(got[s], 1, task[s].count)

Service == INSTANCE RegisterService WITH
    Motors <- BusIds, Threads <- {"caller"}, Sensors <- {},
    Calls <- [t \in {"caller"} |-> {Addressed(c) : c \in MotorCalls}],
    task <- [t \in {"caller"} |-> Addressed(task)],
    step <- [t \in {"caller"} |-> step],
    busy <- [t \in {"caller"} |-> pc # "idle"],
    got <- [t \in {"caller"} |-> [s \in DOMAIN task |-> AskedFor(s)]],
    outcome <- [t \in {"caller"} |-> outcome],
    done <- [t \in {"caller"} |-> done],
    sample <- [t \in {"caller"} |-> sample]

WireImplementsService == [][peer = "motor" => [Service!Next]_(Service!vars)]_vars

(***************************************************************************)
(* A call fails only for a reason: the driver is not initialised, the id   *)
(* is invalid, a write was refused, or every attempt at an access missed   *)
(* its answer.  In particular never because a reply came back padded.      *)
(***************************************************************************)
FailsForAReason ==
    peer = "motor" /\ outcome = "failed" =>
        Rejected \/ refused \/ Cardinality(misses) >= retry_count

\* Thread-free form of DriverResults!Succeeded, for a call to a motor.
Succeeded(c) == peer = "motor" /\ outcome = "ok" /\ task = c

Int32s == [low : Vals, high : Vals]

LimitsRead(m) ==
    Succeeded(GetPositionLimits(m)) => Limits(got[1]) = LimitsAt(regs[m % 32])

GainsRead(m) ==
    Succeeded(GetPIDParams(m)) => PIDs(got[1]) = PIDsAt(regs[m % 32])

Total(codes) == FoldFunction(LAMBDA a, b : a + b, 0, codes)

\* The error codes of a bitmap make the bitmap again.
BitmapParses(v) == Total(ParseErrorBitmap(v)) = v

ErrorsRead(m) ==
    Succeeded(GetErrorCode(m)) =>
        Total(ParseErrorBitmap(got[1][1])) = regs[m % 32][SYS_ERROR]

LimitsSet(m) ==
    \A min \in Int32s, max \in Int32s :
        Succeeded(SetPositionLimits(m, min, max)) =>
            LimitsAt(regs[m % 32]) = [min |-> Unpack(min.low, min.high),
                                      max |-> Unpack(max.low, max.high)]

(***************************************************************************)
(* Limits, gains and errors that have been read are those in force, and    *)
(* limits that have been set are in force.                                 *)
(***************************************************************************)
SettingsReadBack ==
    \A m \in Motors : LimitsRead(m) /\ GainsRead(m) /\ ErrorsRead(m) /\ LimitsSet(m)

(***************************************************************************)
(* The frame builders of Protocol, which the driver does not use, build    *)
(* the frames that the driver sends for the same call.                     *)
(***************************************************************************)
BuiltAs(c, frames) ==
    pc = "request" /\ task = c /\ step \in DOMAIN frames => frame = frames[step]

BuildersAgree ==
    \A m \in Motors, v \in [low : Vals, high : Vals] :
        /\ \A e \in BOOLEAN : BuiltAs(EnableMotor(m, e), <<BuildEnableMotor(m, e)>>)
        /\ BuiltAs(ClearError(m), <<BuildClearError(m)>>)
        /\ \A mode \in 0 .. 3 : BuiltAs(SetWorkMode(m, mode), <<BuildSetWorkMode(m, mode)>>)
        /\ BuiltAs(SaveToFlash(m), <<BuildSaveToFlash(m)>>)
        /\ BuiltAs(SetZeroPosition(m), <<BuildSetZeroPosition(m)>>)
        /\ BuiltAs(SetTargetCurrent(m, v), BuildSetTargetCurrent(m, v))
        /\ BuiltAs(SetTargetSpeed(m, v), BuildSetTargetSpeed(m, v))
        /\ BuiltAs(SetTargetPosition(m, v), BuildSetTargetPosition(m, v))
        /\ BuiltAs(GetJointState(m), <<BuildReadState(m)>>)

\* Fewer attempts are made than the simulation leaves unanswered in a row.
FewRetries == \A n \in RetryCounts : n < Period

\* A call insists on accesses at its beginning only, if on any.
InsistsFirst ==
    \A c \in SimulatedCalls : \A s, u \in DOMAIN c : s < u /\ c[u].must => c[s].must

(***************************************************************************)
(* In the simulation a call of two accesses, or of a block, never          *)
(* succeeds: after an answer come Period - 1 requests without one, and the *)
(* answer to a read has one value.  No position can be set in it.          *)
(***************************************************************************)
SimulationLimits ==
    peer = "simulation" /\ outcome = "ok" =>
        /\ Cardinality({s \in DOMAIN task : task[s].must}) <= 1
        /\ \A s \in DOMAIN task : task[s].must => task[s].need <= 1

=============================================================================
