---------------------------- MODULE MotorController ----------------------------
(***************************************************************************)
(* MotorController of src/examples/python/motor_control.py on the receive  *)
(* buffer of ZlgCanDriver: a command clears the buffer, is sent, and takes *)
(* the first frame with the motor's response id for its answer, whatever   *)
(* it answers.  The calls then look at the length of the answer and at the *)
(* values in it, never at the command or the register.                     *)
(***************************************************************************)
EXTENDS Integers, Sequences, SequencesExt

CONSTANTS
    Angles,     \* positions of the motor, in units of 0.0001 degree
    Codes,      \* error codes of the motor
    MaxLate,    \* bound: calls that a frame may be late
    None        \* Python's None

ASSUME ControllerAssumption ==
    /\ \A p \in Angles : p \in Int /\ -32768 <= p \div 65536 /\ p \div 65536 < 32768
    /\ 0 \in Codes /\ \A c \in Codes : c \in Int /\ 0 <= c /\ c < 65536
    /\ MaxLate \in Nat
    /\ None \notin Int /\ None \notin Seq(Int)

VARIABLES
    motor,      \* the motor, or None while no program looks at it
    line,       \* exchanges under way, oldest first
    buffer,     \* answers in the receive buffer
    waiting     \* send_command waits for an answer

controllerVars == <<motor, line, buffer, waiting>>

Motors == [position : Angles, target : Angles, enabled : BOOLEAN, error : Codes]

-----------------------------------------------------------------------------
(* Frames.  An answer is its bytes from the third on, and its age: how many *)
(* calls of send_command came after the one it answers.                     *)

Read(reg) == [reg |-> reg, value |-> None]
Write(reg, value) == [reg |-> reg, value |-> value]

Low(v) == v % 65536
High(v) == (v \div 65536) % 65536

\* parse_32bit_value
Parse32(low, high) == (IF high >= 32768 THEN high - 65536 ELSE high) * 65536 + low

\* build_write_frame and the motor's answers: low byte first.
Bytes(word) == <<word % 256, word \div 256>>

\* The word at byte i of an answer.
Word(f, i) == f.bytes[i] + 256 * f.bytes[i + 1]

\* `not resp or len(resp) < 2 + n`
Short(f, n) == f = None \/ Len(f.bytes) < n

\* get_error_status, is_enabled and get_position of the answer f.
ErrorIn(f) == IF Short(f, 2) THEN None ELSE Word(f, 1)
EnabledIn(f) == ~Short(f, 2) /\ Word(f, 1) = 1
PositionIn(f) == IF Short(f, 4) THEN None ELSE Parse32(Word(f, 1), Word(f, 3))

-----------------------------------------------------------------------------
(* The motor *)

\* What it answers to a read; version 1.5.
Answer(reg) ==
    CASE reg = "version"  -> Bytes(261)
      [] reg = "error"    -> Bytes(motor.error)
      [] reg = "enable"   -> Bytes(IF motor.enabled THEN 1 ELSE 0)
      [] reg = "position" -> Bytes(Low(motor.position)) \o Bytes(High(motor.position))

\* A write takes effect.  An error may persist when it is cleared, and a motor
\* without one may meet one when it is enabled.
Apply(reg, value) ==
    \/ /\ reg = "enable" /\ value = 0
       /\ motor' = [motor EXCEPT !.enabled = FALSE]
    \/ /\ reg = "enable" /\ value = 1
       /\ \E e \in IF motor.error = 0 THEN Codes ELSE {motor.error} :
             motor' = [motor EXCEPT !.enabled = TRUE, !.error = e]
    \/ /\ reg = "clear"
       /\ \E e \in {0, motor.error} : motor' = [motor EXCEPT !.error = e]
    \/ /\ reg = "zero"
       /\ \E e \in {0, motor.error} :
             motor' = [motor EXCEPT !.position = 0, !.error = e]
    \/ /\ reg = "low"
       /\ motor' = [motor EXCEPT !.target = Parse32(value, High(motor.target))]
    \/ /\ reg = "high"
       /\ motor' = [motor EXCEPT !.target = Parse32(Low(motor.target), value)]
    \/ reg \in {"save", "mode"} /\ UNCHANGED motor

\* The motor serves the oldest request that it has not served, or refuses it:
\* an acknowledgement with 0, or an error frame, which is as long.
Serve ==
    /\ \E i \in DOMAIN line :
         /\ line[i].bytes = None
         /\ \A j \in 1 .. i - 1 : line[j].bytes # None
         /\ LET cmd == line[i].cmd
                Reply(bytes) == line' = [line EXCEPT ![i].bytes = bytes]
            IN  \/ cmd.value = None /\ Reply(Answer(cmd.reg)) /\ UNCHANGED motor
                \/ cmd.value # None /\ Reply(<<1>>) /\ Apply(cmd.reg, cmd.value)
                \/ Reply(<<0>>) /\ UNCHANGED motor
    /\ UNCHANGED <<buffer, waiting>>

\* A request or an answer is lost.
Lose ==
    /\ \E i \in DOMAIN line : line' = RemoveAt(line, i)
    /\ UNCHANGED <<motor, buffer, waiting>>

\* An answer reaches the receive buffer.
Arrive ==
    /\ line # <<>> /\ line[1].bytes # None
    /\ buffer' = Append(buffer, [bytes |-> line[1].bytes, age |-> line[1].age])
    /\ line' = Tail(line)
    /\ UNCHANGED <<motor, waiting>>

-----------------------------------------------------------------------------
(* send_command *)

\* Another call begins: the oldest frame, if it is now more than MaxLate calls
\* late, is lost.
Aged ==
    LET older == [i \in DOMAIN line |-> [line[i] EXCEPT !.age = @ + 1]]
    IN  IF line # <<>> /\ line[1].age = MaxLate THEN Tail(older) ELSE older

\* (bug) The buffer is not cleared.
SendAtOnce(cmd) ==
    /\ ~waiting
    /\ line' = Append(Aged, [cmd |-> cmd, age |-> 0, bytes |-> None])
    /\ waiting' = TRUE
    /\ UNCHANGED <<motor, buffer>>

\* clear_buffer and send.
SendCommand(cmd) ==
    /\ ~waiting
    /\ buffer' = <<>>
    /\ line' = Append(Aged, [cmd |-> cmd, age |-> 0, bytes |-> None])
    /\ waiting' = TRUE
    /\ UNCHANGED motor

\* The answers it may return now.
Results == {None} \cup {f \in Range(buffer) : f = Head(buffer)}

\* It returns f: None if the send fails or time is up, else the first answer.
Returns(f) ==
    /\ \/ ~waiting /\ f = None /\ buffer' = <<>> /\ line' = Aged
       \/ waiting /\ buffer = <<>> /\ f = None /\ UNCHANGED <<buffer, line>>
       \/ /\ waiting /\ buffer # <<>>
          /\ f = Head(buffer)
          /\ buffer' = Tail(buffer)
          /\ UNCHANGED line
    /\ waiting' = FALSE
    /\ UNCHANGED motor
=============================================================================
