----------------------------- MODULE MCWireDriver -----------------------------
(***************************************************************************)
(* Instances of WireDriver for TLC.                                        *)
(***************************************************************************)
EXTENDS WireDriver

\* Every bitmap that a register can hold.
ASSUME \A v \in Word16 : BitmapParses(v)

ASSUME FewRetries /\ InsistsFirst

\* The registers of the blocks the calls read and write.
BlockRegs == 1 .. 15 \cup 16 .. 21 \cup 48 .. 55 \cup 64 .. 71 \cup 81 .. 93

\* Neighbouring registers differ; each register takes each value in one file.
MixedFiles == {[r \in Regs |-> <<0, 1, 65535>>[((r + k) % 3) + 1]] : k \in 0 .. 2}

One == [low |-> 1, high |-> 0]
MinusOne == [low |-> 65535, high |-> 65535]
MinLimit == -65535
MaxLimit == 65535
Gains == [kp |-> 1, ki |-> 0, kd |-> 65535, dead_zone |-> 1]

\* Every call of the public interface, to the motor m.
CallsTo(m) ==
    {EnableMotor(m, TRUE), EnableMotor(m, FALSE), ClearError(m), SetWorkMode(m, 1),
     SaveToFlash(m), SetZeroPosition(m), SetMaxSpeed(m, 1), SetMotorID(m, 1),
     SetTargetCurrent(m, One), SetTargetSpeed(m, MinusOne), SetTargetPosition(m, MinusOne),
     SetPositionLimits(m, Halves(MinLimit), Halves(MaxLimit)),
     SetPositionPID(m, Gains), SetSpeedPID(m, Gains), SetCurrentPID(m, Gains),
     GetWorkMode(m), GetErrorCode(m), GetMotorInfo(m), GetPositionLimits(m),
     GetPIDParams(m), GetJointState(m), ReadRegisters(m, CUR_CURRENT_L, 6)}

ToMotors == (UNION {CallsTo(m) : m \in Motors}) \cup {Scan(<<1, 17>>)}

\* scan() of the driver
FullScan == Scan([i \in 1 .. MAX_MOTOR_ID |-> i])

InSimulation == CallsTo(1) \cup {FullScan}
=============================================================================
