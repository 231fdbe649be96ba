----------------------------- MODULE DriverCalls -----------------------------
(***************************************************************************)
(* The public calls of WHJDriver as the register accesses they make, in    *)
(* order.  A 32-bit argument is a record of its halves; a float argument   *)
(* is the 32-bit unit value it is converted to.  The asynchronous calls    *)
(* and the methods that only rename one of these (getErrorCode, setMaxSpeed, *)
(* clearError, ...) are the same accesses made by another thread or with   *)
(* another register.                                                       *)
(***************************************************************************)
EXTENDS Naturals, Sequences

\* Register addresses (enum class Register)
SYS_ID == 1
SYS_MODEL_TYPE == 2
SYS_ERROR == 4
SYS_VOLTAGE == 5
SYS_ENABLE_DRIVER == 10
SYS_SAVE_TO_FLASH == 12
SYS_SET_ZERO_POS == 14
SYS_CLEAR_ERROR == 15
CUR_CURRENT_L == 16
TAG_WORK_MODE == 48
TAG_CURRENT_L == 50
TAG_SPEED_L == 52
TAG_POSITION_L == 54
LIT_MAX_SPEED == 65
LIT_MIN_POSITION_L == 68
LIT_MAX_POSITION_L == 70
SEV_CURRENT_P == 81
SEV_SPEED_P == 84
SEV_POSITION_P == 88

Access(m, cmd, reg, count, val, must, need) ==
    [motor |-> m, cmd |-> cmd, reg |-> reg, count |-> count, val |-> val,
     must |-> must, need |-> need]

\* The value field of a read is not used; 0 stands in it.
WriteRegister(m, reg, val) == <<Access(m, "write", reg, 1, val, TRUE, 0)>>

ReadRegister(m, reg) == <<Access(m, "read", reg, 1, 0, TRUE, 1)>>

\* The public readRegisters returns the values whatever their number.
ReadRegisters(m, reg, count) == <<Access(m, "read", reg, count, 0, TRUE, 0)>>

\* A batch read whose caller checks values->size() < count.
ReadBlock(m, reg, count) == <<Access(m, "read", reg, count, 0, TRUE, count)>>

\* The same accesses, made by a caller that goes on when they fail.
Optional(c) == [s \in DOMAIN c |-> [c[s] EXCEPT !.must = FALSE]]

\* Low half first; the high half only if the low half was acknowledged.
WriteInt32(m, low_reg, v) ==
    WriteRegister(m, low_reg, v.low) \o WriteRegister(m, low_reg + 1, v.high)

EnableMotor(m, enable) == WriteRegister(m, SYS_ENABLE_DRIVER, IF enable THEN 1 ELSE 0)
ClearError(m)          == WriteRegister(m, SYS_CLEAR_ERROR, 1)
SetWorkMode(m, mode)   == WriteRegister(m, TAG_WORK_MODE, mode)
SaveToFlash(m)         == WriteRegister(m, SYS_SAVE_TO_FLASH, 1)
SetZeroPosition(m)     == WriteRegister(m, SYS_SET_ZERO_POS, 1)
SetMaxSpeed(m, rpm)    == WriteRegister(m, LIT_MAX_SPEED, rpm)
SetMotorID(m, new)     == WriteRegister(m, SYS_ID, new)

SetTargetCurrent(m, v)  == WriteInt32(m, TAG_CURRENT_L, v)
SetTargetSpeed(m, v)    == WriteInt32(m, TAG_SPEED_L, v)
SetTargetPosition(m, v) == WriteInt32(m, TAG_POSITION_L, v)

SetPositionLimits(m, min, max) ==
    WriteInt32(m, LIT_MIN_POSITION_L, min) \o WriteInt32(m, LIT_MAX_POSITION_L, max)

\* kp, ki, kd and dead_zone, in that order, each only if the last succeeded.
WritePID(m, first, pid) ==
    WriteRegister(m, first, pid.kp) \o WriteRegister(m, first + 1, pid.ki)
      \o WriteRegister(m, first + 2, pid.kd)

SetPositionPID(m, pid) ==
    WritePID(m, SEV_POSITION_P, pid) \o WriteRegister(m, SEV_POSITION_P + 3, pid.dead_zone)
SetSpeedPID(m, pid) ==
    WritePID(m, SEV_SPEED_P, pid) \o WriteRegister(m, SEV_SPEED_P + 3, pid.dead_zone)
SetCurrentPID(m, pid) == WritePID(m, SEV_CURRENT_P, pid)

GetWorkMode(m)       == ReadRegister(m, TAG_WORK_MODE)
GetErrorCode(m)      == ReadRegister(m, SYS_ERROR)
GetMotorInfo(m)      == ReadBlock(m, SYS_ID, 7)
GetPositionLimits(m) == ReadBlock(m, LIT_MIN_POSITION_L, 4)
GetPIDParams(m)      == ReadBlock(m, SEV_CURRENT_P, 13)

\* The status block and the mode are added to the state if they can be read.
GetJointState(m) ==
    ReadBlock(m, CUR_CURRENT_L, 6)
      \o Optional(ReadBlock(m, SYS_VOLTAGE, 4) \o GetWorkMode(m))

Ping(m) == ReadRegister(m, SYS_MODEL_TYPE)

\* scan: one ping per id of the sequence, whatever the others answer.
Scan(ids) == [s \in DOMAIN ids |-> [Ping(ids[s])[1] EXCEPT !.must = FALSE]]
=============================================================================
