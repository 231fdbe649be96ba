----------------------------- MODULE DriverValues -----------------------------
(***************************************************************************)
(* What the calls of WHJDriver that read blocks of registers make of the   *)
(* values: JointState, MotorInfo, position limits and PID parameters; and  *)
(* the same quantities in a register file.  The scaling of an integer to a *)
(* float (degrees, RPM, volts) is left out: a quantity is the integer that *)
(* is scaled.                                                              *)
(***************************************************************************)
EXTENDS DriverCalls, Integers

\* More registers (enum class Register)
SYS_FW_VERSION == 3
SYS_TEMP == 6
SYS_REDU_RATIO == 7
CUR_SPEED_L == 18
CUR_POSITION_L == 20
SEV_POS_SMOOTH == 92
SEV_SPD_FF == 93

\* 16 bits as a signed number.
Signed(half) == IF half >= 32768 THEN half - 65536 ELSE half

\* unpackInt32
Unpack(low, high) == Signed(high) * 65536 + low

\* The halves that writeInt32 writes.
Halves(v) == [low |-> v % 65536, high |-> (v \div 65536) % 65536]

-----------------------------------------------------------------------------
(* The values v that the calls get; v[1] is the first *)

\* (bug) The speed and the position change places.
SwappedMotion(v) ==
    [current |-> Unpack(v[1], v[2]), speed |-> Unpack(v[5], v[6]),
     position |-> Unpack(v[3], v[4])]

\* getJointState, first block
Motion(v) ==
    [current |-> Unpack(v[1], v[2]), speed |-> Unpack(v[3], v[4]),
     position |-> Unpack(v[5], v[6])]

\* getJointState, second block
Status(v) ==
    [voltage |-> v[1], temperature |-> v[2], error_code |-> v[3],
     is_enabled |-> v[4] % 2 = 1]

\* What a uint8_t keeps of a register.
LowByte(half) == half % 256

\* getMotorInfo; motor_id and model_type are uint8_t.
Info(v) ==
    [motor_id |-> LowByte(v[1]), model_type |-> LowByte(v[2]),
     firmware |-> v[3], ratio |-> v[7]]

\* getPositionLimits
Limits(v) == [min |-> Unpack(v[1], v[2]), max |-> Unpack(v[3], v[4])]

\* (bug) The speed loop has no dead zone, as the current loop has none.
ShiftedPIDs(v) ==
    [current |-> [kp |-> v[1], ki |-> v[2], kd |-> v[3]],
     speed |-> [kp |-> v[4], ki |-> v[5], kd |-> v[6], dead_zone |-> 0],
     position |-> [kp |-> v[7], ki |-> v[8], kd |-> v[9], dead_zone |-> v[10]],
     pos_smooth_coeff |-> v[11], speed_ff_coeff |-> v[12]]

\* getPIDParams
PIDs(v) ==
    [current |-> [kp |-> v[1], ki |-> v[2], kd |-> v[3]],
     speed |-> [kp |-> v[4], ki |-> v[5], kd |-> v[6], dead_zone |-> v[7]],
     position |-> [kp |-> v[8], ki |-> v[9], kd |-> v[10], dead_zone |-> v[11]],
     pos_smooth_coeff |-> v[12], speed_ff_coeff |-> v[13]]

-----------------------------------------------------------------------------
(* The same quantities in a register file rf *)

Int32At(rf, low_reg) == Unpack(rf[low_reg], rf[low_reg + 1])

MotionAt(rf) ==
    [current |-> Int32At(rf, CUR_CURRENT_L), speed |-> Int32At(rf, CUR_SPEED_L),
     position |-> Int32At(rf, CUR_POSITION_L)]

StatusAt(rf) ==
    [voltage |-> rf[SYS_VOLTAGE], temperature |-> rf[SYS_TEMP],
     error_code |-> rf[SYS_ERROR], is_enabled |-> rf[SYS_ENABLE_DRIVER] % 2 = 1]

\* An id and a model type have eight bits: of the registers, the low byte.
InfoAt(rf) ==
    [motor_id |-> LowByte(rf[SYS_ID]), model_type |-> LowByte(rf[SYS_MODEL_TYPE]),
     firmware |-> rf[SYS_FW_VERSION], ratio |-> rf[SYS_REDU_RATIO]]

LimitsAt(rf) ==
    [min |-> Int32At(rf, LIT_MIN_POSITION_L), max |-> Int32At(rf, LIT_MAX_POSITION_L)]

PIDsAt(rf) ==
    LET gains(p) == [kp |-> rf[p], ki |-> rf[p + 1], kd |-> rf[p + 2]]
        loop(p) == [kp |-> rf[p], ki |-> rf[p + 1], kd |-> rf[p + 2],
                    dead_zone |-> rf[p + 3]]
    IN  [current |-> gains(SEV_CURRENT_P), speed |-> loop(SEV_SPEED_P),
         position |-> loop(SEV_POSITION_P),
         pos_smooth_coeff |-> rf[SEV_POS_SMOOTH], speed_ff_coeff |-> rf[SEV_SPD_FF]]
=============================================================================
