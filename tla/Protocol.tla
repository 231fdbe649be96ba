------------------------------- MODULE Protocol -------------------------------
(***************************************************************************)
(* The frames of protocol.hpp, byte by byte.  A frame is its CAN id and    *)
(* its data; frame.len is the length of the data.  The flags (CAN FD, bit  *)
(* rate switch, standard id) are the same in every frame.                  *)
(***************************************************************************)
EXTENDS DriverValues

\* namespace ProtocolConstants
CMD_READ == 1
CMD_WRITE == 2
CMD_ERR == 255
RESPONSE_ID_OFFSET == 256
MAX_MOTOR_ID == 30
WRITE_SUCCESS == 1
WRITE_FAILED == 0

\* (bug) Four bits of the id are kept.
FourBits(motor_id) == motor_id % 16

\* motor_id & 0x1F
FiveBits(motor_id) == motor_id % 32

-----------------------------------------------------------------------------
(* Builders *)

ReadFrame(motor_id, reg, count) ==
    [id |-> FiveBits(motor_id), data |-> <<CMD_READ, reg, count>>]

WriteFrame(motor_id, reg, value) ==
    [id |-> FiveBits(motor_id), data |-> <<CMD_WRITE, reg, value % 256, value \div 256>>]

\* buildWrite32Frame, on the halves of the value
Write32Frame(motor_id, low_reg, v) == WriteFrame(motor_id, low_reg, v.low)

\* (bug) The high half goes to the low register.
Write32HighToLow(motor_id, low_reg, v) == WriteFrame(motor_id, low_reg, v.high)

\* buildWrite32HighFrame
Write32HighFrame(motor_id, low_reg, v) == WriteFrame(motor_id, low_reg + 1, v.high)

\* The pair of frames of a 32-bit target.
Write32Frames(motor_id, low_reg, v) ==
    <<Write32Frame(motor_id, low_reg, v), Write32HighFrame(motor_id, low_reg, v)>>

BuildEnableMotor(motor_id, enable) ==
    WriteFrame(motor_id, SYS_ENABLE_DRIVER, IF enable THEN 1 ELSE 0)
BuildClearError(motor_id)          == WriteFrame(motor_id, SYS_CLEAR_ERROR, 1)
BuildSetWorkMode(motor_id, mode)   == WriteFrame(motor_id, TAG_WORK_MODE, mode)
BuildSetTargetCurrent(motor_id, v) == Write32Frames(motor_id, TAG_CURRENT_L, v)
BuildSetTargetSpeed(motor_id, v)   == Write32Frames(motor_id, TAG_SPEED_L, v)
BuildSetTargetPosition(motor_id, v) == Write32Frames(motor_id, TAG_POSITION_L, v)
BuildReadState(motor_id)           == ReadFrame(motor_id, CUR_CURRENT_L, 6)
BuildSaveToFlash(motor_id)         == WriteFrame(motor_id, SYS_SAVE_TO_FLASH, 1)
BuildSetZeroPosition(motor_id)     == WriteFrame(motor_id, SYS_SET_ZERO_POS, 1)

-----------------------------------------------------------------------------
(* Parsers.  One that throws is an operator that is FALSE. *)

ResponseId(motor_id) == FiveBits(motor_id) + RESPONSE_ID_OFFSET

ValidResponse(frame, motor_id, cmd) ==
    /\ frame.id = ResponseId(motor_id)
    /\ Len(frame.data) >= 2
    /\ frame.data[1] # CMD_ERR
    /\ frame.data[1] = cmd

\* parseReadResponse: does it return?
ReadParses(frame, motor_id, reg) ==
    ValidResponse(frame, motor_id, CMD_READ) /\ frame.data[2] = reg

\* parseReadResponse: what it returns, two bytes a value.  An odd byte at the
\* end is dropped.
ReadValues(frame) ==
    [i \in 1 .. (Len(frame.data) - 2) \div 2 |->
        frame.data[2 * i + 1] + 256 * frame.data[2 * i + 2]]

\* parseWriteResponse: does it return, and what?
WriteParses(frame, motor_id) ==
    ValidResponse(frame, motor_id, CMD_WRITE) /\ Len(frame.data) >= 3

WriteAcknowledged(frame) == frame.data[3] = WRITE_SUCCESS

-----------------------------------------------------------------------------
(* Error codes *)

\* enum class ErrorCode, without NONE
ErrorCodes == [i \in 1 .. 16 |-> 2 ^ (i - 1)]

\* parseErrorBitmap; the code NONE is 0.
ParseErrorBitmap(bitmap) ==
    IF bitmap = 0 THEN <<0>>
    ELSE SelectSeq(ErrorCodes, LAMBDA code : (bitmap \div code) % 2 = 1)
=============================================================================
