--------------------------- MODULE MCDriverResults ---------------------------
(***************************************************************************)
(* Instances of DriverResults for TLC.                                     *)
(***************************************************************************)
EXTENDS MCWHJDriver, DriverResults

\* The registers of the blocks, and enough after each for an answer of seven.
BlockRegs == 1 .. 11 \cup 16 .. 22 \cup TAG_WORK_MODE .. TAG_WORK_MODE + 6

\* Neighbouring registers differ, and some values have the sign bit.
MixedFile == {[r \in Regs |-> <<0, 1, 65535>>[(r % 3) + 1]]}

\* The same with two values.
TwoValuedFile == {[r \in Regs |-> IF r % 3 = 0 THEN 0 ELSE 65535]}

\* A motor that is enabled and has no error, with a reduction ratio of 80.
HealthyFile ==
    {[r \in Regs |-> CASE r = SYS_REDU_RATIO -> 80
                      [] r = SYS_ENABLE_DRIVER -> 1
                      [] OTHER -> 0]}

\* The high half of the position moves by itself.
PositionHigh == {CUR_POSITION_L + 1}

\* Two threads on one motor: one reads its state, the other its description
\* or writes one of its registers.
SharedStateCalls ==
    [t \in Threads |->
        IF t = t1 THEN {GetJointState(m1)} ELSE {GetMotorInfo(m1), EnableMotor(m1, FALSE)}]
=============================================================================
