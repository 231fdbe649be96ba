---------------------------- MODULE MCWHJDriver ----------------------------
(***************************************************************************)
(* Instances of WHJDriver for TLC.  Motors are the model values m1 and m2, *)
(* threads t1 and t2; two register values are enough to tell a stale or a  *)
(* torn value from the right one.                                          *)
(***************************************************************************)
EXTENDS WHJDriver, DriverCalls

CONSTANTS m1, m2, t1, t2

TargetRegs == TAG_POSITION_L .. TAG_POSITION_L + 1

One == [low |-> 1, high |-> 1]
Zero == [low |-> 0, high |-> 0]

\* All registers start at 0.
ZeroFile == {[r \in Regs |-> 0]}

\* One user thread per motor: one commands positions, one sets and reads back
\* a register of its own motor.
ExclusiveCalls ==
    [t \in Threads |->
        IF t = t1
        THEN {SetTargetPosition(m1, One), SetTargetPosition(m1, Zero)}
        ELSE {WriteRegister(m2, TAG_POSITION_L, v) : v \in Vals}
               \cup {ReadRegister(m2, TAG_POSITION_L)}]

\* Two threads on one motor, e.g. asyncEnableMotor and asyncSetTargetPosition.
SharedRegs == TargetRegs \cup {SYS_ENABLE_DRIVER}
SharedCalls ==
    [t \in Threads |->
        IF t = t1 THEN {SetTargetPosition(m1, One)} ELSE {EnableMotor(m1, TRUE)}]
=============================================================================
