---------------------------- MODULE DriverResults ----------------------------
(***************************************************************************)
(* The states and descriptions that the calls of WHJDriver return, against *)
(* what the registers of the motor have held.                              *)
(***************************************************************************)
EXTENDS WHJDriver, DriverValues

\* Thread t's last call was c, and it succeeded.
Succeeded(t, c) == outcome[t] = "ok" /\ task[t] = c

(***************************************************************************)
(* The current, the speed and the position of a joint state are what the   *)
(* motor measured, all three at one instant ("Get complete joint state in  *)
(* a single operation"), with any threads, losses and delays.              *)
(***************************************************************************)
MotionTrue ==
    \A t \in Threads, m \in Motors :
        Succeeded(t, GetJointState(m)) =>
            \E rf \in past[m] : Motion(got[t][1]) = MotionAt(rf)

(***************************************************************************)
(* The same for the description of a motor, except for its unique id.  Of  *)
(* the registers of its id and its model type the description has the low  *)
(* byte, which is all of a register whose value is a byte.                 *)
(***************************************************************************)
InfoTrue ==
    \A t \in Threads, m \in Motors :
        Succeeded(t, GetMotorInfo(m)) =>
            \E rf \in past[m] : Info(got[t][1]) = InfoAt(rf)

\* What the reading calls return was true of the motor at one instant.
ResultsTrue == MotionTrue /\ InfoTrue

(***************************************************************************)
(* The status of a joint state is what the motor's registers held ("Read   *)
(* additional status (voltage, temp, error, enable)").                     *)
(***************************************************************************)
StatusTrue ==
    \A t \in Threads, m \in Motors :
        Succeeded(t, GetJointState(m)) /\ got[t][2] # NoVals =>
            \E rf \in past[m] : Status(got[t][2]) = StatusAt(rf)
=============================================================================
