------------------------------ MODULE MCLinuxCAN ------------------------------
(***************************************************************************)
(* Instances of LinuxCAN for TLC: one thread that opens and closes the     *)
(* interface, and one that sends and receives.                             *)
(***************************************************************************)
EXTENDS LinuxCAN

CONSTANTS control, worker

OneController ==
    [u \in Users |-> IF u = control THEN {"init", "close", "register"} ELSE {"send", "receive"}]
=============================================================================
