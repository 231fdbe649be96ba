------------------------------ MODULE PythonTools ------------------------------
(***************************************************************************)
(* The programs of src/examples/python on one adapter: main of             *)
(* motion_controller.py, whose moves are those of SmoothMotion, and the    *)
(* recovery tool.  Each opens the device when it begins and gives it back  *)
(* when it ends; a program that cannot open it ends at once.               *)
(***************************************************************************)
EXTENDS SmoothMotion, EncoderRecovery

CONSTANT Nobody     \* as in ZlgCan

VARIABLES user, handles

Z == INSTANCE ZlgCan WITH Programs <- {"motion", "recovery"}

zlgVars == <<user, handles>>
toolVars == <<vars, zlgVars, recoveryVars>>

\* init_canfd has succeeded.
Ready(p) == handles[p].open

Opening(p) ==
    /\ Z!OpenDevice(p) \/ Z!InitCanfd(p)
    /\ UNCHANGED <<vars, recoveryVars>>

-----------------------------------------------------------------------------
(* motion_controller.py *)

\* The command m is a move; the menu waits for it.
MotionStep(A) == Ready("motion") /\ A /\ UNCHANGED <<zlgVars, recoveryVars>>

\* The command d: stop, then enable(False), as the other commands a call to the
\* motor that keeps no state here.
MenuDisable ==
    /\ pc = "idle"
    /\ planner' = Reset /\ running' = FALSE
    /\ UNCHANGED <<pc, move, timer, sent, since, result, spc>>

\* The menu is left, or initialize or init_canfd has failed: stop, close.
QuitMotion ==
    /\ handles["motion"].device
    /\ pc = "idle"
    /\ Z!CloseDevice("motion")
    /\ planner' = Reset /\ running' = FALSE
    /\ move' = [start |-> 0, target |-> 0]
    /\ timer' = 0 /\ sent' = 0 /\ since' = 0
    /\ result' = "none" /\ spc' = "idle"
    /\ UNCHANGED <<pc, recoveryVars>>

-----------------------------------------------------------------------------
(* encoder_recovery.py *)

RecoveryStep(A) == Ready("recovery") /\ A /\ UNCHANGED <<zlgVars, vars>>

\* close at the end of main, or the end of the process on a RuntimeError of
\* init_canfd or on Ctrl-C.
QuitRecovery ==
    /\ handles["recovery"].device
    /\ IF rpc = "off" THEN UNCHANGED recoveryVars ELSE EndRecovery
    /\ Z!CloseDevice("recovery")
    /\ UNCHANGED vars

-----------------------------------------------------------------------------
ToolsInit == Init /\ Z!ZlgInit /\ RecoveryInit

ToolsNext ==
    \/ \E p \in {"motion", "recovery"} : Opening(p)
    \/ MotionStep(Next)
    \/ MotionStep(MenuDisable)
    \/ QuitMotion
    \/ RecoveryStep(BeginRecovery \/ Run \/ MotorStep)
    \/ QuitRecovery

\* The thread of a move runs and time passes; no program need be started.
ToolsSpec ==
    /\ ToolsInit /\ [][ToolsNext]_toolVars
    /\ WF_toolVars(MotionStep(MoveStep))
    /\ WF_toolVars(MotionStep(Tick))

=============================================================================
