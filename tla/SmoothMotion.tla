----------------------------- MODULE SmoothMotion -----------------------------
(***************************************************************************)
(* SmoothMotorController of src/examples/python/motion_controller.py:      *)
(* move_to_position plans a trajectory, prepares the motor and then sends  *)
(* a setpoint at each turn of a timed loop; stop may come from another     *)
(* thread, KeyboardInterrupt at any time.                                  *)
(*                                                                         *)
(* A call to the motor is one step, which may fail, and so is a call to    *)
(* the planner.  Time passes between steps.                                *)
(***************************************************************************)
EXTENDS TrapezoidalPlanner

CONSTANTS
    Positions,      \* positions of the motor and targets of moves
    MinTimeout,     \* least automatic timeout (5 s), in ticks
    MaxGap,         \* bound: ticks between two updates, or plan and update
    Stoppable       \* does another thread call stop?

ASSUME MotionAssumption ==
    /\ Positions \subseteq Int
    /\ MinTimeout \in Nat
    /\ MaxGap \in Nat \ {0}
    /\ Stoppable \in BOOLEAN

VARIABLES
    planner,    \* self.planner
    running,    \* self.running
    pc,         \* where move_to_position is
    move,       \* start and target of the last move
    timer,      \* ticks since the loop began
    sent,       \* the last position commanded, or where the motor stood
    since,      \* ticks since the last update of the planner, or the plan
    result,     \* what the last move returned
    spc         \* where the thread that calls stop is

vars == <<planner, running, pc, move, timer, sent, since, result, spc>>

\* Next uses none of the operators marked (bug).

(***************************************************************************)
(* The timeout has passed at loop time t: one and a half times the motion  *)
(* time of a profile that decelerates as it accelerates, at least          *)
(* MinTimeout.  Squared for the triangular profile, to avoid the root.     *)
(***************************************************************************)
TimedOut(mv, t) ==
    /\ t > MinTimeout
    /\ IF 2 * FullAccel >= Distance(mv)
       THEN t * t * AMax > 9 * Distance(mv)
       ELSE 2 * t * VMax * AMax
              > 3 * (2 * VMax * VMax + AMax * (Distance(mv) - 2 * FullAccel))

Return(r) ==
    /\ pc' = "idle"
    /\ result' = r
    /\ running' = FALSE

\* set_target_position: the motor is given a new position.
Command(pos) == sent' = pos

-----------------------------------------------------------------------------
(* move_to_position *)

\* Read the position; nothing to do if it is the target; plan.
Begin ==
    /\ pc = "idle"
    /\ \E from, to \in Positions :
         /\ move' = [start |-> from, target |-> to]
         /\ sent' = from
         /\ IF from = to
            THEN result' = "done" /\ UNCHANGED <<planner, pc>>
            ELSE planner' = Plan(from, to) /\ pc' = "prepare" /\ result' = "none"
    /\ since' = 0
    /\ timer' = 0
    /\ spc' = IF spc = "stopped" THEN "idle" ELSE spc
    /\ UNCHANGED running

\* is_enabled, enable, get_work_mode, set_work_mode.
Prepare ==
    /\ pc = "prepare"
    /\ \/ pc' = "loop" /\ running' = TRUE /\ UNCHANGED result
       \/ pc' = "idle" /\ result' = "failed" /\ UNCHANGED running
    /\ UNCHANGED <<planner, move, timer, sent, since, spc>>

\* (bug) The loop waits to be running again instead of ending.
TurnPauses ==
    /\ pc = "loop"
    /\ running
    /\ \/ TimedOut(move, timer) /\ Return("timeout")
       \/ /\ ~TimedOut(move, timer)
          /\ timer > 0 /\ since > 0
          /\ pc' = "update" /\ UNCHANGED <<result, running>>
    /\ UNCHANGED <<planner, move, timer, sent, since, spc>>

\* while self.running: return False at the timeout, update when it is time.
Turn ==
    /\ pc = "loop"
    /\ \/ ~running /\ pc' = "final" /\ UNCHANGED <<result, running>>
       \/ running /\ TimedOut(move, timer) /\ Return("timeout")
       \/ /\ running /\ ~TimedOut(move, timer)
          /\ timer > 0 /\ since > 0
          /\ pc' = "update" /\ UNCHANGED <<result, running>>
    /\ UNCHANGED <<planner, move, timer, sent, since, spc>>

UpdatePlanner ==
    /\ pc = "update"
    /\ planner' = Update(planner)
    /\ since' = 0
    /\ pc' = "send"
    /\ UNCHANGED <<running, move, timer, sent, result, spc>>

\* (bug) The loop does not look at finished.
SendForever ==
    /\ pc = "send"
    /\ \/ Command(planner.pos) /\ pc' = "loop" /\ UNCHANGED <<result, running>>
       \/ Return("failed") /\ UNCHANGED sent
    /\ UNCHANGED <<planner, move, timer, since, spc>>

\* set_target_position(pos); if finished: break
Send ==
    /\ pc = "send"
    /\ \/ /\ Command(planner.pos)
          /\ pc' = IF planner.state = "FINISHED" THEN "final" ELSE "loop"
          /\ UNCHANGED <<result, running>>
       \/ Return("failed") /\ UNCHANGED sent
    /\ UNCHANGED <<planner, move, timer, since, spc>>

\* set_target_position(target_pos), whose result is ignored; then the position
\* is compared with the target.
Final ==
    /\ pc = "final"
    /\ Command(move.target) \/ UNCHANGED sent
    /\ Return("done") \/ Return("failed")
    /\ UNCHANGED <<planner, move, timer, since, spc>>

\* KeyboardInterrupt: the motor is told to stay where it is.
Interrupt ==
    /\ pc \in {"loop", "update", "send", "final"}
    /\ Return("failed")
    /\ (\E here \in Positions : Command(here)) \/ UNCHANGED sent
    /\ UNCHANGED <<planner, move, timer, since, spc>>

-----------------------------------------------------------------------------
(* stop, in another thread: running is lowered, then the planner reset *)

StopRunning ==
    /\ Stoppable
    /\ pc # "idle"
    /\ spc = "idle"
    /\ running' = FALSE
    /\ spc' = "reset"
    /\ UNCHANGED <<planner, pc, move, timer, sent, since, result>>

StopReset ==
    /\ spc = "reset"
    /\ planner' = Reset
    /\ spc' = "stopped"
    /\ UNCHANGED <<running, pc, move, timer, sent, since, result>>

-----------------------------------------------------------------------------
\* Time passes during a move; no update is more than MaxGap late.
Tick ==
    /\ pc \in {"prepare", "loop", "update", "send"}
    /\ since < (IF pc = "prepare" THEN MaxGap - 1 ELSE MaxGap)
    /\ planner' = Later(planner, 1)
    /\ timer' = IF pc = "prepare" THEN 0 ELSE timer + 1
    /\ since' = since + 1
    /\ UNCHANGED <<running, pc, move, sent, result, spc>>

Init ==
    /\ planner = Reset
    /\ running = FALSE
    /\ pc = "idle"
    /\ move = [start |-> 0, target |-> 0]
    /\ timer = 0
    /\ sent = 0
    /\ since = 0
    /\ result = "none"
    /\ spc = "idle"

MoveStep == Prepare \/ Turn \/ UpdatePlanner \/ Send \/ Final

Next == Begin \/ MoveStep \/ Interrupt \/ StopRunning \/ StopReset \/ Tick

Spec == Init /\ [][Next]_vars

\* The thread of the move runs and time passes; nobody need call stop,
\* interrupt the move or begin another.
FairSpec == Spec /\ WF_vars(MoveStep) /\ WF_vars(Tick)

-----------------------------------------------------------------------------
(* Properties *)

\* Nobody has called stop during the move (or before its loop).
Undisturbed == spc = "idle"

\* The move is long enough to reach VMax.
Long == Distance(move) >= FullAccel + FullDecel

\* The first setpoint of the deceleration, d ticks after the phase began, leaps
\* over a cruise that was skipped: by ShortCruise at most.
Leap(p, d) ==
    IF p.state = "DECELERATING" /\ p.elapsed = d /\ ~Cruises(p) THEN ConstDistance(p) ELSE 0

(***************************************************************************)
(* A new setpoint is not behind the last one sent (or where the motor      *)
(* stood), and no further ahead of it than VMax allows in the time since   *)
(* the last update or the plan, however late the loop comes round          *)
(* ("limited velocity"): so for long moves, short ones decelerate from a   *)
(* velocity that they never had, and except for one leap over a cruise of  *)
(* up to a millisecond, which the planner skips.                           *)
(***************************************************************************)
RateLimited ==
    [][Undisturbed /\ Long /\ pc = "update" /\ pc' = "send" =>
          Direction(move) * (planner'.pos - sent)
              \in 0 .. VMax * since + Leap(planner, since)]_vars

\* A long move never goes past its target, nor back behind its start.
WithinMove ==
    pc # "idle" /\ Undisturbed /\ Long =>
        Abs(sent - move.start) + Abs(move.target - sent) = Distance(move)

\* The timeout supposes that the motor decelerates as fast as it accelerates,
\* and a third of its least value is left for the three phases to end late.
Patient == DMax >= AMax /\ 9 * MaxGap <= MinTimeout

(***************************************************************************)
(* The automatic timeout leaves the trajectory the time it needs ("timeout *)
(* based on distance and profile"), unless stop takes the trajectory away. *)
(* This needs Patient.                                                     *)
(***************************************************************************)
NeverTimesOut == result = "timeout" => ~Undisturbed

(***************************************************************************)
(* Every move returns, also one whose planner stop has reset before the    *)
(* loop began, which then is never finished: the timeout ends it.          *)
(***************************************************************************)
MoveReturns == pc # "idle" ~> pc = "idle"

(***************************************************************************)
(* When stop has returned, the move in progress commands no further        *)
(* position ("Stop current motion"), except to stay put when interrupted.  *)
(***************************************************************************)
StopStops ==
    [][spc = "stopped" /\ pc # "idle" /\ result' # "failed" => UNCHANGED sent]_vars
=============================================================================
