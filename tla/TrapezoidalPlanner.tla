-------------------------- MODULE TrapezoidalPlanner --------------------------
(***************************************************************************)
(* TrapezoidalPlanner of src/examples/python/motion_controller.py, as a    *)
(* value and the operators plan and update on it.                          *)
(*                                                                         *)
(* Positions are integers, the unit being the 0.1 degree below which       *)
(* move_to_position has nothing to do (and plan then neither), and time is *)
(* counted in ticks.  The acceleration and deceleration times of the       *)
(* triangular profile are square roots; they are only compared with, so    *)
(* both sides are squared and nothing rounds.                              *)
(***************************************************************************)
EXTENDS Integers

CONSTANTS
    VMax,       \* profile.max_velocity, per tick
    AMax,       \* profile.max_acceleration, per tick and tick
    DMax,       \* profile.max_deceleration
    ShortCruise \* the way made at VMax in 1 ms, rounded down

\* Half of AMax * t * t, and what follows from it, is an integer.
ASSUME PlannerAssumption ==
    /\ VMax \in Nat \ {0}
    /\ AMax \in Nat \ {0} /\ AMax % 2 = 0 /\ VMax % AMax = 0
    /\ DMax \in Nat \ {0} /\ DMax % 2 = 0 /\ VMax % DMax = 0
    /\ ShortCruise \in Nat

Abs(i) == IF i < 0 THEN -i ELSE i

\* Distances covered between standstill and VMax: d_accel and d_decel of plan.
FullAccel == (VMax * VMax) \div (2 * AMax)
FullDecel == (VMax * VMax) \div (2 * DMax)

\* reset
Reset ==
    [state |-> "IDLE", start |-> 0, target |-> 0, pos |-> 0, vel |-> 0, elapsed |-> 0]

\* plan; elapsed is now - phase_start_time.
Plan(start, target) ==
    [Reset EXCEPT !.start = start, !.target = target, !.pos = start,
                  !.state = IF start = target THEN "FINISHED" ELSE "ACCELERATING"]

Direction(p) == IF p.target > p.start THEN 1 ELSE -1

Distance(p) == Abs(p.target - p.start)

\* VMax is not reached.
Triangular(p) == FullAccel + FullDecel >= Distance(p)

AccelDistance(p) ==
    IF Triangular(p) THEN (Distance(p) * DMax) \div (AMax + DMax) ELSE FullAccel

ConstDistance(p) ==
    IF Triangular(p) THEN 0 ELSE Distance(p) - FullAccel - FullDecel

\* v >= v_peak, where v_peak squared is 2 * distance / (1/AMax + 1/DMax).
ReachesPeak(p, v) ==
    IF Triangular(p)
    THEN v * v * (AMax + DMax) >= 2 * Distance(p) * AMax * DMax
    ELSE v >= VMax

\* Position after a distance d from the start.
Ahead(p, d) == p.start + Direction(p) * d

Enter(p, state, vel, d) ==
    [p EXCEPT !.state = state, !.elapsed = 0, !.vel = vel, !.pos = Ahead(p, d)]

\* const_vel_time > 0.001
Cruises(p) == ConstDistance(p) > ShortCruise

\* A cruise that is not worth it is skipped, but its distance still counts
\* when the deceleration begins.
Accelerate(p) ==
    IF ReachesPeak(p, AMax * p.elapsed)
    THEN Enter(p, IF Cruises(p) THEN "CONSTANT_VELOCITY" ELSE "DECELERATING",
               VMax, AccelDistance(p))
    ELSE [p EXCEPT !.vel = AMax * p.elapsed,
                   !.pos = Ahead(p, (AMax * p.elapsed * p.elapsed) \div 2)]

\* (bug) The phase does not restart the clock.
CruiseOnOldClock(p) ==
    IF VMax * p.elapsed >= ConstDistance(p)
    THEN [p EXCEPT !.state = "DECELERATING",
                   !.pos = Ahead(p, AccelDistance(p) + ConstDistance(p))]
    ELSE [p EXCEPT !.vel = VMax, !.pos = Ahead(p, AccelDistance(p) + VMax * p.elapsed)]

Cruise(p) ==
    IF VMax * p.elapsed >= ConstDistance(p)
    THEN Enter(p, "DECELERATING", p.vel, AccelDistance(p) + ConstDistance(p))
    ELSE [p EXCEPT !.vel = VMax, !.pos = Ahead(p, AccelDistance(p) + VMax * p.elapsed)]

\* (bug) The deceleration is forgotten.
DecelerateNot(p) ==
    IF ReachesPeak(p, DMax * p.elapsed)
    THEN [p EXCEPT !.state = "FINISHED", !.pos = p.target, !.vel = 0]
    ELSE [p EXCEPT !.pos = Ahead(p, AccelDistance(p) + ConstDistance(p) + VMax * p.elapsed)]

Decelerate(p) ==
    LET t == p.elapsed
        v == VMax - DMax * t
    IN  IF ReachesPeak(p, DMax * t)
        THEN [p EXCEPT !.state = "FINISHED", !.pos = p.target, !.vel = 0]
        ELSE [p EXCEPT !.vel = IF v > 0 THEN v ELSE 0,
                       !.pos = Ahead(p, AccelDistance(p) + ConstDistance(p)
                                          + VMax * t - (DMax * t * t) \div 2)]

\* update: the planner afterwards; pos and vel are what it returns.
Update(p) ==
    CASE p.state = "ACCELERATING" -> Accelerate(p)
      [] p.state = "CONSTANT_VELOCITY" -> Cruise(p)
      [] p.state = "DECELERATING" -> Decelerate(p)
      [] p.state = "FINISHED" -> [p EXCEPT !.pos = p.target, !.vel = 0]
      [] OTHER -> [p EXCEPT !.vel = 0]

\* d ticks pass.
Later(p, d) == [p EXCEPT !.elapsed = @ + d]
=============================================================================
