----------------------------- MODULE MotionProofs -----------------------------
(***************************************************************************)
(* The moves of the motion controller, for every profile, all positions    *)
(* and any lateness of the loop, and then both programs on the adapter.    *)
(*                                                                         *)
(* The planner knows only its phase and how long it has lasted, and the    *)
(* loop looks at it now and then.  So the invariants speak of the phase as *)
(* it was at the last update, since ticks ago: it was not over then        *)
(* (MoveInv), the motor was told to be where it put it (PathInv), and each *)
(* earlier phase may have lasted one late turn longer than it should       *)
(* (TimeInv).                                                              *)
(***************************************************************************)
EXTENDS PythonTools, RecoveryProofs

-----------------------------------------------------------------------------
(* The inductive invariant *)

Planner ==
    [state : {"IDLE", "ACCELERATING", "CONSTANT_VELOCITY", "DECELERATING", "FINISHED"},
     start : Int, target : Int, pos : Int, vel : Int, elapsed : Nat]

\* The phase of p is not over at t ticks.
InPhase(p, t) ==
    CASE p.state = "ACCELERATING" -> ~ReachesPeak(p, AMax * t)
      [] p.state = "CONSTANT_VELOCITY" -> VMax * t < ConstDistance(p)
      [] p.state = "DECELERATING" -> ~ReachesPeak(p, DMax * t)
      [] OTHER -> p.state = "FINISHED"

\* What is missing t ticks into the deceleration of p: as it begins, the cruise
\* that was skipped.
Skipped(p, t) == IF t = 0 /\ ~Cruises(p) THEN ConstDistance(p) ELSE 0

\* The distance that a long move has covered t ticks into the phase of p.
Covered(p, t) ==
    CASE p.state = "ACCELERATING" -> (AMax * t * t) \div 2
      [] p.state = "CONSTANT_VELOCITY" -> FullAccel + VMax * t
      [] p.state = "DECELERATING" ->
           Distance(p) - FullDecel + VMax * t - (DMax * t * t) \div 2 - Skipped(p, t)
      [] OTHER -> Distance(p)

\* The distance p covers at constant velocity takes more than t ticks, if any.
CruiseLasts(p, t) == t = 0 \/ VMax * t < ConstDistance(p)

\* The time since the loop began is that of the phases, each of which may be
\* prolonged by a late turn.
InTime(p, time) ==
    CASE p.state = "ACCELERATING" -> time <= p.elapsed
      [] p.state = "CONSTANT_VELOCITY" ->
           \E a \in Nat : /\ ~ReachesPeak(p, AMax * a)
                          /\ time <= a + MaxGap + p.elapsed
      [] p.state = "DECELERATING" ->
           \E a, c \in Nat : /\ ~ReachesPeak(p, AMax * a)
                             /\ CruiseLasts(p, c)
                             /\ time <= a + c + 2 * MaxGap + p.elapsed
      [] OTHER -> TRUE

\* A move is going on that nobody has stopped.
Undergone == pc # "idle" /\ Undisturbed

\* The move is between two positions, and the planner's; the planner was updated
\* since ticks ago, in the same phase.
MoveInv ==
    Undergone =>
        /\ planner \in Planner
        /\ move \in [start : Int, target : Int] /\ move.start # move.target
        /\ planner.start = move.start /\ planner.target = move.target
        /\ timer \in Nat /\ sent \in Int
        /\ since \in 0 .. MaxGap /\ since <= planner.elapsed
        /\ InPhase(planner, planner.elapsed - since)
        /\ pc \in {"prepare", "loop", "update"} => planner.state # "FINISHED"
        /\ pc = "prepare" => planner.state = "ACCELERATING" /\ timer = 0
        /\ pc = "update" => since > 0
        /\ planner.state = "CONSTANT_VELOCITY" => Cruises(planner)
        /\ pc \in {"loop", "update", "send"} => running
        /\ pc = "final" => planner.state = "FINISHED"

TimeInv == MoveInv /\ (Undergone => InTime(planner, timer)) /\ NeverTimesOut

\* The planner's position is that of the last update, and what has been sent.
PathInv ==
    /\ MoveInv
    /\ Undergone /\ Long =>
         /\ planner.pos = Ahead(planner, Covered(planner, planner.elapsed - since))
         /\ Covered(planner, planner.elapsed - since) \in 0 .. Distance(planner)
         /\ pc # "send" => sent = planner.pos
         /\ Direction(move) * (sent - move.start) \in 0 .. Distance(move)

-----------------------------------------------------------------------------
(* Ramps *)

\* The order of squares
LEMMA Squares ==
    ASSUME NEW u \in Nat, NEW v \in Nat
    PROVE  /\ u < v => u * u < v * v
           /\ u <= v => u * u <= v * v
           /\ u * u < v * v => u < v
<1>1. ASSUME NEW x \in Nat, NEW y \in Nat, x <= y PROVE x * x <= y * y
  <2>1. PICK d \in Nat : y = x + d
    BY <1>1
  <2>2. y * y = x * x + (2 * x + d) * d /\ (2 * x + d) * d \in Nat
    BY <2>1
  <2> QED
    BY <2>2
<1>2. u <= v => u * u <= v * v
  BY <1>1
<1>3. u < v => u * u < v * v
  <2> SUFFICES ASSUME u < v PROVE u * u < v * v
    OBVIOUS
  <2>1. PICK d \in Nat \ {0} : v = u + d
    <3>1. v - u \in Nat \ {0} /\ v = u + (v - u)
      OBVIOUS
    <3> QED
      BY <3>1
  <2>2. v * v = u * u + (2 * u + d) * d /\ d * d > 0 /\ (2 * u) * d >= 0
    BY <2>1
  <2>3. (2 * u + d) * d = (2 * u) * d + d * d
    BY <2>1
  <2> QED
    BY <2>2, <2>3
<1>4. u * u < v * v => u < v
  <2> SUFFICES ASSUME u >= v PROVE u * u >= v * v
    OBVIOUS
  <2> QED
    BY <1>1
<1> QED
  BY <1>2, <1>3, <1>4

\* Division without a remainder
LEMMA Exact ==
    ASSUME NEW n \in Nat \ {0}, NEW q \in Nat
    PROVE  (q * n) \div n = q
<1>1. PICK d \in Int : d = (q * n) \div n
  OBVIOUS
<1>2. d * n <= q * n /\ q * n < d * n + n
  BY <1>1
<1>3. d <= q
  <2> SUFFICES ASSUME d >= q + 1 PROVE FALSE
    BY <1>1
  <2>1. d * n = (d - q) * n + q * n /\ (d - q) * n >= n
    BY <1>1
  <2> QED
    BY <1>2, <2>1
<1>4. q <= d
  <2> SUFFICES ASSUME d <= q - 1 PROVE FALSE
    BY <1>1
  <2>1. q * n = (q - d) * n + d * n /\ (q - d) * n >= n
    BY <1>1
  <2> QED
    BY <1>2, <2>1
<1> QED
  BY <1>1, <1>3, <1>4

\* With the acceleration acc the maximum velocity is reached in n ticks; h is
\* half of acc, and full the distance.
IsRamp(acc, full, n, h) ==
    /\ n \in Nat \ {0} /\ h \in Nat \ {0}
    /\ acc = 2 * h /\ VMax = n * acc
    /\ full = n * n * h
    /\ \A t \in Nat : (acc * t * t) \div 2 = h * t * t

\* A ramp has a length in ticks, as VMax is a multiple of the acceleration.
LEMMA Ramp ==
    ASSUME NEW acc \in Nat \ {0}, acc % 2 = 0, VMax % acc = 0, VMax \in Nat \ {0}
    PROVE  \E n, h \in Nat \ {0} : IsRamp(acc, (VMax * VMax) \div (2 * acc), n, h)
<1>1. PICK h \in Nat \ {0} : acc = 2 * h
  <2>1. acc = 2 * (acc \div 2) /\ acc \div 2 \in Nat \ {0}
    OBVIOUS
  <2> QED
    BY <2>1
<1>2. PICK n \in Nat \ {0} : VMax = n * acc
  <2>1. PICK q \in Int : q = VMax \div acc
    OBVIOUS
  <2>2. VMax = acc * q
    BY <2>1
  <2>3. q > 0
    <3> SUFFICES ASSUME q <= 0 PROVE acc * q <= 0
      BY <2>1, <2>2
    <3> QED
      BY <2>1
  <2>4. VMax = q * acc /\ q \in Nat \ {0}
    BY <2>1, <2>2, <2>3
  <2> QED
    BY <2>4
<1>3. VMax * VMax = (n * n * h) * (2 * acc)
  BY <1>1, <1>2
<1>4. (VMax * VMax) \div (2 * acc) = n * n * h
  <2>1. n * n * h \in Nat /\ 2 * acc \in Nat \ {0}
    BY <1>1
  <2> QED
    BY <1>3, <2>1, Exact
<1>5. ASSUME NEW t \in Nat PROVE (acc * t * t) \div 2 = h * t * t
  <2>1. acc * t * t = (h * t * t) * 2 /\ h * t * t \in Nat
    BY <1>1
  <2> QED
    BY <2>1, Exact
<1> QED
  BY <1>1, <1>2, <1>4, <1>5 DEF IsRamp

\* Both ramps of the profile
LEMMA Ramps ==
    /\ \E n, h \in Nat \ {0} : IsRamp(AMax, FullAccel, n, h)
    /\ \E n, h \in Nat \ {0} : IsRamp(DMax, FullDecel, n, h)
BY PlannerAssumption, Ramp DEF FullAccel, FullDecel

\* Between t and u ticks from standstill the velocity is VMax at most.
LEMMA Climb ==
    ASSUME NEW acc, NEW full, NEW n \in Nat \ {0}, NEW h \in Nat \ {0},
           IsRamp(acc, full, n, h), NEW t \in Nat, NEW u \in Nat, t <= u, u <= n
    PROVE  /\ (acc * t * t) \div 2 \in Nat /\ (acc * u * u) \div 2 \in Nat
           /\ (acc * u * u) \div 2 - (acc * t * t) \div 2 \in 0 .. VMax * (u - t)
           /\ (acc * u * u) \div 2 <= full
           /\ (acc * n * n) \div 2 = full
<1>1. /\ (acc * t * t) \div 2 = h * t * t /\ (acc * u * u) \div 2 = h * u * u
      /\ (acc * n * n) \div 2 = h * n * n
      /\ full = n * n * h /\ VMax = 2 * n * h
  BY DEF IsRamp
<1>2. h * t * t \in Nat /\ h * u * u \in Nat /\ h * n * n \in Nat /\ n * n * h = h * n * n
  OBVIOUS
<1>3. PICK d \in Nat : u = t + d
  OBVIOUS
<1>4. h * u * u - h * t * t = (h * d) * (t + u)
  BY <1>3
<1>5. PICK e \in Nat : 2 * n = t + u + e
  <2>1. 2 * n - (t + u) \in Nat /\ 2 * n = t + u + (2 * n - (t + u))
    OBVIOUS
  <2> QED
    BY <2>1
<1>6. (2 * n * h) * d = (h * d) * (t + u) + (h * d) * e
  <2>1. (2 * n * h) * d = (h * d) * (2 * n)
    OBVIOUS
  <2> QED
    BY <1>5, <2>1
<1>7. (h * d) * (t + u) \in Nat /\ (h * d) * e \in Nat
  OBVIOUS
<1>8. h * u * u - h * t * t \in 0 .. VMax * (u - t)
  BY <1>1, <1>2, <1>3, <1>4, <1>6, <1>7
<1>9. h * u * u <= h * n * n
  <2>1. PICK f \in Nat : n = u + f
    OBVIOUS
  <2>2. h * n * n = h * u * u + (h * f) * (u + n) /\ (h * f) * (u + n) \in Nat
    BY <2>1
  <2> QED
    BY <2>2
<1> QED
  BY <1>1, <1>2, <1>8, <1>9

-----------------------------------------------------------------------------
(* The time that a move takes *)

\* A factor on both sides
LEMMA Cancel ==
    ASSUME NEW n \in Nat \ {0}, NEW x \in Int, NEW y \in Int
    PROVE  n * x < n * y => x < y
<1> SUFFICES ASSUME x >= y PROVE n * x >= n * y
  OBVIOUS
<1>1. n * x = n * y + n * (x - y) /\ n * (x - y) >= 0
  OBVIOUS
<1> QED
  BY <1>1

\* A triangular profile of distance s, a ticks up and b ticks down, takes no
\* longer than one that decelerates as it accelerates.
LEMMA Triangle ==
    ASSUME NEW x \in Nat \ {0}, NEW y \in Nat \ {0}, x <= y,
           NEW s \in Nat, NEW a \in Nat, NEW b \in Nat,
           (x * a) * (x * a) * (x + y) < 2 * s * x * y,
           (y * b) * (y * b) * (x + y) < 2 * s * x * y
    PROVE  (a + b) * (a + b) * x < 4 * s
<1>1. x * a * a * (x + y) < 2 * s * y
  <2>1. /\ x * (x * a * a * (x + y)) = (x * a) * (x * a) * (x + y)
        /\ x * (2 * s * y) = 2 * s * x * y
    OBVIOUS
  <2>2. x * a * a * (x + y) \in Int /\ 2 * s * y \in Int
    OBVIOUS
  <2> QED
    BY <2>1, <2>2, Cancel
<1>2. y * b * b * (x + y) < 2 * s * x
  <2>1. /\ y * (y * b * b * (x + y)) = (y * b) * (y * b) * (x + y)
        /\ y * (2 * s * x) = 2 * s * x * y
    OBVIOUS
  <2>2. y * b * b * (x + y) \in Int /\ 2 * s * x \in Int
    OBVIOUS
  <2> QED
    BY <2>1, <2>2, Cancel
<1>3. x * a * a * (x + y) + y * b * b * (x + y)
        = y * ((a + b) * (a + b) * x) + (x * a - y * b) * (x * a - y * b)
  OBVIOUS
<1>4. (x * a - y * b) * (x * a - y * b) >= 0
  <2>1. PICK z \in Int : z = x * a - y * b
    OBVIOUS
  <2> QED
    BY <2>1
<1>5. 2 * s * x <= 2 * s * y
  <2>1. 2 * s * y = 2 * s * x + 2 * s * (y - x) /\ 2 * s * (y - x) >= 0
    OBVIOUS
  <2> QED
    BY <2>1
<1>6. y * ((a + b) * (a + b) * x) < y * (4 * s)
  <2>1. y * (4 * s) = 2 * s * y + 2 * s * y
    OBVIOUS
  <2>2. /\ x * a * a * (x + y) \in Int /\ y * b * b * (x + y) \in Int
        /\ y * ((a + b) * (a + b) * x) \in Int /\ 2 * s * x \in Int /\ 2 * s * y \in Int
    OBVIOUS
  <2> QED
    BY <1>1, <1>2, <1>3, <1>4, <1>5, <2>1, <2>2
<1> QED
  BY <1>6, Cancel

\* A ramp that has not reached VMax after a ticks.
LEMMA Ascent ==
    ASSUME NEW acc, NEW full, NEW n \in Nat \ {0}, NEW h \in Nat \ {0},
           IsRamp(acc, full, n, h)
    PROVE  /\ acc \in Nat \ {0} /\ full \in Nat \ {0}
           /\ VMax * VMax = 2 * acc * full
           /\ \A a \in Nat : acc * a < VMax => VMax * a < 2 * full
<1>1. acc = 2 * h /\ VMax = n * acc /\ full = n * n * h /\ VMax \in Nat \ {0}
  BY PlannerAssumption DEF IsRamp
<1>2. acc \in Nat \ {0}
  BY <1>1
<1>3. full \in Nat \ {0}
  BY <1>1
<1>4. VMax * VMax = acc * (2 * full)
  BY <1>1
<1>5. ASSUME NEW a \in Nat, acc * a < VMax PROVE VMax * a < 2 * full
  <2>1. PICK v \in Nat \ {0} : v = VMax
    BY <1>1
  <2>2. v * (acc * a) < v * v
    <3>1. PICK d \in Nat \ {0} : v = acc * a + d
      <4>1. acc * a \in Nat
        BY <1>2
      <4>2. v - acc * a \in Nat \ {0} /\ v = acc * a + (v - acc * a)
        BY <1>5, <2>1, <4>1
      <4> QED
        BY <4>2
    <3>2. v * v = v * (acc * a) + v * d /\ v * d > 0
      BY <1>2, <3>1
    <3> QED
      BY <1>2, <3>2
  <2>3. acc * (v * a) < acc * (2 * full)
    BY <1>2, <1>3, <1>4, <2>1, <2>2
  <2>4. v * a < 2 * full
    BY <1>2, <1>3, <2>3, Cancel
  <2> QED
    BY <2>1, <2>4
<1>6. 2 * acc * full = acc * (2 * full)
  BY <1>2, <1>3
<1> QED
  BY <1>2, <1>3, <1>4, <1>5, <1>6

\* Where the motor decelerates faster, it needs less way.
LEMMA Shorter ==
    ASSUME DMax >= AMax
    PROVE  FullDecel <= FullAccel
<1>1. PICK n1, h1 \in Nat \ {0} : IsRamp(AMax, FullAccel, n1, h1)
  BY Ramps
<1>2. PICK n2, h2 \in Nat \ {0} : IsRamp(DMax, FullDecel, n2, h2)
  BY Ramps
<1>3. AMax \in Nat \ {0} /\ FullAccel \in Nat \ {0} /\ VMax * VMax = 2 * AMax * FullAccel
  BY <1>1, Ascent
<1>4. DMax \in Nat \ {0} /\ FullDecel \in Nat \ {0} /\ VMax * VMax = 2 * DMax * FullDecel
  BY <1>2, Ascent
<1>5. PICK a \in Nat \ {0}, d \in Nat \ {0}, f \in Nat \ {0}, g \in Nat \ {0} :
        a = AMax /\ d = DMax /\ f = FullAccel /\ g = FullDecel
  BY <1>3, <1>4
<1>6. a * f = d * g
  <2>1. 2 * (a * f) = 2 * (d * g)
    BY <1>3, <1>4, <1>5
  <2> QED
    BY <2>1
<1>7. g <= f
  <2> SUFFICES ASSUME g > f PROVE FALSE
    OBVIOUS
  <2>1. d * g = a * g + (d - a) * g /\ (d - a) * g >= 0
    BY <1>5
  <2>2. a * g = a * f + a * (g - f) /\ a * (g - f) > 0
    OBVIOUS
  <2> QED
    BY <1>6, <2>1, <2>2
<1> QED
  BY <1>5, <1>7

\* Two thirds of a timeout by the first rule.
LEMMA TwoThirds ==
    ASSUME NEW acc \in Nat \ {0}, NEW s \in Nat, NEW t \in Nat, NEW u \in Nat,
           3 * u > 2 * t, t * t * acc > 9 * s
    PROVE  u * u * acc > 4 * s
<1>1. (2 * t) * (2 * t) < (3 * u) * (3 * u)
  <2>1. 2 * t \in Nat /\ 3 * u \in Nat /\ 2 * t < 3 * u
    OBVIOUS
  <2> QED
    BY <2>1, Squares
<1>2. 4 * (t * t) < 9 * (u * u)
  BY <1>1
<1>3. acc * (4 * (t * t)) < acc * (9 * (u * u))
  <2>1. PICK d \in Nat \ {0} : 9 * (u * u) = 4 * (t * t) + d
    <3>1. 9 * (u * u) - 4 * (t * t) \in Nat \ {0}
      BY <1>2
    <3> QED
      BY <3>1
  <2>2. acc * (9 * (u * u)) = acc * (4 * (t * t)) + acc * d /\ acc * d > 0
    BY <2>1
  <2>3. acc * (4 * (t * t)) \in Int
    OBVIOUS
  <2> QED
    BY <2>2, <2>3
<1>4. acc * (4 * (t * t)) = 4 * (t * t * acc) /\ acc * (9 * (u * u)) = 9 * (u * u * acc)
  OBVIOUS
<1>5. t * t * acc \in Nat /\ u * u * acc \in Nat
  OBVIOUS
<1> QED
  BY <1>3, <1>4, <1>5

\* A cruise of c ticks between two ramps, and both rules of the timeout.
LEMMA Trapezium ==
    ASSUME DMax >= AMax, NEW s \in Nat \ {0}, NEW a \in Nat, NEW c \in Nat, NEW b \in Nat,
           NEW t \in Nat, 3 * (a + c + b) > 2 * t,
           FullAccel + FullDecel < s,
           AMax * a < VMax, DMax * b < VMax, VMax * c <= s - FullAccel - FullDecel
    PROVE  /\ 2 * FullAccel >= s => ~(t * t * AMax > 9 * s)
           /\ ~(2 * t * VMax * AMax > 3 * (2 * VMax * VMax + AMax * (s - 2 * FullAccel)))
<1>1. PICK n1, h1 \in Nat \ {0} : IsRamp(AMax, FullAccel, n1, h1)
  BY Ramps
<1>2. PICK n2, h2 \in Nat \ {0} : IsRamp(DMax, FullDecel, n2, h2)
  BY Ramps
<1>3. PICK v \in Nat \ {0}, x \in Nat \ {0}, f \in Nat \ {0}, g \in Nat \ {0} :
        v = VMax /\ x = AMax /\ f = FullAccel /\ g = FullDecel
  BY <1>1, <1>2, Ascent, PlannerAssumption
<1>4. v * v = 2 * x * f /\ v * a < 2 * f
  BY <1>1, <1>3, Ascent
<1>5. v * b < 2 * g /\ g <= f
  BY <1>2, <1>3, Ascent, Shorter
<1>6. v * c <= s - f - g /\ f + g < s
  BY <1>3
<1>7. PICK u \in Nat : u = a + c + b
  OBVIOUS
<1>8. v * u < s + f + g
  <2>1. v * u = v * a + v * c + v * b
    BY <1>7
  <2>2. v * a \in Nat /\ v * c \in Nat /\ v * b \in Nat
    OBVIOUS
  <2> QED
    BY <1>4, <1>5, <1>6, <2>1, <2>2
<1>9. 3 * u > 2 * t
  BY <1>7
<1>10. ASSUME 2 * f >= s, t * t * x > 9 * s PROVE FALSE
  <2>1. u * u * x > 4 * s
    BY <1>9, <1>10, TwoThirds
  <2>2. (v * u) * (v * u) < (2 * s) * (2 * s)
    <3>1. v * u \in Nat /\ 2 * s \in Nat /\ v * u < 2 * s
      BY <1>6, <1>8
    <3> QED
      BY <3>1, Squares
  <2>3. (v * u) * (v * u) = (2 * f) * (u * u * x)
    <3>1. (v * u) * (v * u) = (v * v) * (u * u)
      OBVIOUS
    <3>2. (2 * x * f) * (u * u) = (2 * f) * (u * u * x)
      OBVIOUS
    <3> QED
      BY <1>4, <3>1, <3>2
  <2>4. (2 * f) * (u * u * x) >= s * (4 * s)
    <3>1. PICK k \in Nat : u * u * x = 4 * s + k
      <4>1. u * u * x \in Nat /\ u * u * x - 4 * s \in Nat
        BY <2>1
      <4> QED
        BY <4>1
    <3>2. PICK l \in Nat : 2 * f = s + l
      <4>1. 2 * f - s \in Nat
        BY <1>10
      <4> QED
        BY <4>1
    <3>3. (s + l) * (4 * s + k) = s * (4 * s) + l * (4 * s) + (s + l) * k
      OBVIOUS
    <3>4. l * (4 * s) \in Nat /\ (s + l) * k \in Nat /\ s * (4 * s) \in Nat
      OBVIOUS
    <3> QED
      BY <3>1, <3>2, <3>3, <3>4
  <2>5. s * (4 * s) = (2 * s) * (2 * s)
    OBVIOUS
  <2> QED
    BY <2>2, <2>3, <2>4, <2>5
<1>11. ASSUME 2 * t * v * x > 3 * (2 * v * v + x * (s - 2 * f)) PROVE FALSE
  <2>1. 2 * t * v * x = x * (2 * (v * t))
    OBVIOUS
  <2>2. 3 * (2 * v * v + x * (s - 2 * f)) = x * (3 * (s + 2 * f))
    <3>1. 2 * v * v = 2 * (v * v)
      OBVIOUS
    <3>2. 3 * (2 * (2 * x * f) + x * (s - 2 * f)) = x * (3 * (s + 2 * f))
      OBVIOUS
    <3> QED
      BY <1>4, <3>1, <3>2
  <2>3. 3 * (s + 2 * f) < 2 * (v * t)
    <3>1. 3 * (s + 2 * f) \in Int /\ 2 * (v * t) \in Int
      OBVIOUS
    <3> QED
      BY <1>11, <2>1, <2>2, <3>1, Cancel
  <2>4. 2 * (v * t) <= 3 * (v * u)
    <3>1. PICK k \in Nat : 3 * u = 2 * t + k
      <4>1. 3 * u - 2 * t \in Nat /\ 3 * u = 2 * t + (3 * u - 2 * t)
        BY <1>9
      <4> QED
        BY <4>1
    <3>2. v * (3 * u) = 3 * (v * u) /\ v * (2 * t + k) = 2 * (v * t) + v * k /\ v * k \in Nat
      OBVIOUS
    <3> QED
      BY <3>1, <3>2
  <2>5. v * u \in Nat /\ v * t \in Nat
    OBVIOUS
  <2> QED
    BY <1>5, <1>8, <2>3, <2>4, <2>5
<1> QED
  BY <1>3, <1>10, <1>11

\* The phases of a profile, each prolonged by MaxGap at most, end in time.
LEMMA Elapses ==
    ASSUME Patient, NEW p, Distance(p) \in Nat \ {0},
           NEW a \in Nat, NEW c \in Nat, NEW b \in Nat,
           ~ReachesPeak(p, AMax * a), CruiseLasts(p, c), ~ReachesPeak(p, DMax * b),
           NEW time \in Nat, time <= a + c + b + 3 * MaxGap
    PROVE  ~TimedOut(p, time)
<1> SUFFICES ASSUME TimedOut(p, time) PROVE FALSE
  OBVIOUS
<1>1. DMax >= AMax /\ AMax \in Nat \ {0} /\ DMax \in Nat \ {0} /\ VMax \in Nat \ {0}
  BY PlannerAssumption DEF Patient
<1>2. PICK s \in Nat \ {0} : s = Distance(p)
  OBVIOUS
<1>3. FullAccel \in Nat \ {0} /\ FullDecel \in Nat \ {0} /\ FullDecel <= FullAccel
  <2>1. PICK n1, h1 \in Nat \ {0} : IsRamp(AMax, FullAccel, n1, h1)
    BY Ramps
  <2>2. PICK n2, h2 \in Nat \ {0} : IsRamp(DMax, FullDecel, n2, h2)
    BY Ramps
  <2> QED
    BY <1>1, <2>1, <2>2, Ascent, Shorter
<1>4. 3 * (a + c + b) > 2 * time
  BY MotionAssumption DEF TimedOut, Patient
<1>5. CASE Triangular(p)
  <2>1. c = 0
    BY <1>1, <1>5 DEF CruiseLasts, ConstDistance
  <2>2. 2 * FullAccel >= s
    BY <1>2, <1>3, <1>5 DEF Triangular
  <2>3. time * time * AMax > 9 * s
    BY <1>2, <2>2 DEF TimedOut
  <2>4. /\ (AMax * a) * (AMax * a) * (AMax + DMax) < 2 * s * AMax * DMax
        /\ (DMax * b) * (DMax * b) * (AMax + DMax) < 2 * s * AMax * DMax
    <3>1. /\ ~((AMax * a) * (AMax * a) * (AMax + DMax) >= 2 * s * AMax * DMax)
          /\ ~((DMax * b) * (DMax * b) * (AMax + DMax) >= 2 * s * AMax * DMax)
      BY <1>2, <1>5 DEF ReachesPeak
    <3>2. /\ (AMax * a) * (AMax * a) * (AMax + DMax) \in Int
          /\ (DMax * b) * (DMax * b) * (AMax + DMax) \in Int
          /\ 2 * s * AMax * DMax \in Int
      BY <1>1
    <3> QED
      BY <3>1, <3>2
  <2>5. (a + b) * (a + b) * AMax < 4 * s
    BY <1>1, <2>4, Triangle
  <2>6. (a + b) * (a + b) * AMax > 4 * s
    <3>1. a + b \in Nat /\ 3 * (a + b) > 2 * time
      BY <1>4, <2>1
    <3> QED
      BY <1>1, <2>3, <3>1, TwoThirds
  <2>7. (a + b) * (a + b) * AMax \in Int
    BY <1>1
  <2> QED
    BY <2>5, <2>6, <2>7
<1>6. CASE ~Triangular(p)
  <2>1. FullAccel + FullDecel < s
    BY <1>2, <1>3, <1>6 DEF Triangular
  <2>2. AMax * a < VMax /\ DMax * b < VMax
    <3>1. ~(AMax * a >= VMax) /\ ~(DMax * b >= VMax)
      BY <1>6 DEF ReachesPeak
    <3>2. AMax * a \in Int /\ DMax * b \in Int
      BY <1>1
    <3> QED
      BY <1>1, <3>1, <3>2
  <2>3. VMax * c <= s - FullAccel - FullDecel
    <3>1. CASE c = 0
      BY <1>1, <1>3, <2>1, <3>1
    <3>2. CASE VMax * c < ConstDistance(p)
      <4>1. VMax * c \in Int
        BY <1>1
      <4> QED
        BY <1>2, <1>3, <1>6, <3>2, <4>1 DEF ConstDistance
    <3> QED
      BY <3>1, <3>2 DEF CruiseLasts
  <2>4. /\ 2 * FullAccel >= s => ~(time * time * AMax > 9 * s)
        /\ ~(2 * time * VMax * AMax > 3 * (2 * VMax * VMax + AMax * (s - 2 * FullAccel)))
    BY <1>1, <1>4, <2>1, <2>2, <2>3, Trapezium
  <2> QED
    BY <1>2, <2>4 DEF TimedOut
<1> QED
  BY <1>5, <1>6

-----------------------------------------------------------------------------
(* The planner *)

\* The numbers of the profile
LEMMA ProfileTypes ==
    /\ VMax \in Nat \ {0} /\ AMax \in Nat \ {0} /\ DMax \in Nat \ {0}
    /\ FullAccel \in Nat \ {0} /\ FullDecel \in Nat \ {0}
<1>1. PICK n1, h1 \in Nat \ {0} : IsRamp(AMax, FullAccel, n1, h1)
  BY Ramps
<1>2. PICK n2, h2 \in Nat \ {0} : IsRamp(DMax, FullDecel, n2, h2)
  BY Ramps
<1> QED
  BY <1>1, <1>2, Ascent, PlannerAssumption

\* A planner whose move is a move, with its distances.
LEMMA Distances ==
    ASSUME NEW p, p.start \in Int, p.target \in Int, p.start # p.target
    PROVE  /\ Distance(p) \in Nat \ {0}
           /\ Direction(p) \in {-1, 1}
           /\ p.target = Ahead(p, Distance(p))
           /\ AccelDistance(p) \in Int
           /\ ConstDistance(p) \in Nat
           /\ ~ReachesPeak(p, 0)
<1>1. /\ Distance(p) \in Nat \ {0} /\ Direction(p) \in {-1, 1}
      /\ p.target = Ahead(p, Distance(p))
  BY DEF Distance, Direction, Abs, Ahead
<1>2. AccelDistance(p) \in Int
  <2>1. (Distance(p) * DMax) \div (AMax + DMax) \in Int
    BY <1>1, ProfileTypes
  <2> QED
    BY <2>1, ProfileTypes DEF AccelDistance
<1>3. ConstDistance(p) \in Nat
  BY <1>1, ProfileTypes DEF ConstDistance, Triangular
<1>4. ~ReachesPeak(p, 0)
  <2>1. CASE Triangular(p)
    <3>1. PICK k \in Nat : k = 2 * Distance(p) * AMax * DMax /\ k > 0
      BY <1>1, ProfileTypes
    <3>2. 0 * 0 * (AMax + DMax) = 0
      BY ProfileTypes
    <3>3. ~(0 * 0 * (AMax + DMax) >= 2 * Distance(p) * AMax * DMax)
      BY <3>1, <3>2
    <3> QED
      BY <2>1, <3>3 DEF ReachesPeak
  <2>2. CASE ~Triangular(p)
    BY <2>2, ProfileTypes DEF ReachesPeak
  <2> QED
    BY <2>1, <2>2
<1> QED
  BY <1>1, <1>2, <1>3, <1>4

\* The move decides the profile.
LEMMA SameMove ==
    ASSUME NEW p, NEW q, q.start = p.start, q.target = p.target
    PROVE  /\ Distance(q) = Distance(p) /\ Direction(q) = Direction(p)
           /\ ConstDistance(q) = ConstDistance(p)
           /\ Cruises(q) <=> Cruises(p)
           /\ \A t : /\ Ahead(q, t) = Ahead(p, t)
                     /\ ReachesPeak(q, t) <=> ReachesPeak(p, t)
                     /\ CruiseLasts(q, t) <=> CruiseLasts(p, t)
                     /\ Skipped(q, t) = Skipped(p, t)
<1>1. Distance(q) = Distance(p) /\ Direction(q) = Direction(p)
  BY DEF Distance, Direction
<1>2. Triangular(q) <=> Triangular(p)
  BY <1>1 DEF Triangular
<1>3. ConstDistance(q) = ConstDistance(p)
  BY <1>1, <1>2 DEF ConstDistance
<1>5. Cruises(q) <=> Cruises(p)
  BY <1>3 DEF Cruises
<1>4. ASSUME NEW t
      PROVE  /\ Ahead(q, t) = Ahead(p, t)
             /\ ReachesPeak(q, t) <=> ReachesPeak(p, t)
             /\ CruiseLasts(q, t) <=> CruiseLasts(p, t)
             /\ Skipped(q, t) = Skipped(p, t)
  <2>1. Ahead(q, t) = Ahead(p, t)
    BY <1>1 DEF Ahead
  <2>2. ReachesPeak(q, t) <=> ReachesPeak(p, t)
    BY <1>1, <1>2, Zenon DEF ReachesPeak
  <2>3. CruiseLasts(q, t) <=> CruiseLasts(p, t)
    BY <1>3 DEF CruiseLasts
  <2>4. Skipped(q, t) = Skipped(p, t)
    BY <1>3, <1>5 DEF Skipped
  <2> QED
    BY <2>1, <2>2, <2>3, <2>4
<1> QED
  BY <1>1, <1>3, <1>4, <1>5

\* The phases of a move that is not at its end
Phases == {"ACCELERATING", "CONSTANT_VELOCITY", "DECELERATING"}

\* The distance at which update puts the motor t ticks into a phase.
Offset(p, t) ==
    CASE p.state = "ACCELERATING" -> (AMax * t * t) \div 2
      [] p.state = "CONSTANT_VELOCITY" -> AccelDistance(p) + VMax * t
      [] OTHER -> AccelDistance(p) + ConstDistance(p) + VMax * t - (DMax * t * t) \div 2

\* The same phase goes on.
GoesOn(p, q) ==
    /\ q.state = p.state /\ q.elapsed = p.elapsed
    /\ InPhase(p, p.elapsed)
    /\ q.pos = Ahead(p, Offset(p, p.elapsed))

\* The acceleration is over: cruise, or decelerate if that is not worth it.
EndsRamp(p, q) ==
    /\ p.state = "ACCELERATING"
    /\ q.state = IF Cruises(p) THEN "CONSTANT_VELOCITY" ELSE "DECELERATING"
    /\ q.elapsed = 0
    /\ ReachesPeak(p, AMax * p.elapsed)
    /\ q.pos = Ahead(p, AccelDistance(p))

\* The cruise is over.
EndsCruise(p, q) ==
    /\ p.state = "CONSTANT_VELOCITY" /\ q.state = "DECELERATING" /\ q.elapsed = 0
    /\ VMax * p.elapsed >= ConstDistance(p)
    /\ q.pos = Ahead(p, AccelDistance(p) + ConstDistance(p))

\* The deceleration is over.
Arrives(p, q) ==
    /\ p.state = "DECELERATING" /\ q.state = "FINISHED" /\ q.elapsed = p.elapsed
    /\ ReachesPeak(p, DMax * p.elapsed)
    /\ q.pos = p.target

\* update does one of these, and keeps the move.
LEMMA UpdateCases ==
    ASSUME NEW p \in Planner, p.start # p.target, p.state \in Phases,
           NEW q, q = Update(p)
    PROVE  /\ q \in Planner /\ q.start = p.start /\ q.target = p.target
           /\ GoesOn(p, q) \/ EndsRamp(p, q) \/ EndsCruise(p, q) \/ Arrives(p, q)
<1> DEFINE t == p.elapsed
<1>1. p.start \in Int /\ p.target \in Int /\ t \in Nat /\ p.vel \in Int
  BY DEF Planner
<1>2. /\ Distance(p) \in Nat \ {0} /\ Direction(p) \in {-1, 1}
      /\ AccelDistance(p) \in Int /\ ConstDistance(p) \in Nat
  BY <1>1, Distances
<1>3. /\ (AMax * t * t) \div 2 \in Int /\ (DMax * t * t) \div 2 \in Int
      /\ AMax * t \in Nat /\ DMax * t \in Nat /\ VMax * t \in Nat /\ VMax \in Int
  BY <1>1, ProfileTypes
<1>4. ASSUME NEW d \in Int PROVE Ahead(p, d) \in Int
  BY <1>1, <1>2, <1>4 DEF Ahead
<1>5. ASSUME NEW state \in {"CONSTANT_VELOCITY", "DECELERATING"}, NEW vel \in Int,
             NEW d \in Int, q = Enter(p, state, vel, d)
      PROVE  /\ q \in Planner /\ q.start = p.start /\ q.target = p.target
             /\ q.state = state /\ q.elapsed = 0 /\ q.pos = Ahead(p, d)
  <2>1. PICK x \in Int : x = Ahead(p, d)
    BY <1>4
  <2>2. q = [p EXCEPT !.state = state, !.elapsed = 0, !.vel = vel, !.pos = x]
    BY <1>5, <2>1 DEF Enter
  <2>3. q = [state |-> state, start |-> p.start, target |-> p.target, pos |-> x,
             vel |-> vel, elapsed |-> 0]
    BY <2>2 DEF Planner
  <2>4. q \in Planner
    BY <1>1, <2>3 DEF Planner
  <2> QED
    BY <2>1, <2>3, <2>4
<1>6. ASSUME NEW vel \in Int, NEW d \in Int, q = [p EXCEPT !.vel = vel, !.pos = Ahead(p, d)]
      PROVE  /\ q \in Planner /\ q.start = p.start /\ q.target = p.target
             /\ q.state = p.state /\ q.elapsed = p.elapsed /\ q.pos = Ahead(p, d)
  <2>1. PICK x \in Int : x = Ahead(p, d)
    BY <1>4
  <2>2. q = [p EXCEPT !.vel = vel, !.pos = x]
    BY <1>6, <2>1
  <2> QED
    BY <2>1, <2>2 DEF Planner
<1>7. CASE p.state = "ACCELERATING"
  <2>1. q = Accelerate(p)
    BY <1>7 DEF Update
  <2>2. CASE ReachesPeak(p, AMax * t)
    <3> DEFINE state == IF Cruises(p) THEN "CONSTANT_VELOCITY" ELSE "DECELERATING"
    <3>1. q = Enter(p, state, VMax, AccelDistance(p))
      BY <2>1, <2>2 DEF Accelerate
    <3>2. state \in {"CONSTANT_VELOCITY", "DECELERATING"}
      OBVIOUS
    <3>3. /\ q \in Planner /\ q.start = p.start /\ q.target = p.target
          /\ q.state = state /\ q.elapsed = 0 /\ q.pos = Ahead(p, AccelDistance(p))
      <4> HIDE DEF state
      <4> QED
        BY <1>2, <1>3, <1>5, <3>1, <3>2
    <3> QED
      BY <1>7, <2>2, <3>3 DEF EndsRamp
  <2>3. CASE ~ReachesPeak(p, AMax * t)
    <3>1. q = [p EXCEPT !.vel = AMax * t, !.pos = Ahead(p, (AMax * t * t) \div 2)]
      BY <2>1, <2>3 DEF Accelerate
    <3> DEFINE d == (AMax * t * t) \div 2
               vel == AMax * t
    <3>2. /\ q \in Planner /\ q.start = p.start /\ q.target = p.target
          /\ q.state = p.state /\ q.elapsed = t /\ q.pos = Ahead(p, d)
      <4>1. q = [p EXCEPT !.vel = vel, !.pos = Ahead(p, d)] /\ vel \in Int /\ d \in Int
        BY <1>3, <3>1
      <4> HIDE DEF vel, d
      <4> QED
        BY <1>6, <4>1
    <3>3. Offset(p, t) = d /\ InPhase(p, t)
      BY <1>7, <2>3 DEF Offset, InPhase
    <3> QED
      BY <3>2, <3>3 DEF GoesOn
  <2> QED
    BY <2>2, <2>3
<1>8. CASE p.state = "CONSTANT_VELOCITY"
  <2>1. q = Cruise(p)
    BY <1>8 DEF Update
  <2>2. CASE VMax * t >= ConstDistance(p)
    <3>1. q = Enter(p, "DECELERATING", p.vel, AccelDistance(p) + ConstDistance(p))
      BY <2>1, <2>2 DEF Cruise
    <3>2. /\ q \in Planner /\ q.start = p.start /\ q.target = p.target
          /\ q.state = "DECELERATING" /\ q.elapsed = 0
          /\ q.pos = Ahead(p, AccelDistance(p) + ConstDistance(p))
      <4>1. AccelDistance(p) + ConstDistance(p) \in Int
        BY <1>2
      <4> QED
        BY <1>1, <1>5, <3>1, <4>1
    <3> QED
      BY <1>8, <2>2, <3>2 DEF EndsCruise
  <2>3. CASE ~(VMax * t >= ConstDistance(p))
    <3>1. q = [p EXCEPT !.vel = VMax, !.pos = Ahead(p, AccelDistance(p) + VMax * t)]
      BY <2>1, <2>3 DEF Cruise
    <3>2. /\ q \in Planner /\ q.start = p.start /\ q.target = p.target
          /\ q.state = p.state /\ q.elapsed = t
          /\ q.pos = Ahead(p, AccelDistance(p) + VMax * t)
      <4>1. AccelDistance(p) + VMax * t \in Int
        BY <1>2, <1>3
      <4> QED
        BY <1>3, <1>6, <3>1, <4>1
    <3>3. Offset(p, t) = AccelDistance(p) + VMax * t
      BY <1>8 DEF Offset
    <3>4. VMax * t < ConstDistance(p)
      BY <1>2, <1>3, <2>3
    <3>5. InPhase(p, t)
      BY <1>8, <3>4 DEF InPhase
    <3> QED
      BY <3>2, <3>3, <3>5 DEF GoesOn
  <2> QED
    BY <2>2, <2>3
<1>9. CASE p.state = "DECELERATING"
  <2>1. q = Decelerate(p)
    BY <1>9 DEF Update
  <2>2. CASE ReachesPeak(p, DMax * t)
    <3>1. q = [p EXCEPT !.state = "FINISHED", !.pos = p.target, !.vel = 0]
      BY <2>1, <2>2 DEF Decelerate
    <3>2. /\ q \in Planner /\ q.start = p.start /\ q.target = p.target
          /\ q.state = "FINISHED" /\ q.elapsed = t /\ q.pos = p.target
      <4>1. q = [state |-> "FINISHED", start |-> p.start, target |-> p.target,
                 pos |-> p.target, vel |-> 0, elapsed |-> p.elapsed]
        BY <3>1 DEF Planner
      <4>2. q \in Planner
        BY <1>1, <4>1 DEF Planner
      <4> QED
        BY <4>1, <4>2
    <3> QED
      BY <1>9, <2>2, <3>2 DEF Arrives
  <2>3. CASE ~ReachesPeak(p, DMax * t)
    <3> DEFINE v == VMax - DMax * t
               vel == IF v > 0 THEN v ELSE 0
               d == AccelDistance(p) + ConstDistance(p) + VMax * t - (DMax * t * t) \div 2
    <3>1. q = [p EXCEPT !.vel = vel, !.pos = Ahead(p, d)]
      BY <2>1, <2>3 DEF Decelerate
    <3>2. vel \in Int /\ d \in Int
      BY <1>2, <1>3
    <3>3. Offset(p, t) = d
      BY <1>9 DEF Offset
    <3>4. /\ q \in Planner /\ q.start = p.start /\ q.target = p.target
          /\ q.state = p.state /\ q.elapsed = t /\ q.pos = Ahead(p, d)
      <4> HIDE DEF vel, d
      <4> QED
        BY <1>6, <3>1, <3>2
    <3>5. InPhase(p, t)
      BY <1>9, <2>3 DEF InPhase
    <3> QED
      BY <3>3, <3>4, <3>5 DEF GoesOn
  <2> QED
    BY <2>2, <2>3
<1> QED
  BY <1>7, <1>8, <1>9 DEF Phases

\* After an update the next phase, or the same, is not over.
LEMMA NextPhase ==
    ASSUME NEW p \in Planner, p.start # p.target, p.state \in Phases,
           NEW q, q = Update(p)
    PROVE  /\ InPhase(q, q.elapsed)
           /\ (p.state = "CONSTANT_VELOCITY" => Cruises(p)) =>
                 (q.state = "CONSTANT_VELOCITY" => Cruises(q))
<1>1. q \in Planner /\ q.start = p.start /\ q.target = p.target
  BY UpdateCases
<1>2. p.start \in Int /\ p.target \in Int
  BY DEF Planner
<1>10. (p.state = "CONSTANT_VELOCITY" => Cruises(p)) =>
          (q.state = "CONSTANT_VELOCITY" => Cruises(q))
  <2>1. Cruises(q) <=> Cruises(p)
    BY <1>1, SameMove
  <2>2. q.state = "CONSTANT_VELOCITY" => p.state = "CONSTANT_VELOCITY" \/ Cruises(p)
    BY UpdateCases DEF GoesOn, EndsRamp, EndsCruise, Arrives
  <2> QED
    BY <2>1, <2>2
<1> SUFFICES InPhase(q, q.elapsed)
  BY <1>10
<1>3. /\ ConstDistance(q) = ConstDistance(p)
      /\ \A v : ReachesPeak(q, v) <=> ReachesPeak(p, v)
  BY <1>1, SameMove
<1>4. ConstDistance(p) \in Nat /\ ~ReachesPeak(p, 0)
  BY <1>2, Distances
<1>5. AMax * 0 = 0 /\ DMax * 0 = 0 /\ VMax * 0 = 0
  BY ProfileTypes
<1>6. CASE GoesOn(p, q)
  BY <1>3, <1>6, Zenon DEF GoesOn, InPhase
<1>7. CASE EndsRamp(p, q)
  <2>1. CASE Cruises(p)
    <3>1. q.state = "CONSTANT_VELOCITY" /\ q.elapsed = 0
      BY <1>7, <2>1 DEF EndsRamp
    <3>2. VMax * q.elapsed < ConstDistance(q)
      BY <1>3, <1>4, <1>5, <2>1, <3>1, PlannerAssumption DEF Cruises
    <3> QED
      BY <3>1, <3>2 DEF InPhase
  <2>2. CASE ~Cruises(p)
    <3>1. q.state = "DECELERATING" /\ q.elapsed = 0
      BY <1>7, <2>2 DEF EndsRamp
    <3>2. ~ReachesPeak(q, DMax * q.elapsed)
      BY <1>3, <1>4, <1>5, <3>1
    <3> QED
      BY <3>1, <3>2 DEF InPhase
  <2> QED
    BY <2>1, <2>2
<1>8. CASE EndsCruise(p, q)
  <2>1. q.state = "DECELERATING" /\ q.elapsed = 0
    BY <1>8 DEF EndsCruise
  <2>2. ~ReachesPeak(q, DMax * q.elapsed)
    BY <1>3, <1>4, <1>5, <2>1
  <2> QED
    BY <2>1, <2>2 DEF InPhase
<1>9. CASE Arrives(p, q)
  BY <1>9 DEF Arrives, InPhase
<1> QED
  BY <1>6, <1>7, <1>8, <1>9, UpdateCases

\* An update leaves the time to what the phases took.
LEMMA NextInTime ==
    ASSUME NEW p \in Planner, p.start # p.target, p.state \in Phases,
           NEW q, q = Update(p),
           NEW d \in 0 .. MaxGap, d <= p.elapsed, InPhase(p, p.elapsed - d),
           NEW time \in Nat, InTime(p, time)
    PROVE  InTime(q, time)
<1>1. q \in Planner /\ q.start = p.start /\ q.target = p.target
  BY UpdateCases
<1>2. p.start \in Int /\ p.target \in Int /\ p.elapsed \in Nat /\ MaxGap \in Nat
  BY MotionAssumption DEF Planner
<1>3. \A v : /\ ReachesPeak(q, v) <=> ReachesPeak(p, v)
             /\ CruiseLasts(q, v) <=> CruiseLasts(p, v)
  BY <1>1, SameMove
<1>4. PICK e \in Nat : e = p.elapsed - d
  BY <1>2
<1>5. CASE GoesOn(p, q)
  BY <1>3, <1>5, Zenon DEF GoesOn, InTime
<1>6. CASE EndsRamp(p, q)
  <2>1. p.state = "ACCELERATING" /\ q.elapsed = 0
    BY <1>6 DEF EndsRamp
  <2>2. ~ReachesPeak(q, AMax * e) /\ time <= p.elapsed
    BY <1>3, <1>4, <2>1 DEF InPhase, InTime
  <2>3. time <= e + MaxGap + q.elapsed /\ time <= e + 0 + 2 * MaxGap + q.elapsed
    BY <1>2, <1>4, <2>1, <2>2
  <2>4. CruiseLasts(q, 0)
    BY DEF CruiseLasts
  <2>5. q.state \in {"CONSTANT_VELOCITY", "DECELERATING"}
    BY <1>6 DEF EndsRamp
  <2> QED
    BY <2>2, <2>3, <2>4, <2>5 DEF InTime
<1>7. CASE EndsCruise(p, q)
  <2>1. p.state = "CONSTANT_VELOCITY" /\ q.state = "DECELERATING" /\ q.elapsed = 0
    BY <1>7 DEF EndsCruise
  <2>2. PICK a \in Nat : ~ReachesPeak(p, AMax * a) /\ time <= a + MaxGap + p.elapsed
    BY <2>1 DEF InTime
  <2>3. CruiseLasts(q, e)
    BY <1>3, <1>4, <2>1 DEF InPhase, CruiseLasts
  <2>4. time <= a + e + 2 * MaxGap + q.elapsed
    BY <1>2, <1>4, <2>1, <2>2
  <2>5. ~ReachesPeak(q, AMax * a)
    BY <1>3, <2>2
  <2> QED
    BY <2>1, <2>3, <2>4, <2>5 DEF InTime
<1>8. CASE Arrives(p, q)
  BY <1>8 DEF Arrives, InTime
<1> QED
  BY <1>5, <1>6, <1>7, <1>8, UpdateCases

\* So no phase of a move is still going on at the timeout.
LEMMA NotYet ==
    ASSUME Patient, NEW p \in Planner, p.start # p.target, p.state \in Phases,
           NEW d \in 0 .. MaxGap, d <= p.elapsed, InPhase(p, p.elapsed - d),
           NEW time \in Nat, InTime(p, time)
    PROVE  ~TimedOut(p, time)
<1>1. p.start \in Int /\ p.target \in Int /\ p.elapsed \in Nat /\ MaxGap \in Nat
  BY MotionAssumption DEF Planner
<1>2. Distance(p) \in Nat \ {0} /\ ~ReachesPeak(p, 0) /\ CruiseLasts(p, 0)
  BY <1>1, Distances DEF CruiseLasts
<1>3. DMax * 0 = 0
  BY ProfileTypes
<1>4. PICK e \in Nat : e = p.elapsed - d
  BY <1>1
<1>5. CASE p.state = "ACCELERATING"
  <2>1. ~ReachesPeak(p, AMax * e) /\ time <= p.elapsed
    BY <1>4, <1>5 DEF InPhase, InTime
  <2>2. time <= e + 0 + 0 + 3 * MaxGap
    BY <1>1, <1>4, <2>1
  <2> QED
    BY <1>2, <1>3, <2>1, <2>2, Elapses
<1>6. CASE p.state = "CONSTANT_VELOCITY"
  <2>1. PICK a \in Nat : ~ReachesPeak(p, AMax * a) /\ time <= a + MaxGap + p.elapsed
    BY <1>6 DEF InTime
  <2>2. CruiseLasts(p, e)
    BY <1>4, <1>6 DEF InPhase, CruiseLasts
  <2>3. time <= a + e + 0 + 3 * MaxGap
    BY <1>1, <1>4, <2>1
  <2> QED
    BY <1>2, <1>3, <2>1, <2>2, <2>3, Elapses
<1>7. CASE p.state = "DECELERATING"
  <2>1. PICK a \in Nat, c \in Nat :
          /\ ~ReachesPeak(p, AMax * a) /\ CruiseLasts(p, c)
          /\ time <= a + c + 2 * MaxGap + p.elapsed
    BY <1>7 DEF InTime
  <2>2. ~ReachesPeak(p, DMax * e)
    BY <1>4, <1>7 DEF InPhase
  <2>3. time <= a + c + e + 3 * MaxGap
    BY <1>1, <1>4, <2>1
  <2> QED
    BY <1>2, <2>1, <2>2, <2>3, Elapses
<1> QED
  BY <1>5, <1>6, <1>7 DEF Phases

\* Time changes neither the move nor the phase.
LEMMA Lateness ==
    ASSUME NEW p \in Planner, NEW q, q = Later(p, 1)
    PROVE  /\ q \in Planner /\ q.start = p.start /\ q.target = p.target
           /\ q.state = p.state /\ q.pos = p.pos /\ q.elapsed = p.elapsed + 1
           /\ Cruises(q) <=> Cruises(p)
           /\ \A t : /\ InPhase(q, t) <=> InPhase(p, t)
                     /\ Covered(q, t) = Covered(p, t)
           /\ \A time \in Nat : InTime(p, time) => InTime(q, time + 1)
<1>1. q = [state |-> p.state, start |-> p.start, target |-> p.target, pos |-> p.pos,
           vel |-> p.vel, elapsed |-> p.elapsed + 1]
  BY DEF Later, Planner
<1>2. q \in Planner
  BY <1>1 DEF Planner
<1>3. q.start = p.start /\ q.target = p.target
  BY <1>1
<1>4. /\ ConstDistance(q) = ConstDistance(p) /\ Distance(q) = Distance(p)
      /\ Cruises(q) <=> Cruises(p)
      /\ \A v : /\ ReachesPeak(q, v) <=> ReachesPeak(p, v)
                /\ CruiseLasts(q, v) <=> CruiseLasts(p, v)
                /\ Skipped(q, v) = Skipped(p, v)
  BY <1>3, SameMove
<1>5. q.state = p.state /\ q.pos = p.pos /\ q.elapsed = p.elapsed + 1
  BY <1>1
<1>6. ASSUME NEW t PROVE (InPhase(q, t) <=> InPhase(p, t)) /\ Covered(q, t) = Covered(p, t)
  <2>1. InPhase(q, t) <=> InPhase(p, t)
    BY <1>4, <1>5, Zenon DEF InPhase
  <2>2. Covered(q, t) = Covered(p, t)
    BY <1>4, <1>5, Zenon DEF Covered
  <2> QED
    BY <2>1, <2>2
<1>7. ASSUME NEW time \in Nat, InTime(p, time) PROVE InTime(q, time + 1)
  <2>1. p.elapsed \in Nat /\ MaxGap \in Nat
    BY MotionAssumption DEF Planner
  <2>2. CASE p.state = "ACCELERATING"
    BY <1>5, <1>7, <2>1, <2>2 DEF InTime
  <2>3. CASE p.state = "CONSTANT_VELOCITY"
    <3>1. PICK a \in Nat : ~ReachesPeak(p, AMax * a) /\ time <= a + MaxGap + p.elapsed
      BY <1>7, <2>3 DEF InTime
    <3>2. ~ReachesPeak(q, AMax * a) /\ time + 1 <= a + MaxGap + q.elapsed
      BY <1>4, <1>5, <2>1, <3>1
    <3> QED
      BY <1>5, <2>3, <3>2 DEF InTime
  <2>4. CASE p.state = "DECELERATING"
    <3>1. PICK a \in Nat, c \in Nat :
            /\ ~ReachesPeak(p, AMax * a) /\ CruiseLasts(p, c)
            /\ time <= a + c + 2 * MaxGap + p.elapsed
      BY <1>7, <2>4 DEF InTime
    <3>2. /\ ~ReachesPeak(q, AMax * a) /\ CruiseLasts(q, c)
          /\ time + 1 <= a + c + 2 * MaxGap + q.elapsed
      BY <1>4, <1>5, <2>1, <3>1
    <3> QED
      BY <1>5, <2>4, <3>2 DEF InTime
  <2>5. CASE p.state \notin Phases
    BY <1>5, <2>5 DEF InTime, Phases
  <2> QED
    BY <2>2, <2>3, <2>4, <2>5 DEF Phases
<1> QED
  BY <1>2, <1>3, <1>4, <1>5, <1>6, <1>7

-----------------------------------------------------------------------------
(* Each step preserves MoveInv *)

\* The planner follows from MoveInv, in an update.
LEMMA Moving ==
    ASSUME MoveInv, Undergone
    PROVE  /\ planner \in Planner /\ planner.start # planner.target
           /\ planner.start = move.start /\ planner.target = move.target
           /\ planner.start \in Int /\ planner.target \in Int /\ planner.elapsed \in Nat
           /\ timer \in Nat /\ sent \in Int /\ MaxGap \in Nat
           /\ since \in 0 .. MaxGap /\ since <= planner.elapsed
           /\ InPhase(planner, planner.elapsed - since)
           /\ pc \in {"prepare", "loop", "update"} => planner.state \in Phases
           /\ pc = "update" => since > 0
           /\ planner.state = "CONSTANT_VELOCITY" => Cruises(planner)
<1>1. MaxGap \in Nat
  BY MotionAssumption
<1>2. planner \in Planner
  BY DEF MoveInv
<1>3. pc \in {"prepare", "loop", "update"} => planner.state \in Phases
  <2>1. planner.state # "IDLE"
    BY DEF MoveInv, InPhase
  <2> QED
    BY <1>2, <2>1 DEF MoveInv, Planner, Phases
<1> QED
  BY <1>1, <1>2, <1>3 DEF MoveInv, Planner

\* A new plan is at the beginning of its first phase.
LEMMA BeginMoves ==
    ASSUME MoveInv, Begin
    PROVE  MoveInv'
<1> SUFFICES ASSUME Undergone' PROVE MoveInv'
  BY DEF MoveInv
<1>1. PICK from \in Positions, to \in Positions :
        /\ move' = [start |-> from, target |-> to]
        /\ sent' = from
        /\ IF from = to
           THEN result' = "done" /\ UNCHANGED <<planner, pc>>
           ELSE planner' = Plan(from, to) /\ pc' = "prepare" /\ result' = "none"
  BY DEF Begin
<1>2. from # to
  BY <1>1 DEF Begin, Undergone
<1>3. planner' = Plan(from, to) /\ pc' = "prepare"
  BY <1>1, <1>2
<1>4. from \in Int /\ to \in Int /\ MaxGap \in Nat
  BY MotionAssumption
<1>5. PICK p : p = Plan(from, to)
  OBVIOUS
<1>6. /\ p = [state |-> "ACCELERATING", start |-> from, target |-> to, pos |-> from,
              vel |-> 0, elapsed |-> 0]
  BY <1>2, <1>5 DEF Plan, Reset
<1>7. p \in Planner
  BY <1>4, <1>6 DEF Planner
<1>8. /\ p.start = from /\ p.target = to /\ p.state = "ACCELERATING" /\ p.elapsed = 0
  BY <1>6
<1>9. InPhase(p, 0)
  <2>1. ~ReachesPeak(p, 0)
    BY <1>2, <1>4, <1>8, Distances
  <2>2. AMax * 0 = 0
    BY ProfileTypes
  <2> QED
    BY <1>8, <2>1, <2>2 DEF InPhase
<1>10. planner' = p /\ since' = 0 /\ timer' = 0
  BY <1>3, <1>5 DEF Begin
<1>11. 0 \in 0 .. MaxGap /\ 0 <= p.elapsed /\ p.elapsed - 0 = 0
  BY <1>4, <1>8
<1> QED
  BY <1>1, <1>2, <1>3, <1>4, <1>7, <1>8, <1>9, <1>10, <1>11 DEF MoveInv

\* While the motor is prepared the clock runs already.
LEMMA PrepareMoves ==
    ASSUME MoveInv, Prepare
    PROVE  MoveInv'
<1> SUFFICES ASSUME Undergone' PROVE MoveInv'
  BY DEF MoveInv
<1>1. Undergone
  BY DEF Prepare, Undergone, Undisturbed
<1> QED
  BY <1>1 DEF Prepare, MoveInv, Undergone

\* The loop only goes on to an update, unless it is stopped.
LEMMA TurnMoves ==
    ASSUME MoveInv, Turn
    PROVE  MoveInv'
<1> SUFFICES ASSUME Undergone' PROVE MoveInv'
  BY DEF MoveInv
<1>1. Undergone
  BY DEF Turn, Undergone, Undisturbed
<1>2. running /\ pc' = "update" /\ since > 0 /\ UNCHANGED running
  BY <1>1 DEF Turn, Return, Undergone, MoveInv
<1> QED
  BY <1>1, <1>2 DEF Turn, MoveInv

\* After an update nothing has passed since.
LEMMA UpdateMoves ==
    ASSUME MoveInv, UpdatePlanner
    PROVE  MoveInv'
<1> SUFFICES ASSUME Undergone' PROVE MoveInv'
  BY DEF MoveInv
<1>1. Undergone /\ pc = "update"
  BY DEF UpdatePlanner, Undergone, Undisturbed
<1>2. PICK q : q = Update(planner)
  OBVIOUS
<1>3. /\ planner \in Planner /\ planner.start # planner.target
      /\ planner.state \in Phases /\ MaxGap \in Nat
  BY <1>1, Moving
<1>4. q \in Planner /\ q.start = planner.start /\ q.target = planner.target
  BY <1>2, <1>3, UpdateCases
<1>5. InPhase(q, q.elapsed) /\ (q.state = "CONSTANT_VELOCITY" => Cruises(q))
  BY <1>1, <1>2, <1>3, Moving, NextPhase
<1>6. q.elapsed \in Nat
  BY <1>4 DEF Planner
<1>7. planner' = q /\ since' = 0 /\ pc' = "send"
  BY <1>2 DEF UpdatePlanner
<1>8. InPhase(planner', planner'.elapsed - since') /\ since' \in 0 .. MaxGap
      /\ since' <= planner'.elapsed
  BY <1>3, <1>5, <1>6, <1>7
<1> QED
  BY <1>1, <1>4, <1>5, <1>7, <1>8 DEF UpdatePlanner, MoveInv

\* The loop is left with the planner finished.
LEMMA SendMoves ==
    ASSUME MoveInv, Send
    PROVE  MoveInv'
<1> SUFFICES ASSUME Undergone' PROVE MoveInv'
  BY DEF MoveInv
<1>1. Undergone
  BY DEF Send, Undergone, Undisturbed
<1>2. planner.pos \in Int
  BY <1>1, Moving DEF Planner
<1> QED
  BY <1>1, <1>2 DEF Send, Command, Return, Undergone, MoveInv

\* Time passes for the phase and since the update alike.
LEMMA TickMoves ==
    ASSUME MoveInv, Tick
    PROVE  MoveInv'
<1> SUFFICES ASSUME Undergone' PROVE MoveInv'
  BY DEF MoveInv
<1>1. Undergone
  BY DEF Tick, Undergone, Undisturbed
<1>2. PICK q : q = Later(planner, 1)
  OBVIOUS
<1>3. /\ planner \in Planner /\ MaxGap \in Nat /\ planner.elapsed \in Nat /\ timer \in Nat
      /\ since \in 0 .. MaxGap /\ since <= planner.elapsed
      /\ InPhase(planner, planner.elapsed - since)
  BY <1>1, Moving
<1>4. /\ q \in Planner /\ q.start = planner.start /\ q.target = planner.target
      /\ q.state = planner.state /\ q.elapsed = planner.elapsed + 1
      /\ Cruises(q) <=> Cruises(planner)
      /\ \A t : InPhase(q, t) <=> InPhase(planner, t)
  BY <1>2, <1>3, Lateness
<1>5. planner' = q /\ since' = since + 1 /\ pc' = pc
  BY <1>2 DEF Tick
<1>6. planner'.elapsed - since' = planner.elapsed - since
  BY <1>3, <1>4, <1>5
<1>7. InPhase(planner', planner'.elapsed - since')
  BY <1>3, <1>4, <1>5, <1>6
<1>8. since' \in 0 .. MaxGap /\ since' <= planner'.elapsed /\ timer' \in Nat
  BY <1>3, <1>4, <1>5 DEF Tick
<1>9. (pc = "prepare" => timer' = 0) /\ since' > 0
  BY <1>3, <1>5 DEF Tick
<1> QED
  BY <1>1, <1>4, <1>5, <1>7, <1>8, <1>9 DEF Tick, MoveInv

\* MoveInv is inductive.
LEMMA MoveSteps ==
    ASSUME MoveInv, [Next]_vars
    PROVE  MoveInv'
<1>1. CASE Begin
  BY <1>1, BeginMoves
<1>2. CASE Prepare
  BY <1>2, PrepareMoves
<1>3. CASE Turn
  BY <1>3, TurnMoves
<1>4. CASE UpdatePlanner
  BY <1>4, UpdateMoves
<1>5. CASE Send
  BY <1>5, SendMoves
<1>6. CASE Final
  BY <1>6 DEF Final, Return, MoveInv, Undergone
<1>7. CASE Interrupt
  BY <1>7 DEF Interrupt, Return, MoveInv, Undergone
<1>8. CASE StopRunning
  BY <1>8 DEF StopRunning, MoveInv, Undergone, Undisturbed
<1>9. CASE StopReset
  BY <1>9 DEF StopReset, MoveInv, Undergone, Undisturbed
<1>10. CASE Tick
  BY <1>10, TickMoves
<1>11. CASE UNCHANGED vars
  BY <1>11 DEF vars, MoveInv, Undergone, Undisturbed
<1> QED
  BY <1>1, <1>2, <1>3, <1>4, <1>5, <1>6, <1>7, <1>8, <1>9, <1>10, <1>11 DEF Next, MoveStep

-----------------------------------------------------------------------------
(* The timeout *)

\* TimeInv is inductive.
LEMMA TimeSteps ==
    ASSUME Patient, TimeInv, [Next]_vars
    PROVE  TimeInv'
<1>1. MoveInv /\ MoveInv'
  BY MoveSteps DEF TimeInv
<1>2. SUFFICES /\ Undergone' => InTime(planner', timer')
               /\ NeverTimesOut'
  BY <1>1 DEF TimeInv
<1>3. CASE Begin
  <2>1. NeverTimesOut'
    BY <1>3 DEF Begin, NeverTimesOut
  <2>2. ASSUME Undergone' PROVE InTime(planner', timer')
    <3>1. pc' = "prepare" /\ timer' = 0
      BY <1>3, <2>2 DEF Begin, Undergone
    <3>2. planner'.state = "ACCELERATING" /\ planner'.elapsed \in Nat
      BY <1>1, <2>2, <3>1 DEF MoveInv, Planner
    <3> QED
      BY <3>1, <3>2 DEF InTime
  <2> QED
    BY <2>1, <2>2
<1>4. CASE Prepare
  BY <1>4 DEF Prepare, TimeInv, NeverTimesOut, Undergone, Undisturbed
<1>5. CASE Turn
  <2>1. CASE Undergone
    <3>1. /\ planner \in Planner /\ planner.start # planner.target /\ planner.state \in Phases
          /\ planner.start = move.start /\ planner.target = move.target
          /\ since \in 0 .. MaxGap /\ since <= planner.elapsed /\ timer \in Nat
          /\ InPhase(planner, planner.elapsed - since)
      BY <1>1, <1>5, <2>1, Moving DEF Turn
    <3>2. InTime(planner, timer)
      BY <2>1 DEF TimeInv
    <3>3. ~TimedOut(planner, timer)
      BY <3>1, <3>2, NotYet
    <3>4. Distance(move) = Distance(planner)
      BY <3>1, SameMove
    <3>5. ~TimedOut(move, timer)
      BY <3>3, <3>4 DEF TimedOut
    <3> QED
      BY <1>5, <2>1, <3>5 DEF Turn, TimeInv, NeverTimesOut, Undergone, Undisturbed
  <2>2. CASE ~Undergone
    <3>1. ~Undisturbed /\ ~Undisturbed'
      BY <1>5, <2>2 DEF Turn, Undergone, Undisturbed
    <3> QED
      BY <3>1 DEF NeverTimesOut, Undergone
  <2> QED
    BY <2>1, <2>2
<1>6. CASE UpdatePlanner
  <2>1. NeverTimesOut'
    BY <1>6 DEF UpdatePlanner, TimeInv, NeverTimesOut, Undisturbed
  <2>2. ASSUME Undergone' PROVE InTime(planner', timer')
    <3>1. Undergone /\ pc = "update"
      BY <1>6, <2>2 DEF UpdatePlanner, Undergone, Undisturbed
    <3>2. /\ planner \in Planner /\ planner.start # planner.target /\ planner.state \in Phases
          /\ since \in 0 .. MaxGap /\ since <= planner.elapsed /\ timer \in Nat
          /\ InPhase(planner, planner.elapsed - since)
      BY <1>1, <3>1, Moving
    <3>3. InTime(planner, timer)
      BY <3>1 DEF TimeInv
    <3>4. PICK q : q = Update(planner)
      OBVIOUS
    <3>5. InTime(q, timer)
      BY <3>2, <3>3, <3>4, NextInTime
    <3> QED
      BY <1>6, <3>4, <3>5 DEF UpdatePlanner
  <2> QED
    BY <2>1, <2>2
<1>7. CASE Send
  BY <1>7 DEF Send, Return, TimeInv, NeverTimesOut, Undergone, Undisturbed
<1>8. CASE Final
  BY <1>8 DEF Final, Return, TimeInv, NeverTimesOut, Undergone, Undisturbed
<1>9. CASE Interrupt
  BY <1>9 DEF Interrupt, Return, TimeInv, NeverTimesOut, Undergone, Undisturbed
<1>10. CASE StopRunning
  BY <1>10 DEF StopRunning, TimeInv, NeverTimesOut, Undergone, Undisturbed
<1>11. CASE StopReset
  BY <1>11 DEF StopReset, TimeInv, NeverTimesOut, Undergone, Undisturbed
<1>12. CASE Tick
  <2>1. NeverTimesOut'
    BY <1>12 DEF Tick, TimeInv, NeverTimesOut, Undisturbed
  <2>2. ASSUME Undergone' PROVE InTime(planner', timer')
    <3>1. Undergone
      BY <1>12, <2>2 DEF Tick, Undergone, Undisturbed
    <3>2. PICK q : q = Later(planner, 1)
      OBVIOUS
    <3>3. planner \in Planner /\ timer \in Nat
      BY <1>1, <3>1, Moving
    <3>4. InTime(q, timer + 1)
      BY <3>1, <3>2, <3>3, Lateness DEF TimeInv
    <3>5. planner' = q /\ q \in Planner
      BY <1>12, <3>2, <3>3, Lateness DEF Tick
    <3>6. CASE pc = "prepare"
      <4>1. timer' = 0 /\ planner'.state = "ACCELERATING" /\ planner'.elapsed \in Nat
        BY <1>1, <1>12, <2>2, <3>5, <3>6 DEF Tick, MoveInv, Planner
      <4> QED
        BY <4>1 DEF InTime
    <3>7. CASE pc # "prepare"
      BY <1>12, <3>4, <3>5, <3>7 DEF Tick
    <3> QED
      BY <3>6, <3>7
  <2> QED
    BY <2>1, <2>2
<1>13. CASE UNCHANGED vars
  BY <1>13 DEF vars, TimeInv, NeverTimesOut, Undergone, Undisturbed
<1> QED
  BY <1>3, <1>4, <1>5, <1>6, <1>7, <1>8, <1>9, <1>10, <1>11, <1>12, <1>13 DEF Next, MoveStep

\* No move is going on at first.
LEMMA InitMoves == Init => TimeInv /\ PathInv
BY DEF Init, MoveInv, TimeInv, PathInv, Undergone, NeverTimesOut

(***************************************************************************)
(* The timeout of move_to_position never ends a move that nobody stops,    *)
(* long or short, whenever the loop comes round, if the motor decelerates  *)
(* as fast as it accelerates and turns are late by a ninth of the least    *)
(* timeout at most.                                                        *)
(***************************************************************************)
THEOREM MoveNeverTimesOut ==
    ASSUME Patient
    PROVE  Spec => []NeverTimesOut
<1>1. Init => TimeInv
  BY InitMoves
<1>2. TimeInv /\ [Next]_vars => TimeInv'
  BY TimeSteps
<1>3. TimeInv => NeverTimesOut
  BY DEF TimeInv
<1> QED
  BY <1>1, <1>2, <1>3, PTL DEF Spec

-----------------------------------------------------------------------------
(* The path of a long move *)

\* Between t and u ticks after the maximum velocity the velocity is VMax at most.
LEMMA Descent ==
    ASSUME NEW acc, NEW full, NEW n \in Nat \ {0}, NEW h \in Nat \ {0},
           IsRamp(acc, full, n, h), NEW t \in Nat, NEW u \in Nat, t <= u, u <= n
    PROVE  /\ VMax * t - (acc * t * t) \div 2 \in Nat
           /\ (VMax * u - (acc * u * u) \div 2) - (VMax * t - (acc * t * t) \div 2)
                \in 0 .. VMax * (u - t)
           /\ VMax * u - (acc * u * u) \div 2 <= full
           /\ VMax * n - (acc * n * n) \div 2 = full
<1>1. /\ (acc * t * t) \div 2 = h * t * t /\ (acc * u * u) \div 2 = h * u * u
      /\ (acc * n * n) \div 2 = h * n * n
      /\ full = n * n * h /\ VMax = n * (2 * h)
  BY DEF IsRamp
<1>2. PICK d \in Nat : u = t + d
  OBVIOUS
<1>3. PICK e \in Nat : n = u + e
  OBVIOUS
<1>4. n * (2 * h) * t - h * t * t = h * t * (2 * n - t) /\ 2 * n - t \in Nat
  BY <1>2, <1>3
<1>5. h * t * (2 * n - t) \in Nat
  BY <1>4
<1>6. (n * (2 * h) * u - h * u * u) - (n * (2 * h) * t - h * t * t)
        = (h * d) * (2 * n - u - t)
  BY <1>2
<1>7. (h * d) * (2 * n - u - t) \in Nat
  <2>1. 2 * n - u - t \in Nat
    BY <1>2, <1>3
  <2> QED
    BY <2>1
<1>8. n * (2 * h) * d = (h * d) * (2 * n - u - t) + (h * d) * (u + t) /\ (h * d) * (u + t) \in Nat
  OBVIOUS
<1>9. n * n * h = (n * (2 * h) * u - h * u * u) + h * e * e /\ h * e * e \in Nat
  BY <1>3
<1>10. n * (2 * h) * n - h * n * n = n * n * h
  OBVIOUS
<1>11. PICK x \in Int, y \in Int, z \in Int :
         x = n * (2 * h) * t - h * t * t /\ y = n * (2 * h) * u - h * u * u
           /\ z = n * (2 * h) * d
  <2>1. /\ n * (2 * h) * t - h * t * t \in Int /\ n * (2 * h) * u - h * u * u \in Int
        /\ n * (2 * h) * d \in Int
    OBVIOUS
  <2> QED
    BY <2>1
<1>12. x \in Nat
  BY <1>4, <1>5, <1>11
<1>13. y - x \in 0 .. z
  <2>1. y - x = (h * d) * (2 * n - u - t)
    BY <1>6, <1>11
  <2>2. z = (y - x) + (h * d) * (u + t)
    BY <1>8, <1>11, <2>1
  <2>3. y - x \in Nat /\ (h * d) * (u + t) \in Nat
    BY <1>7, <1>8, <2>1
  <2> QED
    BY <1>11, <2>2, <2>3
<1>14. y <= n * n * h
  <2>1. n * n * h = y + h * e * e /\ h * e * e \in Nat
    BY <1>9, <1>11
  <2> QED
    BY <1>11, <2>1
<1>15. u - t = d
  BY <1>2
<1> QED
  BY <1>1, <1>10, <1>11, <1>12, <1>13, <1>14, <1>15

\* A long move has both ramps in full, also when it has no cruise.
LEMMA LongProfile ==
    ASSUME NEW p, p.start \in Int, p.target \in Int, p.start # p.target,
           Distance(p) >= FullAccel + FullDecel
    PROVE  /\ AccelDistance(p) = FullAccel
           /\ ConstDistance(p) = Distance(p) - FullAccel - FullDecel
           /\ \A v \in Nat : ReachesPeak(p, v) <=> v >= VMax
<1>1. Distance(p) \in Nat \ {0}
  BY Distances
<1>2. CASE ~Triangular(p)
  BY <1>2 DEF AccelDistance, ConstDistance, ReachesPeak
<1>3. CASE Triangular(p)
  <2>1. PICK n1, h1 \in Nat \ {0} : IsRamp(AMax, FullAccel, n1, h1)
    BY Ramps
  <2>2. PICK n2, h2 \in Nat \ {0} : IsRamp(DMax, FullDecel, n2, h2)
    BY Ramps
  <2>3. PICK w \in Nat \ {0}, x \in Nat \ {0}, y \in Nat \ {0},
             f \in Nat \ {0}, g \in Nat \ {0} :
          w = VMax /\ x = AMax /\ y = DMax /\ f = FullAccel /\ g = FullDecel
    BY ProfileTypes
  <2>4. w * w = 2 * x * f /\ w * w = 2 * y * g
    BY <2>1, <2>2, <2>3, Ascent
  <2>5. PICK s \in Nat \ {0} : s = Distance(p) /\ s = f + g
    BY <1>1, <1>3, <2>3 DEF Triangular
  <2>6. x * f = y * g
    <3>1. 2 * (x * f) = 2 * (y * g) /\ x * f \in Int /\ y * g \in Int
      BY <2>4
    <3> QED
      BY <3>1
  <2>7. s * y = f * (x + y)
    <3>1. (f + g) * y = f * y + y * g /\ f * (x + y) = f * y + x * f
      OBVIOUS
    <3> QED
      BY <2>5, <2>6, <3>1
  <2>8. AccelDistance(p) = f
    <3>1. (s * y) \div (x + y) = f
      <4>1. x + y \in Nat \ {0}
        OBVIOUS
      <4> QED
        BY <2>7, <4>1, Exact
    <3> QED
      BY <1>3, <2>3, <2>5, <3>1 DEF AccelDistance
  <2>9. ConstDistance(p) = s - f - g
    BY <1>3, <2>5 DEF ConstDistance
  <2>10. 2 * s * x * y = (w * w) * (x + y)
    <3>1. (w * w) * (x + y) = (w * w) * x + (w * w) * y
      OBVIOUS
    <3>2. (w * w) * x = 2 * g * x * y /\ (w * w) * y = 2 * f * x * y
      BY <2>4
    <3>3. 2 * (f + g) * x * y = 2 * g * x * y + 2 * f * x * y
      OBVIOUS
    <3> QED
      BY <2>5, <3>1, <3>2, <3>3
  <2>11. ASSUME NEW v \in Nat PROVE ReachesPeak(p, v) <=> v >= w
    <3>1. ReachesPeak(p, v) <=> v * v * (x + y) >= (w * w) * (x + y)
      BY <1>3, <2>3, <2>5, <2>10 DEF ReachesPeak
    <3>2. v >= w => v * v * (x + y) >= (w * w) * (x + y)
      <4>1. PICK k \in Int : k = v * v - w * w
        OBVIOUS
      <4>2. v * v * (x + y) = (w * w) * (x + y) + k * (x + y)
        BY <4>1
      <4>3. v >= w => k >= 0
        BY <4>1, Squares
      <4>4. k >= 0 => k * (x + y) >= 0
        OBVIOUS
      <4>5. (w * w) * (x + y) \in Int /\ k * (x + y) \in Int
        OBVIOUS
      <4> QED
        BY <4>2, <4>3, <4>4, <4>5
    <3>3. v < w => v * v * (x + y) < (w * w) * (x + y)
      <4>1. PICK k \in Int : k = w * w - v * v
        OBVIOUS
      <4>2. (w * w) * (x + y) = v * v * (x + y) + k * (x + y)
        BY <4>1
      <4>3. v < w => k > 0
        BY <4>1, Squares
      <4>4. k > 0 => k * (x + y) > 0
        OBVIOUS
      <4>5. v * v * (x + y) \in Int /\ k * (x + y) \in Int
        OBVIOUS
      <4> QED
        BY <4>2, <4>3, <4>4, <4>5
    <3>4. v * v * (x + y) \in Int /\ (w * w) * (x + y) \in Int
      OBVIOUS
    <3> QED
      BY <3>1, <3>2, <3>3, <3>4
  <2> QED
    BY <2>3, <2>5, <2>8, <2>9, <2>11
<1> QED
  BY <1>2, <1>3

\* The velocity acc * t of a ramp is below VMax as long as t is less than n.
LEMMA RampEnds ==
    ASSUME NEW acc, NEW full, NEW n \in Nat \ {0}, NEW h \in Nat \ {0},
           IsRamp(acc, full, n, h), NEW t \in Nat
    PROVE  acc * t \in Nat /\ (acc * t >= VMax <=> t >= n)
<1>1. acc \in Nat \ {0} /\ VMax = n * acc
  BY DEF IsRamp
<1>2. t >= n => acc * t >= n * acc
  <2>1. acc * t = n * acc + acc * (t - n) /\ (t >= n => acc * (t - n) >= 0)
    BY <1>1
  <2>2. acc * t \in Int /\ n * acc \in Int /\ acc * (t - n) \in Int
    BY <1>1
  <2> QED
    BY <2>1, <2>2
<1>3. t < n => acc * t < n * acc
  <2>1. n * acc = acc * t + acc * (n - t) /\ (t < n => acc * (n - t) > 0)
    BY <1>1
  <2>2. acc * t \in Int /\ n * acc \in Int /\ acc * (n - t) \in Int
    BY <1>1
  <2> QED
    BY <2>1, <2>2
<1>4. acc * t \in Nat /\ n * acc \in Int
  BY <1>1
<1> QED
  BY <1>1, <1>2, <1>3, <1>4

\* From c to k the distance covered grows by VMax in a tick at most, and by what
\* was skipped.
Grows(p, c, k, d) ==
    /\ c \in 0 .. Distance(p) /\ k \in 0 .. Distance(p)
    /\ k - c \in 0 .. VMax * d + Leap(p, d)

\* In acceleration
LEMMA AdvancesUp ==
    ASSUME NEW p \in Planner, p.start # p.target, p.state = "ACCELERATING",
           Distance(p) >= FullAccel + FullDecel,
           NEW d \in Nat \ {0}, d <= p.elapsed, InPhase(p, p.elapsed - d),
           NEW q, q = Update(p)
    PROVE  /\ q.pos = Ahead(p, Covered(q, q.elapsed))
           /\ Grows(p, Covered(p, p.elapsed - d), Covered(q, q.elapsed), d)
<1>1. p.start \in Int /\ p.target \in Int /\ p.elapsed \in Nat
  BY DEF Planner
<1>2. PICK n, h \in Nat \ {0} : IsRamp(AMax, FullAccel, n, h)
  BY Ramps
<1>3. PICK t \in Nat, e \in Nat : t = p.elapsed /\ e = p.elapsed - d
  BY <1>1
<1>4. PICK s \in Nat \ {0}, f \in Nat \ {0}, g \in Nat \ {0}, v \in Nat \ {0} :
        s = Distance(p) /\ f = FullAccel /\ g = FullDecel /\ v = VMax
  BY <1>1, ProfileTypes, Distances
<1>5. /\ AccelDistance(p) = f /\ ConstDistance(p) = s - f - g
      /\ \A x \in Nat : ReachesPeak(p, x) <=> x >= v
  BY <1>1, <1>4, LongProfile
<1>6. q.start = p.start /\ q.target = p.target /\ (GoesOn(p, q) \/ EndsRamp(p, q))
  <2>1. ~EndsCruise(p, q) /\ ~Arrives(p, q)
    BY DEF EndsCruise, Arrives
  <2>2. p.state \in Phases
    BY DEF Phases
  <2> QED
    BY <2>1, <2>2, UpdateCases
<1>7. Distance(q) = s
  BY <1>4, <1>6, SameMove
<1>8. e < n
  <2>1. ~ReachesPeak(p, AMax * e)
    BY <1>3 DEF InPhase
  <2> QED
    BY <1>2, <1>4, <1>5, <2>1, RampEnds
<1>9. Covered(p, p.elapsed - d) = (AMax * e * e) \div 2
  BY <1>3 DEF Covered
<1>12. Leap(p, d) = 0
  BY DEF Leap
<1>10. CASE GoesOn(p, q)
  <2>1. q.state = p.state /\ q.elapsed = t /\ InPhase(p, t) /\ q.pos = Ahead(p, Offset(p, t))
    BY <1>3, <1>10 DEF GoesOn
  <2>2. Offset(p, t) = (AMax * t * t) \div 2 /\ Covered(q, t) = (AMax * t * t) \div 2
    BY <2>1 DEF Offset, Covered
  <2>3. t < n
    <3>1. ~ReachesPeak(p, AMax * t)
      BY <2>1 DEF InPhase
    <3> QED
      BY <1>2, <1>4, <1>5, <3>1, RampEnds
  <2>4. /\ (AMax * e * e) \div 2 \in Nat /\ (AMax * t * t) \div 2 \in Nat
        /\ (AMax * t * t) \div 2 - (AMax * e * e) \div 2 \in 0 .. VMax * (t - e)
        /\ (AMax * t * t) \div 2 <= FullAccel
    <3>1. e <= t /\ t <= n
      BY <1>3, <2>3
    <3> QED
      BY <1>2, <3>1, Climb
  <2>5. PICK c \in Nat, k \in Nat : c = (AMax * e * e) \div 2 /\ k = (AMax * t * t) \div 2
    BY <2>4
  <2>6. t - e = d
    BY <1>3
  <2>7. Grows(p, c, k, d)
    BY <1>4, <1>12, <2>4, <2>5, <2>6 DEF Grows
  <2> QED
    BY <1>9, <2>1, <2>2, <2>5, <2>7
<1>11. CASE EndsRamp(p, q)
  <2>1. /\ q.elapsed = 0 /\ q.pos = Ahead(p, f) /\ ReachesPeak(p, AMax * t)
        /\ q.state = IF Cruises(p) THEN "CONSTANT_VELOCITY" ELSE "DECELERATING"
    BY <1>3, <1>5, <1>11 DEF EndsRamp
  <2>2. n <= t
    BY <1>2, <1>4, <1>5, <2>1, RampEnds
  <2>3. Covered(q, 0) = f
    <3>1. /\ VMax * 0 = 0 /\ (DMax * 0 * 0) \div 2 = 0
      BY ProfileTypes
    <3>2. CASE Cruises(p)
      BY <1>4, <2>1, <3>1, <3>2 DEF Covered
    <3>3. CASE ~Cruises(p)
      <4>1. Skipped(q, 0) = s - f - g
        <5>1. Skipped(q, 0) = Skipped(p, 0)
          BY <1>6, SameMove
        <5> QED
          BY <1>5, <3>3, <5>1 DEF Skipped
      <4>2. Covered(q, 0) = s - g + 0 - 0 - (s - f - g)
        BY <1>4, <1>7, <2>1, <3>1, <3>3, <4>1 DEF Covered
      <4> QED
        BY <1>4, <4>2
    <3> QED
      BY <3>2, <3>3
  <2>4. /\ (AMax * e * e) \div 2 \in Nat
        /\ f - (AMax * e * e) \div 2 \in 0 .. VMax * (n - e)
    <3>1. e <= n /\ n <= n
      BY <1>8
    <3> QED
      BY <1>2, <1>4, <3>1, Climb
  <2>5. PICK c \in Nat : c = (AMax * e * e) \div 2
    BY <2>4
  <2>6. v * (n - e) <= v * d
    <3>1. PICK k \in Nat : d = (n - e) + k
      <4>1. d - (n - e) \in Nat /\ d = (n - e) + (d - (n - e))
        BY <1>3, <2>2
      <4> QED
        BY <4>1
    <3>2. v * d = v * (n - e) + v * k /\ v * k \in Nat /\ v * (n - e) \in Int
      BY <3>1
    <3> QED
      BY <3>2
  <2>7. Grows(p, c, f, d)
    <3>1. v * (n - e) \in Int /\ v * d \in Int
      OBVIOUS
    <3>2. f - c \in 0 .. v * d
      BY <1>4, <2>4, <2>5, <2>6, <3>1
    <3> QED
      BY <1>4, <1>12, <3>1, <3>2 DEF Grows
  <2> QED
    BY <1>9, <2>1, <2>3, <2>5, <2>7
<1> QED
  BY <1>6, <1>10, <1>11

\* At constant velocity
LEMMA AdvancesOn ==
    ASSUME NEW p \in Planner, p.start # p.target, p.state = "CONSTANT_VELOCITY", Cruises(p),
           Distance(p) >= FullAccel + FullDecel,
           NEW d \in Nat \ {0}, d <= p.elapsed, InPhase(p, p.elapsed - d),
           NEW q, q = Update(p)
    PROVE  /\ q.pos = Ahead(p, Covered(q, q.elapsed))
           /\ Grows(p, Covered(p, p.elapsed - d), Covered(q, q.elapsed), d)
<1>1. p.start \in Int /\ p.target \in Int /\ p.elapsed \in Nat
  BY DEF Planner
<1>2. PICK t \in Nat, e \in Nat : t = p.elapsed /\ e = p.elapsed - d
  BY <1>1
<1>3. PICK s \in Nat \ {0}, f \in Nat \ {0}, g \in Nat \ {0}, v \in Nat \ {0} :
        s = Distance(p) /\ f = FullAccel /\ g = FullDecel /\ v = VMax
  BY <1>1, ProfileTypes, Distances
<1>4. AccelDistance(p) = f /\ ConstDistance(p) = s - f - g
  BY <1>1, <1>3, LongProfile
<1>5. q.start = p.start /\ q.target = p.target /\ (GoesOn(p, q) \/ EndsCruise(p, q))
  <2>1. ~EndsRamp(p, q) /\ ~Arrives(p, q)
    BY DEF EndsRamp, Arrives
  <2>2. p.state \in Phases
    BY DEF Phases
  <2> QED
    BY <2>1, <2>2, UpdateCases
<1>6. Distance(q) = s
  BY <1>3, <1>5, SameMove
<1>7. v * e < s - f - g /\ v * e \in Nat /\ v * t \in Nat
  BY <1>2, <1>3, <1>4 DEF InPhase
<1>8. Covered(p, p.elapsed - d) = f + v * e
  BY <1>2, <1>3 DEF Covered
<1>9. v * t = v * e + v * d /\ v * d \in Nat
  BY <1>2
<1>12. Leap(p, d) = 0
  BY DEF Leap
<1>10. CASE GoesOn(p, q)
  <2>1. q.state = p.state /\ q.elapsed = t /\ InPhase(p, t) /\ q.pos = Ahead(p, Offset(p, t))
    BY <1>2, <1>10 DEF GoesOn
  <2>2. Offset(p, t) = f + v * t /\ Covered(q, t) = f + v * t
    BY <1>3, <1>4, <2>1 DEF Offset, Covered
  <2>3. v * t < s - f - g
    BY <1>3, <1>4, <2>1 DEF InPhase
  <2>4. PICK c \in Nat, k \in Nat : c = f + v * e /\ k = f + v * t
    BY <1>7
  <2>5. Grows(p, c, k, d)
    BY <1>3, <1>7, <1>9, <1>12, <2>3, <2>4 DEF Grows
  <2> QED
    BY <1>8, <2>1, <2>2, <2>4, <2>5
<1>11. CASE EndsCruise(p, q)
  <2>1. /\ q.state = "DECELERATING" /\ q.elapsed = 0 /\ v * t >= s - f - g
        /\ q.pos = Ahead(p, f + (s - f - g))
    BY <1>2, <1>3, <1>4, <1>11 DEF EndsCruise
  <2>2. f + (s - f - g) = s - g
    BY <1>3
  <2>3. Covered(q, 0) = s - g
    <3>1. VMax * 0 = 0 /\ (DMax * 0 * 0) \div 2 = 0
      BY ProfileTypes
    <3>2. Skipped(q, 0) = 0
      BY <1>5, SameMove DEF Skipped
    <3>3. Covered(q, 0) = s - g + 0 - 0 - 0
      BY <1>3, <1>6, <2>1, <3>1, <3>2 DEF Covered
    <3> QED
      BY <1>3, <3>3
  <2>4. PICK c \in Nat : c = f + v * e
    BY <1>7
  <2>5. Grows(p, c, s - g, d)
    BY <1>3, <1>7, <1>9, <1>12, <2>1, <2>4 DEF Grows
  <2> QED
    BY <1>8, <2>1, <2>2, <2>3, <2>4, <2>5
<1> QED
  BY <1>5, <1>10, <1>11

\* In deceleration
LEMMA AdvancesDown ==
    ASSUME NEW p \in Planner, p.start # p.target, p.state = "DECELERATING",
           Distance(p) >= FullAccel + FullDecel,
           NEW d \in Nat \ {0}, d <= p.elapsed, InPhase(p, p.elapsed - d),
           NEW q, q = Update(p)
    PROVE  /\ q.pos = Ahead(p, Covered(q, q.elapsed))
           /\ Grows(p, Covered(p, p.elapsed - d), Covered(q, q.elapsed), d)
<1>1. p.start \in Int /\ p.target \in Int /\ p.elapsed \in Nat
  BY DEF Planner
<1>2. PICK n, h \in Nat \ {0} : IsRamp(DMax, FullDecel, n, h)
  BY Ramps
<1>3. PICK t \in Nat, e \in Nat : t = p.elapsed /\ e = p.elapsed - d
  BY <1>1
<1>4. PICK s \in Nat \ {0}, f \in Nat \ {0}, g \in Nat \ {0}, v \in Nat \ {0} :
        s = Distance(p) /\ f = FullAccel /\ g = FullDecel /\ v = VMax
  BY <1>1, ProfileTypes, Distances
<1>5. /\ AccelDistance(p) = f /\ ConstDistance(p) = s - f - g
      /\ \A x \in Nat : ReachesPeak(p, x) <=> x >= v
  BY <1>1, <1>4, LongProfile
<1>6. q.start = p.start /\ q.target = p.target /\ (GoesOn(p, q) \/ Arrives(p, q))
  <2>1. ~EndsRamp(p, q) /\ ~EndsCruise(p, q)
    BY DEF EndsRamp, EndsCruise
  <2>2. p.state \in Phases
    BY DEF Phases
  <2> QED
    BY <2>1, <2>2, UpdateCases
<1>7. Distance(q) = s
  BY <1>4, <1>6, SameMove
<1>8. e < n
  <2>1. ~ReachesPeak(p, DMax * e)
    BY <1>3 DEF InPhase
  <2> QED
    BY <1>2, <1>4, <1>5, <2>1, RampEnds
<1>13. PICK w \in Nat : w = Skipped(p, e) /\ w = Leap(p, d) /\ w <= s - f - g
  <2>1. s - f - g \in Nat
    BY <1>4
  <2>2. e = 0 <=> p.elapsed = d
    BY <1>1, <1>3
  <2> QED
    BY <1>5, <2>1, <2>2 DEF Skipped, Leap
<1>14. Skipped(q, t) = 0
  BY <1>3 DEF Skipped
<1>9. Covered(p, p.elapsed - d) = s - g + VMax * e - (DMax * e * e) \div 2 - w
  BY <1>3, <1>4, <1>13 DEF Covered
<1>10. VMax * e \in Int /\ VMax * t \in Int /\ (DMax * e * e) \div 2 \in Int
       /\ (DMax * t * t) \div 2 \in Int
  BY ProfileTypes
<1>11. CASE GoesOn(p, q)
  <2>1. q.state = p.state /\ q.elapsed = t /\ InPhase(p, t) /\ q.pos = Ahead(p, Offset(p, t))
    BY <1>3, <1>11 DEF GoesOn
  <2>2. /\ Offset(p, t) = f + (s - f - g) + VMax * t - (DMax * t * t) \div 2
        /\ Covered(q, t) = s - g + VMax * t - (DMax * t * t) \div 2
    <3>1. Offset(p, t) = f + (s - f - g) + VMax * t - (DMax * t * t) \div 2
      BY <1>5, <2>1 DEF Offset
    <3>2. Covered(q, t) = s - g + VMax * t - (DMax * t * t) \div 2 - 0
      BY <1>4, <1>7, <1>14, <2>1 DEF Covered
    <3> QED
      BY <1>4, <1>10, <3>1, <3>2
  <2>3. t < n
    <3>1. ~ReachesPeak(p, DMax * t)
      BY <2>1 DEF InPhase
    <3> QED
      BY <1>2, <1>4, <1>5, <3>1, RampEnds
  <2>4. PICK x \in Int, y \in Int : x = VMax * e - (DMax * e * e) \div 2
                                    /\ y = VMax * t - (DMax * t * t) \div 2
    BY <1>10
  <2>5. x \in Nat /\ y - x \in 0 .. VMax * (t - e) /\ y <= FullDecel
    <3>1. e <= t /\ t <= n
      BY <1>3, <2>3
    <3> QED
      BY <1>2, <2>4, <3>1, Descent
  <2>6. t - e = d
    BY <1>3
  <2>7. PICK c \in Int, k \in Int : c = s - g + x - w /\ k = s - g + y
    OBVIOUS
  <2>8. Grows(p, c, k, d)
    BY <1>4, <1>13, <2>5, <2>6, <2>7 DEF Grows
  <2>9. Offset(p, t) = k /\ Covered(q, t) = k /\ Covered(p, p.elapsed - d) = c
    BY <1>4, <1>9, <1>10, <2>2, <2>4, <2>7
  <2> QED
    BY <2>1, <2>8, <2>9
<1>12. CASE Arrives(p, q)
  <2>1. q.state = "FINISHED" /\ q.pos = p.target /\ ReachesPeak(p, DMax * t)
    BY <1>3, <1>12 DEF Arrives
  <2>2. Covered(q, q.elapsed) = s
    BY <1>7, <2>1 DEF Covered
  <2>3. q.pos = Ahead(p, s)
    BY <1>1, <1>4, <2>1, Distances
  <2>4. n <= t
    BY <1>2, <1>4, <1>5, <2>1, RampEnds
  <2>5. PICK x \in Int : x = VMax * e - (DMax * e * e) \div 2
    BY <1>10
  <2>6. x \in Nat /\ g - x \in 0 .. VMax * (n - e)
    <3>1. e <= n /\ n <= n
      BY <1>8
    <3> QED
      BY <1>2, <1>4, <2>5, <3>1, Descent
  <2>7. v * (n - e) <= v * d /\ v * (n - e) \in Int /\ v * d \in Int
    <3>1. PICK k \in Nat : d = (n - e) + k
      <4>1. d - (n - e) \in Nat /\ d = (n - e) + (d - (n - e))
        BY <1>3, <2>4
      <4> QED
        BY <4>1
    <3>2. v * d = v * (n - e) + v * k /\ v * k \in Nat /\ v * (n - e) \in Int
      BY <3>1
    <3> QED
      BY <3>2
  <2>8. PICK c \in Int : c = s - g + x - w
    OBVIOUS
  <2>9. Grows(p, c, s, d)
    BY <1>4, <1>13, <2>6, <2>7, <2>8 DEF Grows
  <2>10. Covered(p, p.elapsed - d) = c
    BY <1>9, <1>10, <2>5, <2>8
  <2> QED
    BY <2>2, <2>3, <2>9, <2>10
<1> QED
  BY <1>6, <1>11, <1>12

\* In every phase
LEMMA Advances ==
    ASSUME NEW p \in Planner, p.start # p.target, p.state \in Phases,
           p.state = "CONSTANT_VELOCITY" => Cruises(p),
           Distance(p) >= FullAccel + FullDecel,
           NEW d \in Nat \ {0}, d <= p.elapsed, InPhase(p, p.elapsed - d),
           NEW q, q = Update(p)
    PROVE  /\ q.pos = Ahead(p, Covered(q, q.elapsed))
           /\ Grows(p, Covered(p, p.elapsed - d), Covered(q, q.elapsed), d)
BY AdvancesUp, AdvancesOn, AdvancesDown DEF Phases

-----------------------------------------------------------------------------
(* Each step preserves PathInv *)

\* Distances from the start are differences of positions.
LEMMA Signed ==
    ASSUME NEW p, p.start \in Int, NEW c \in Int, NEW k \in Int
    PROVE  /\ Direction(p) * (Ahead(p, k) - Ahead(p, c)) = k - c
           /\ Direction(p) * (Ahead(p, k) - p.start) = k
           /\ Ahead(p, 0) = p.start
           /\ Ahead(p, k) \in Int
<1>1. Direction(p) = 1 \/ Direction(p) = -1
  BY DEF Direction
<1>2. CASE Direction(p) = 1
  BY <1>2 DEF Ahead
<1>3. CASE Direction(p) = -1
  BY <1>3 DEF Ahead
<1> QED
  BY <1>1, <1>2, <1>3

\* A new plan is where the motor is.
LEMMA BeginPath ==
    ASSUME MoveInv', Begin, Undergone'
    PROVE  PathInv'
<1>1. PICK from \in Positions, to \in Positions :
        /\ move' = [start |-> from, target |-> to]
        /\ sent' = from
        /\ IF from = to
           THEN result' = "done" /\ UNCHANGED <<planner, pc>>
           ELSE planner' = Plan(from, to) /\ pc' = "prepare" /\ result' = "none"
  BY DEF Begin
<1>2. from # to
  BY <1>1 DEF Begin, Undergone
<1>3. planner' = Plan(from, to) /\ pc' = "prepare"
  BY <1>1, <1>2
<1>4. from \in Int /\ to \in Int
  BY MotionAssumption
<1>5. PICK p : p = Plan(from, to)
  OBVIOUS
<1>6. p = [state |-> "ACCELERATING", start |-> from, target |-> to, pos |-> from,
           vel |-> 0, elapsed |-> 0]
  BY <1>2, <1>5 DEF Plan, Reset
<1>7. /\ p.start = from /\ p.target = to /\ p.state = "ACCELERATING" /\ p.elapsed = 0
      /\ p.pos = from
  BY <1>6
<1>8. Covered(p, 0) = 0
  <2>1. (AMax * 0 * 0) \div 2 = 0
    BY ProfileTypes
  <2> QED
    BY <1>7, <2>1 DEF Covered
<1>9. p.pos = Ahead(p, 0) /\ Distance(p) \in Nat \ {0} /\ Direction(p) * (from - from) = 0
  <2>1. Direction(p) \in {-1, 1}
    BY <1>2, <1>4, <1>7, Distances
  <2> QED
    BY <1>2, <1>4, <1>7, <2>1, Distances, Signed
<1>10. planner' = p /\ since' = 0 /\ p.elapsed - 0 = 0
  BY <1>3, <1>5, <1>7 DEF Begin
<1>11. PICK m : m = [start |-> from, target |-> to]
  OBVIOUS
<1>12. m.start = from /\ m.target = to
  BY <1>11
<1>13. Direction(m) = Direction(p) /\ Distance(m) = Distance(p)
  BY <1>7, <1>12, SameMove
<1>14. Direction(move') * (sent' - move'.start) \in 0 .. Distance(move')
  <2>1. Direction(m) * (from - m.start) = 0
    BY <1>9, <1>12, <1>13
  <2> QED
    BY <1>1, <1>9, <1>11, <1>13, <2>1
<1>15. /\ planner'.pos = Ahead(planner', Covered(planner', planner'.elapsed - since'))
       /\ Covered(planner', planner'.elapsed - since') \in 0 .. Distance(planner')
       /\ sent' = planner'.pos
  BY <1>1, <1>7, <1>8, <1>9, <1>10
<1> QED
  BY <1>14, <1>15 DEF PathInv

\* What an update makes of a long move.
LEMMA UpdatePath ==
    ASSUME PathInv, MoveInv', UpdatePlanner, Undergone', Long'
    PROVE  /\ PathInv'
           /\ Direction(move) * (planner'.pos - sent)
                \in 0 .. VMax * since + Leap(planner, since)
<1>1. Undergone /\ pc = "update" /\ Long /\ MoveInv
  BY DEF UpdatePlanner, Undergone, Undisturbed, Long, PathInv
<1>2. /\ planner \in Planner /\ planner.start # planner.target /\ planner.state \in Phases
      /\ planner.start \in Int /\ planner.target \in Int /\ planner.elapsed \in Nat
      /\ planner.start = move.start /\ planner.target = move.target
      /\ since \in 0 .. MaxGap /\ since <= planner.elapsed /\ MaxGap \in Nat
      /\ InPhase(planner, planner.elapsed - since) /\ since > 0
      /\ planner.state = "CONSTANT_VELOCITY" => Cruises(planner)
  BY <1>1, Moving
<1>3. since \in Nat \ {0}
  BY <1>2
<1>4. Distance(move) = Distance(planner) /\ Direction(move) = Direction(planner)
  BY <1>2, SameMove
<1>5. Distance(planner) >= FullAccel + FullDecel
  BY <1>1, <1>4 DEF Long
<1>6. PICK q : q = Update(planner)
  OBVIOUS
<1>7. q \in Planner /\ q.start = planner.start /\ q.target = planner.target
  BY <1>2, <1>6, UpdateCases
<1>8. PICK c, k : c = Covered(planner, planner.elapsed - since) /\ k = Covered(q, q.elapsed)
  OBVIOUS
<1>9. q.pos = Ahead(planner, k) /\ Grows(planner, c, k, since)
  BY <1>2, <1>3, <1>5, <1>6, <1>8, Advances
<1>10. /\ c \in Int /\ k \in 0 .. Distance(planner) /\ k \in Int
       /\ k - c \in 0 .. VMax * since + Leap(planner, since)
  BY <1>9 DEF Grows
<1>11. sent = Ahead(planner, c)
  BY <1>1, <1>8 DEF PathInv
<1>12. Direction(move) * (q.pos - sent) \in 0 .. VMax * since + Leap(planner, since)
  <2>1. Direction(planner) * (Ahead(planner, k) - Ahead(planner, c)) = k - c
    BY <1>2, <1>10, Signed
  <2> QED
    BY <1>4, <1>9, <1>10, <1>11, <2>1
<1>13. planner' = q /\ since' = 0 /\ pc' = "send" /\ sent' = sent /\ move' = move
  BY <1>6 DEF UpdatePlanner
<1>14. q.elapsed - 0 = q.elapsed
  BY <1>7 DEF Planner
<1>15. Ahead(q, k) = Ahead(planner, k) /\ Distance(q) = Distance(planner)
  BY <1>7, SameMove
<1>16. /\ planner'.pos = Ahead(planner', Covered(planner', planner'.elapsed - since'))
       /\ Covered(planner', planner'.elapsed - since') \in 0 .. Distance(planner')
  BY <1>8, <1>9, <1>10, <1>13, <1>14, <1>15
<1>17. Direction(move') * (sent' - move'.start) \in 0 .. Distance(move')
  BY <1>1, <1>13 DEF PathInv
<1> QED
  BY <1>12, <1>13, <1>16, <1>17 DEF PathInv

\* The position sent is the planner's.
LEMMA SendPath ==
    ASSUME PathInv, MoveInv', Send, Undergone', Long'
    PROVE  PathInv'
<1>1. Undergone /\ pc = "send" /\ Long /\ MoveInv
  BY DEF Send, Undergone, Undisturbed, Long, PathInv
<1>2. /\ planner.start = move.start /\ planner.target = move.target
      /\ planner.start \in Int
  BY <1>1, Moving
<1>3. Distance(move) = Distance(planner) /\ Direction(move) = Direction(planner)
  BY <1>2, SameMove
<1>4. PICK c : c = Covered(planner, planner.elapsed - since)
  OBVIOUS
<1>5. planner.pos = Ahead(planner, c) /\ c \in 0 .. Distance(planner)
  BY <1>1, <1>4 DEF PathInv
<1>6. Direction(planner) * (planner.pos - planner.start) = c
  BY <1>2, <1>5, Signed
<1>7. sent' = planner.pos /\ UNCHANGED <<planner, move, since>>
  BY DEF Send, Command, Return, Undergone
<1>8. Direction(move') * (sent' - move'.start) \in 0 .. Distance(move')
  BY <1>2, <1>3, <1>5, <1>6, <1>7
<1> QED
  BY <1>4, <1>5, <1>7, <1>8 DEF PathInv

\* Time moves nothing before the next update.
LEMMA TickPath ==
    ASSUME PathInv, MoveInv', Tick, Undergone', Long'
    PROVE  PathInv'
<1>1. Undergone /\ Long /\ MoveInv
  BY DEF Tick, Undergone, Undisturbed, Long, PathInv
<1>2. /\ planner \in Planner /\ planner.elapsed \in Nat /\ since \in 0 .. MaxGap
      /\ MaxGap \in Nat
  BY <1>1, Moving
<1>3. PICK q : q = Later(planner, 1)
  OBVIOUS
<1>4. /\ q.start = planner.start /\ q.target = planner.target /\ q.pos = planner.pos
      /\ q.elapsed = planner.elapsed + 1
      /\ \A t : Covered(q, t) = Covered(planner, t)
  BY <1>2, <1>3, Lateness
<1>5. /\ Distance(q) = Distance(planner)
      /\ \A t : Ahead(q, t) = Ahead(planner, t)
  BY <1>4, SameMove
<1>6. planner' = q /\ since' = since + 1 /\ UNCHANGED <<pc, sent, move>>
  BY <1>3 DEF Tick
<1>7. planner'.elapsed - since' = planner.elapsed - since
  BY <1>2, <1>4, <1>6
<1>8. Covered(planner', planner'.elapsed - since') = Covered(planner, planner.elapsed - since)
  BY <1>4, <1>6, <1>7
<1> QED
  BY <1>1, <1>4, <1>5, <1>6, <1>8 DEF PathInv

\* PathInv is inductive.
LEMMA PathSteps ==
    ASSUME PathInv, [Next]_vars
    PROVE  PathInv'
<1>1. MoveInv /\ MoveInv'
  BY MoveSteps DEF PathInv
<1>2. SUFFICES ASSUME Undergone', Long' PROVE PathInv'
  BY <1>1 DEF PathInv
<1>3. CASE Begin
  BY <1>1, <1>2, <1>3, BeginPath
<1>4. CASE Prepare
  <2>1. Undergone /\ Long
    BY <1>2, <1>4 DEF Prepare, Undergone, Undisturbed, Long
  <2> QED
    BY <1>1, <1>4, <2>1 DEF Prepare, PathInv
<1>5. CASE Turn
  <2>1. Undergone /\ Long
    BY <1>2, <1>5 DEF Turn, Undergone, Undisturbed, Long
  <2> QED
    BY <1>1, <1>5, <2>1 DEF Turn, PathInv
<1>6. CASE UpdatePlanner
  BY <1>1, <1>2, <1>6, UpdatePath
<1>7. CASE Send
  BY <1>1, <1>2, <1>7, SendPath
<1>8. CASE Final
  BY <1>2, <1>8 DEF Final, Return, Undergone
<1>9. CASE Interrupt
  BY <1>2, <1>9 DEF Interrupt, Return, Undergone
<1>10. CASE StopRunning
  BY <1>2, <1>10 DEF StopRunning, Undergone, Undisturbed
<1>11. CASE StopReset
  BY <1>2, <1>11 DEF StopReset, Undergone, Undisturbed
<1>12. CASE Tick
  BY <1>1, <1>2, <1>12, TickPath
<1>13. CASE UNCHANGED vars
  <2>1. Undergone /\ Long
    BY <1>2, <1>13 DEF vars, Undergone, Undisturbed, Long
  <2> QED
    BY <1>1, <1>13, <2>1 DEF vars, PathInv
<1> QED
  BY <1>3, <1>4, <1>5, <1>6, <1>7, <1>8, <1>9, <1>10, <1>11, <1>12, <1>13 DEF Next, MoveStep

\* Between start and target the two distances add up.
LEMMA Within == PathInv => WithinMove
<1> SUFFICES ASSUME PathInv, pc # "idle", Undisturbed, Long
             PROVE  Abs(sent - move.start) + Abs(move.target - sent) = Distance(move)
  BY DEF WithinMove
<1>1. Undergone /\ MoveInv
  BY DEF Undergone, PathInv
<1>2. sent \in Int /\ move.start \in Int /\ move.target \in Int
  BY <1>1, Moving
<1>3. Direction(move) * (sent - move.start) \in 0 .. Distance(move)
  BY <1>1 DEF PathInv
<1> QED
  BY <1>2, <1>3 DEF Direction, Distance, Abs

(***************************************************************************)
(* A long move never passes its target nor goes back behind its start, for *)
(* any velocity and acceleration and however late the loop comes round.    *)
(***************************************************************************)
THEOREM MoveStaysWithin == Spec => []WithinMove
<1>1. Init => PathInv
  BY InitMoves
<1>2. PathInv /\ [Next]_vars => PathInv'
  BY PathSteps
<1> QED
  BY <1>1, <1>2, Within, PTL DEF Spec

\* Only an update brings the move from "update" to "send".
LEMMA RateSteps ==
    ASSUME PathInv, [Next]_vars,
           Undisturbed, Long, pc = "update", pc' = "send"
    PROVE  Direction(move) * (planner'.pos - sent)
                        \in 0 .. VMax * since + Leap(planner, since)
<1>1. PathInv' /\ MoveInv'
  BY PathSteps DEF PathInv
<1>2. UpdatePlanner
  BY DEF Next, MoveStep, Begin, Prepare, Turn, Send, Final, Return, Interrupt, StopRunning,
         StopReset, Tick, vars
<1>3. Undergone' /\ Long'
  BY <1>2 DEF UpdatePlanner, Undergone, Undisturbed, Long
<1> QED
  BY <1>1, <1>2, <1>3, UpdatePath

(***************************************************************************)
(* In a long move each setpoint goes forward, and by no more than VMax     *)
(* allows in the time since the last one, however late it is; a cruise of  *)
(* a millisecond at most, which the planner skips, is leapt over once.     *)
(***************************************************************************)
THEOREM MoveRateLimited == Spec => RateLimited
<1>1. Init => PathInv
  BY InitMoves
<1>2. PathInv /\ [Next]_vars => PathInv'
  BY PathSteps
<1>3. PathInv /\ [Next]_vars =>
        [Undisturbed /\ Long /\ pc = "update" /\ pc' = "send" =>
           Direction(move) * (planner'.pos - sent)
               \in 0 .. VMax * since + Leap(planner, since)]_vars
  BY RateSteps
<1> QED
  BY <1>1, <1>2, <1>3, PTL DEF Spec, RateLimited

-----------------------------------------------------------------------------
(* Both programs on the adapter *)

\* A step of the motion program is one of the move, or is outside of it.
OutsideMove ==
    /\ pc = "idle" /\ pc' = "idle"
    /\ \/ result' = result /\ spc' = spc
       \/ result' = "none" /\ spc' = "idle"

\* For the motion program the others do not exist.
LEMMA ToolsMotion ==
    ASSUME [ToolsNext]_toolVars
    PROVE  [Next]_vars \/ OutsideMove
<1>1. ASSUME NEW p \in {"motion", "recovery"}, Opening(p) PROVE UNCHANGED vars
  BY <1>1 DEF Opening
<1>2. CASE MotionStep(Next)
  BY <1>2 DEF MotionStep
<1>3. CASE MotionStep(MenuDisable)
  BY <1>3 DEF MotionStep, MenuDisable, OutsideMove
<1>4. CASE QuitMotion
  BY <1>4 DEF QuitMotion, OutsideMove
<1>5. CASE RecoveryStep(BeginRecovery \/ Run \/ MotorStep)
  BY <1>5 DEF RecoveryStep
<1>6. CASE QuitRecovery
  BY <1>6 DEF QuitRecovery
<1>7. CASE UNCHANGED toolVars
  BY <1>7 DEF toolVars
<1> QED
  BY <1>1, <1>2, <1>3, <1>4, <1>5, <1>6, <1>7 DEF ToolsNext

\* Nor for the recovery.
LEMMA ToolsRecovery ==
    ASSUME [ToolsNext]_toolVars
    PROVE  [RecoveryNext]_recoveryVars
<1>1. ASSUME NEW p \in {"motion", "recovery"}, Opening(p) PROVE UNCHANGED recoveryVars
  BY <1>1 DEF Opening
<1>2. CASE MotionStep(Next)
  BY <1>2 DEF MotionStep
<1>3. CASE MotionStep(MenuDisable)
  BY <1>3 DEF MotionStep
<1>4. CASE QuitMotion
  BY <1>4 DEF QuitMotion
<1>5. CASE RecoveryStep(BeginRecovery \/ Run \/ MotorStep)
  BY <1>5 DEF RecoveryStep, RecoveryNext
<1>6. CASE QuitRecovery
  BY <1>6 DEF QuitRecovery, RecoveryNext
<1>7. CASE UNCHANGED toolVars
  BY <1>7 DEF toolVars
<1> QED
  BY <1>1, <1>2, <1>3, <1>4, <1>5, <1>6, <1>7 DEF ToolsNext

(***************************************************************************)
(* The adapter, its sharing and the exits of both programs do not disturb  *)
(* a recovery: it behaves as one that runs by itself.                      *)
(***************************************************************************)
THEOREM ToolsRunTheRecovery == ToolsSpec => RecoverySpec
<1>1. ToolsInit => RecoveryInit
  BY DEF ToolsInit
<1>2. [ToolsNext]_toolVars => [RecoveryNext]_recoveryVars
  BY ToolsRecovery
<1> QED
  BY <1>1, <1>2, PTL DEF ToolsSpec, RecoverySpec

\* Outside of a move nothing is claimed.
LEMMA OutsideSteps ==
    ASSUME OutsideMove
    PROVE  /\ TimeInv => TimeInv'
           /\ PathInv'
<1>1. ~Undergone'
  BY DEF OutsideMove, Undergone
<1>2. NeverTimesOut => NeverTimesOut'
  BY DEF OutsideMove, NeverTimesOut, Undisturbed
<1> QED
  BY <1>1, <1>2 DEF TimeInv, PathInv, MoveInv

(***************************************************************************)
(* Nor do they disturb a move: in the program with its menu and its exits  *)
(* the properties of the moves hold.                                       *)
(***************************************************************************)
THEOREM ToolsMovesAreSafe ==
    ASSUME Patient
    PROVE  ToolsSpec => []NeverTimesOut /\ []WithinMove /\ RateLimited
<1>1. ToolsInit => TimeInv /\ PathInv
  BY InitMoves DEF ToolsInit
<1>2. TimeInv /\ [ToolsNext]_toolVars => TimeInv'
  BY ToolsMotion, TimeSteps, OutsideSteps
<1>3. PathInv /\ [ToolsNext]_toolVars => PathInv'
  BY ToolsMotion, PathSteps, OutsideSteps
<1>4. TimeInv => NeverTimesOut
  BY DEF TimeInv
<1>5. PathInv /\ [ToolsNext]_toolVars =>
        [Undisturbed /\ Long /\ pc = "update" /\ pc' = "send" =>
           Direction(move) * (planner'.pos - sent)
               \in 0 .. VMax * since + Leap(planner, since)]_vars
  <2> SUFFICES ASSUME PathInv, [ToolsNext]_toolVars,
                      Undisturbed, Long, pc = "update", pc' = "send"
               PROVE  Direction(move) * (planner'.pos - sent)
                        \in 0 .. VMax * since + Leap(planner, since)
    OBVIOUS
  <2>1. [Next]_vars
    BY ToolsMotion DEF OutsideMove
  <2> QED
    BY <2>1, RateSteps
<1> QED
  BY <1>1, <1>2, <1>3, <1>4, <1>5, Within, PTL DEF ToolsSpec, RateLimited

(***************************************************************************)
(* So what is proved of the recovery by itself holds of it beside the      *)
(* motion program.                                                         *)
(***************************************************************************)
THEOREM ToolsRecoveryIsSafe ==
    ASSUME MaxLate <= 1
    PROVE  ToolsSpec => []ZeroForAReason /\ []SuccessIsReal /\ HoldsStill
BY ToolsRunTheRecovery, RecoveryZeroForAReason, RecoverySuccessIsReal, RecoveryHoldsStill, PTL

=============================================================================
