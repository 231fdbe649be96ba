---------------------------- MODULE EncoderRecovery ----------------------------
(***************************************************************************)
(* main of src/examples/python/encoder_recovery.py, which brings a motor   *)
(* back whose encoder has lost its place: it looks at the error, disables  *)
(* the motor, clears the error, has the zero position set again if that    *)
(* does not help, enables the motor where it stands and looks again.       *)
(*                                                                         *)
(* rpc is the next call of MotorController (or input), by what it is for.  *)
(* Each is a request and, later, what main makes of the answer.            *)
(***************************************************************************)
EXTENDS MotorController

VARIABLES
    rpc,            \* where main is; "off" when the program does not run
    known,          \* its variables: error and pos are the last results of
                    \* get_error_status and get_position, encoder and lost are
                    \* has_encoder_error and is_multi_turn_lost
    outcome,        \* what the program says at the end
    \* Kept for the properties:
    firstError,     \* the motor's error when the program began
    crossed,        \* some call took an answer that was not its own
    held            \* since the position to hold was read, each call has had
                    \* its own answer, and no write was refused

programVars == <<rpc, known, outcome, firstError, crossed, held>>
recoveryVars == <<controllerVars, programVars>>

Nothing == [error |-> None, pos |-> None, encoder |-> FALSE, lost |-> FALSE, enabled |-> FALSE]

HasBit(code, bit) == (code \div bit) % 2 = 1

\* ErrorCode.ENCODER_ERROR, POSITION_STEP_ERROR and MULTI_TURN_LOST
SaysEncoder(code) == code # None /\ (HasBit(code, 32) \/ HasBit(code, 16384))
SaysLost(code) == code # None /\ HasBit(code, 32768)

-----------------------------------------------------------------------------
\* What each place sends.
NextCommand ==
    CASE rpc = "ping" -> Read("version")
      [] rpc \in {"where", "there", "hold", "look"} -> Read("position")
      [] rpc \in {"status", "recheck", "zeroed", "verify"} -> Read("error")
      [] rpc \in {"disable", "disableAgain"} -> Write("enable", 0)
      [] rpc = "clear" -> Write("clear", 1)
      [] rpc = "zero" -> Write("zero", 1)
      [] rpc = "save" -> Write("save", 1)
      [] rpc = "mode" -> Write("mode", 3)
      [] rpc = "low" -> Write("low", Low(known.pos))
      [] rpc = "high" -> Write("high", High(known.pos))
      [] rpc = "enable" -> Write("enable", 1)
      [] rpc = "isOn" -> Read("enable")

Request ==
    /\ rpc \notin {"off", "ask", "close"}
    /\ SendCommand(NextCommand)
    /\ UNCHANGED programVars

-----------------------------------------------------------------------------
(* What main makes of the answer f, or of None *)

\* Calls whose result is only printed, or not even that.
Onward ==
    [ping |-> "where", disable |-> "clear", clear |-> "recheck",
     disableAgain |-> "save", save |-> "mode", mode |-> "hold",
     low |-> "high", high |-> "enable", enable |-> "verify"]

Ignore(f) ==
    /\ rpc \in DOMAIN Onward
    /\ rpc' = Onward[rpc]
    /\ UNCHANGED <<known, outcome>>

\* get_position, printed; before the zero position is set, too.
Where(f) ==
    /\ rpc \in {"where", "there"}
    /\ known' = [known EXCEPT !.pos = PositionIn(f)]
    /\ rpc' = IF rpc = "where" THEN "status" ELSE "zero"
    /\ UNCHANGED outcome

\* Step 1: nothing to do if no error is seen, or none can be read.
Status(f) ==
    /\ rpc = "status"
    /\ known' = [known EXCEPT !.error = ErrorIn(f), !.encoder = SaysEncoder(ErrorIn(f)),
                              !.lost = SaysLost(ErrorIn(f))]
    /\ IF ErrorIn(f) \in {None, 0}
       THEN rpc' = "close" /\ outcome' = "nothing to do"
       ELSE rpc' = "disable" /\ UNCHANGED outcome

\* Step 3: what is left after the errors have been cleared.
Left(f) ==
    [known EXCEPT !.error = ErrorIn(f), !.encoder = @ /\ ErrorIn(f) # 0,
                  !.lost = @ /\ ErrorIn(f) # 0]

\* (bug) Any error that persists has the zero position set.
RecheckAny(f) ==
    /\ rpc = "recheck"
    /\ known' = Left(f)
    /\ rpc' = IF known'.lost \/ known'.error \notin {None, 0} THEN "ask" ELSE "mode"
    /\ UNCHANGED outcome

\* Step 4: must the zero position be set?
Recheck(f) ==
    /\ rpc = "recheck"
    /\ known' = Left(f)
    /\ rpc' = IF known'.lost \/ (known'.encoder /\ known'.error \notin {None, 0})
              THEN "ask" ELSE "mode"
    /\ UNCHANGED outcome

Zero(f) ==
    /\ rpc = "zero"
    /\ rpc' = IF f = None THEN "mode" ELSE "zeroed"
    /\ UNCHANGED <<known, outcome>>

\* The error is read again; the user has the zero position saved or not.
Zeroed(f) ==
    /\ rpc = "zeroed"
    /\ known' = [known EXCEPT !.error = ErrorIn(f)]
    /\ rpc' \in {"disableAgain", "mode"}
    /\ UNCHANGED outcome

\* (bug) The position read before the zero position was set is held.
HoldOld(f) ==
    /\ rpc = "hold"
    /\ known' = [known EXCEPT !.pos = IF @ = None THEN PositionIn(f) ELSE @]
    /\ rpc' = IF known'.pos = None THEN "enable" ELSE "low"
    /\ UNCHANGED outcome

\* Step 6: the target becomes the position, if that can be read.
Hold(f) ==
    /\ rpc = "hold"
    /\ known' = [known EXCEPT !.pos = PositionIn(f)]
    /\ rpc' = IF known'.pos = None THEN "enable" ELSE "low"
    /\ UNCHANGED outcome

\* Step 7: get_error_status; final_code is 0xFFFF when it returns None.
Verify(f) ==
    /\ rpc = "verify"
    /\ known' = [known EXCEPT !.error = ErrorIn(f)]
    /\ rpc' = "isOn"
    /\ UNCHANGED outcome

IsOn(f) ==
    /\ rpc = "isOn"
    /\ known' = [known EXCEPT !.enabled = EnabledIn(f)]
    /\ rpc' = "look"
    /\ UNCHANGED outcome

Look(f) ==
    /\ rpc = "look"
    /\ known' = [known EXCEPT !.pos = PositionIn(f)]
    /\ outcome' = IF known.enabled /\ known.error = 0 THEN "success" ELSE "partial"
    /\ rpc' = "close"

Continue(f) ==
    \/ Ignore(f) \/ Where(f) \/ Status(f) \/ Recheck(f) \/ Zero(f) \/ Zeroed(f)
    \/ Hold(f) \/ Verify(f) \/ IsOn(f) \/ Look(f)

\* A call returns, and main goes on.
Result ==
    /\ rpc \notin {"off", "ask", "close"}
    /\ \E f \in Results :
         /\ Returns(f)
         /\ Continue(f)
         /\ LET own == IF f = None THEN FALSE ELSE f.age = 0
            IN  /\ crossed' = (crossed \/ (f # None /\ ~own))
                /\ held' = CASE rpc = "hold" -> own /\ known'.pos # None
                             [] rpc \in {"low", "high"} -> held /\ own /\ f.bytes = <<1>>
                             [] OTHER -> held
    /\ UNCHANGED firstError

\* The user turns the motor to its zero position by hand and presses Enter.
Ask ==
    /\ rpc = "ask"
    /\ rpc' = "there"
    /\ \E p \in IF motor.enabled THEN {motor.position} ELSE Angles :
          motor' = [motor EXCEPT !.position = p]
    /\ UNCHANGED <<line, buffer, waiting, known, outcome, firstError, crossed, held>>

\* The program begins, with the motor as it finds it.
BeginRecovery ==
    /\ rpc = "off"
    /\ rpc' = "ping"
    /\ motor' \in Motors
    /\ firstError' = motor'.error
    /\ UNCHANGED <<line, buffer, waiting, known, outcome, crossed, held>>

\* It ends: after the last call, or by Ctrl-C at any moment.  The next one may
\* find the motor in any state.
EndRecovery ==
    /\ rpc # "off"
    /\ rpc' = "off"
    /\ line' = <<>> /\ buffer' = <<>> /\ waiting' = FALSE
    /\ known' = Nothing /\ outcome' = "none"
    /\ crossed' = FALSE /\ held' = FALSE
    /\ motor' = None /\ firstError' = None

RecoveryInit ==
    /\ motor = None /\ firstError = None
    /\ line = <<>> /\ buffer = <<>> /\ waiting = FALSE
    /\ rpc = "off"
    /\ known = Nothing /\ outcome = "none"
    /\ crossed = FALSE /\ held = FALSE

MotorStep == (Serve \/ Lose \/ Arrive) /\ UNCHANGED programVars

Run == Request \/ Result \/ Ask

RecoveryNext == BeginRecovery \/ Run \/ MotorStep \/ EndRecovery

RecoverySpec == RecoveryInit /\ [][RecoveryNext]_recoveryVars

-----------------------------------------------------------------------------
(* Properties *)

(***************************************************************************)
(* When the program says that the recovery has succeeded, the motor is     *)
(* enabled and without error, although each call takes whatever answer     *)
(* comes first, and one that comes late for one call answers the next: the *)
(* lengths of the answers keep the calls of the final verification apart.  *)
(***************************************************************************)
SuccessIsReal == outcome = "success" => motor.enabled /\ motor.error = 0

(***************************************************************************)
(* The user is asked to set the zero position again only if the motor had  *)
(* an encoder error when the program began, or some call took the answer   *)
(* to another: a position read as an error code says anything.             *)
(***************************************************************************)
ZeroForAReason ==
    rpc \in {"ask", "there", "zero"} =>
        SaysEncoder(firstError) \/ SaysLost(firstError) \/ crossed

(***************************************************************************)
(* Enabling does not set the motor in motion: its target is where it       *)
(* stands, also after its zero position has been set, unless an access     *)
(* that was to bring the target there missed.                              *)
(***************************************************************************)
HoldsStill ==
    [][held /\ held' /\ ~motor.enabled /\ motor'.enabled =>
          motor.target = motor.position]_recoveryVars
=============================================================================
