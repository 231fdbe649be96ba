---------------------------- MODULE MCMonitoring ----------------------------
(***************************************************************************)
(* Instances of Monitoring for TLC.                                        *)
(***************************************************************************)
EXTENDS Monitoring

CONSTANTS main, other

\* Two threads start and stop; one of them also inits and deinits, and the
\* other replaces the callback.
TwoControllers ==
    [u \in Users |-> {"start", "stop"} \cup (IF u = main THEN {"init", "deinit"} ELSE {"set"})]

\* No motor, one motor, two motors.
Lists == {<< >>, <<1>>, <<1, 2>>}
=============================================================================
