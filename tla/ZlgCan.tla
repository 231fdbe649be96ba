-------------------------------- MODULE ZlgCan --------------------------------
(***************************************************************************)
(* ZlgCanDriver of src/examples/python/zlgcan_driver.py: the handles of    *)
(* the device and of its channel that each program of examples/python has. *)
(* The device can be open in one program at a time ("may be in use by      *)
(* another program").  The receive buffer is a variable of                 *)
(* MotorController.                                                        *)
(***************************************************************************)
CONSTANTS
    Programs,
    Nobody

VARIABLES
    user,       \* the program that has the device open, or Nobody
    handles     \* its _device_handle, _channel_handle and _is_open

Closed == [device |-> FALSE, channel |-> FALSE, open |-> FALSE]

\* open.  It fails, after a second attempt, if the device is in use or not
\* there: the program then ends, and nothing has changed.
OpenDevice(p) ==
    /\ handles[p] = Closed
    /\ user = Nobody
    /\ user' = p
    /\ handles' = [handles EXCEPT ![p].device = TRUE]

\* init_canfd, which may fail before the channel is there, or when it does
\* not start.
InitCanfd(p) ==
    /\ handles[p].device /\ ~handles[p].open
    /\ \/ handles' = [handles EXCEPT ![p].channel = TRUE, ![p].open = TRUE]
       \/ \E channel \in BOOLEAN :
             handles' = [handles EXCEPT ![p].channel = channel, ![p].open = FALSE]
    /\ UNCHANGED user

\* close gives the channel and the device back.  A program that ends without
\* it loses them, too.
CloseDevice(p) ==
    /\ handles' = [handles EXCEPT ![p] = Closed]
    /\ user' = IF handles[p].device THEN Nobody ELSE user

ZlgInit ==
    /\ user = Nobody
    /\ handles = [p \in Programs |-> Closed]
=============================================================================
