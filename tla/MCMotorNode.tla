----------------------------- MODULE MCMotorNode -----------------------------
(***************************************************************************)
(* Instances of MotorNode for TLC.                                         *)
(***************************************************************************)
EXTENDS MotorNode

\* The id 257 is cast to 1; the second node has late answers, the third a name
\* too many.
Robots == {[ids |-> <<257, 2>>, names |-> <<"j1", "j2">>, timely |-> TRUE],
           [ids |-> <<2>>, names |-> <<"j2">>, timely |-> FALSE],
           [ids |-> <<1>>, names |-> <<"j1", "j2">>, timely |-> TRUE]}

\* Commands for two motors, and for one; the others have the wrong size.
SomeCommands == {<<-1, 65536>>, <<0, 0>>, <<-1>>}

\* What the calls of the node read and write.
NodeRegs == 5 .. 8 \cup {10, 14} \cup 16 .. 21 \cup {48, 54, 55}

\* Motors start disabled, the target at 0, their zero position set before, each
\* with a motion of its own.
Apart(m) ==
    [r \in NodeRegs |-> IF r = CUR_POSITION_L THEN m
                        ELSE IF r = SYS_SET_ZERO_POS THEN 1 ELSE 0]
=============================================================================
