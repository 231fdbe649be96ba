---------------------------- MODULE MCSmoothMotion ----------------------------
(***************************************************************************)
(* Instances of SmoothMotion for TLC.                                      *)
(***************************************************************************)
EXTENDS SmoothMotion

\* VMax 6, AMax = DMax = 2: moves of 18 and more reach the maximum velocity.
LongMoves == {0, 18, 90}
===============================================================================
