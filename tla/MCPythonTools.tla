----------------------------- MODULE MCPythonTools -----------------------------
(***************************************************************************)
(* Instances of PythonTools for TLC.                                       *)
(***************************************************************************)
EXTENDS PythonTools

\* VMax 6, AMax = DMax = 2: a move of 7 or 13 does not reach the maximum velocity,
\* one of 20 reaches it without a cruise (ShortCruise 2 is out of proportion to the
\* ticks, so that there is such a move), one of 88 or more cruises.
Moves == {0, 7, 20, 108}

\* Both halves of -1 have all bits: read as an error code, it says everything.
TwoAngles == {-1, 0}

ASSUME Patient
=============================================================================
