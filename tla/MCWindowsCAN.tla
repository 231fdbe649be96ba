----------------------------- MODULE MCWindowsCAN -----------------------------
(***************************************************************************)
(* Instance of WindowsCAN for TLC: one thread owns the interface, and also *)
(* sends; the other sends and receives.                                    *)
(***************************************************************************)
EXTENDS WindowsCAN

CONSTANTS main, other

OneOwner == [u \in Users |-> IF u = main THEN Operations \ {"receive"} ELSE {"send", "receive"}]
=============================================================================
