------------------------------ MODULE SealOnce ------------------------------
(***************************************************************************)
(* What sealing promises whoever reads the result: a register that is      *)
(* empty at first, is written at most once, and keeps what was written.    *)
(***************************************************************************)
CONSTANTS
    Evidence,   \* what can be sealed
    None        \* nothing sealed yet

VARIABLE value

Init == value = None

Seal == value = None /\ value' \in Evidence

Spec == Init /\ [][Seal]_value
=============================================================================
