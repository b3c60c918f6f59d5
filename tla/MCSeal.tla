------------------------------- MODULE MCSeal -------------------------------
(***************************************************************************)
(* Instances of Seal for TLC: three attempts, two of them (a first try and *)
(* its retry) with the same evidence.                                      *)
(***************************************************************************)
EXTENDS Seal, TLC

CONSTANTS p1, p2, p3, e, f

MCEvidenceOf == p1 :> e @@ p2 :> e @@ p3 :> f

\* the run that leaves the fresh claim's gap open: all try the same evidence
SameEvidenceOf == p1 :> e @@ p2 :> e @@ p3 :> e

\* what the safety properties promise they promise until the gap is hit; TLC
\* need not look further than the step that does
GapAvoided == ~grabbed
=============================================================================
