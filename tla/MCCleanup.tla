------------------------------ MODULE MCCleanup ------------------------------
(***************************************************************************)
(* Instances of Cleanup for TLC: one attempt to seal, overlapping calls of *)
(* cleanup_invocation.                                                     *)
(***************************************************************************)
EXTENDS Cleanup, TLC

CONSTANTS p1, c1, c2, e

MCEvidenceOf == [p \in Attempts |-> e]

=============================================================================
