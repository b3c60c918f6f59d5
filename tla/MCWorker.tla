------------------------------ MODULE MCWorker ------------------------------
(***************************************************************************)
(* An instance of Worker for TLC: two gates, trees that pass one of them   *)
(* or both, one of these out of scope, two attempts, one fork, one edit.   *)
(***************************************************************************)
EXTENDS Worker

CONSTANTS a, b, good, wild

MCGreen == <<{a, good, wild}, {b, good, wild}>>
=============================================================================
