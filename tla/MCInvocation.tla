---------------------------- MODULE MCInvocation ----------------------------
(***************************************************************************)
(* An instance of Invocation for TLC: two overlapping commands, two plans, *)
(* two main loops, a route that resolves to a reviewer or to one of them,  *)
(* and a source that integrate changes and the user may change back or     *)
(* away.                                                                   *)
(***************************************************************************)
EXTENDS Invocation, TLC

CONSTANTS c1, c2, p1, p2, m1, m2, r, s0, s1, d1, d2

\* the first delta changes s0, the second leaves everything as it is
MCResult == [sd \in Sources \X Deltas |-> IF sd[2] = d1 THEN s1 ELSE sd[1]]
Symmetry == Permutations({c1, c2}) \cup Permutations({p1, p2})
=============================================================================
