----------------------------- MODULE MCMailbox -----------------------------
(***************************************************************************)
(* Instances of Mailbox for TLC.  Three sessions: one of name a, two of    *)
(* name b (two processes acknowledging for one name); whoever hosts first  *)
(* is the boss.                                                            *)
(***************************************************************************)
EXTENDS Mailbox, TLC

CONSTANTS p1, p2, p3, a, b

MCNameOf == p1 :> a @@ p2 :> b @@ p3 :> b

PairNameOf == p1 :> a @@ p2 :> b

\* what the safety properties promise they promise until a live process loses
\* its lock; TLC need not look further than the step that takes it
LockHonoured == ~evicted

Symmetric == Permutations({p2, p3})
=============================================================================
