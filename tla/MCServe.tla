------------------------------- MODULE MCServe -------------------------------
(***************************************************************************)
(* An instance of Serve for TLC: a session of name a, and a server of name *)
(* b with the session its runs have.  Either of them may be the boss.      *)
(***************************************************************************)
EXTENDS Serve, TLC

CONSTANTS p1, p2, p3, a, b

MCNameOf == p1 :> a @@ p2 :> b @@ p3 :> b
MCRunOf == p2 :> p3
=============================================================================
