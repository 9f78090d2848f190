------------------------------- MODULE MCStartup -------------------------------
(* Instances of Startup: two processes of one user, so that one can follow, *)
(* overtake or outlive the other, and a third of another user.              *)
EXTENDS Startup, TLC

CONSTANTS p1, p2, p3

TwoUsers == p1 :> "alice" @@ p2 :> "alice" @@ p3 :> "bob"
===============================================================================
