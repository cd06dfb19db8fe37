---------------------------- MODULE MCAdmission ----------------------------
(***************************************************************************)
(* Admission for TLC: three connections over two loops.                     *)
(***************************************************************************)
EXTENDS Admission

CONSTANTS c1, c2, c3, l1, l2, balancer, client

MCConns == {c1, c2, c3}
MCLoops == {l1, l2}
MCIPs == {balancer, client}
=============================================================================
