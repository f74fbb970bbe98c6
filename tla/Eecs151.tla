------------------------------ MODULE Eecs151 ------------------------------
(***************************************************************************)
(* The cell library hardware/vsrc/EECS151.v: what a register holds after   *)
(* the next clock edge, from its inputs before the edge.                   *)
(***************************************************************************)
EXTENDS Naturals

Bit == {0, 1}

(* REGISTER_CE: keeps q unless ce.                                         *)
RegisterCE(q, d, ce) == IF ce THEN d ELSE q

(* REGISTER_R: rst wins over the data input.                               *)
RegisterR(q0, d, rst) == IF rst THEN q0 ELSE d

(* REGISTER_R_CE: "Reset works independently of clock enable".             *)
RegisterRCE(q, q0, d, rst, ce) == IF rst THEN q0 ELSE IF ce THEN d ELSE q

=============================================================================
