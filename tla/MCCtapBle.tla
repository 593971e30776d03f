----------------------------- MODULE MCCtapBle -------------------------------
(* A small instance of CtapBle. *)
EXTENDS CtapBle
=============================================================================
