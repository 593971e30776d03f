------------------------------ MODULE MCSelect ------------------------------
(* Small instance of Select: three authenticators. *)
EXTENDS Select
=============================================================================
