------------------------- MODULE MCCtapHidTransport --------------------------
(* Small instances of CtapHidTransport. *)
EXTENDS CtapHidTransport
=============================================================================
