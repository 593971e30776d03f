----------------------------- MODULE MCIso7816 -------------------------------
(* Small instances of Iso7816. *)
EXTENDS Iso7816
=============================================================================
