------------------------ MODULE MCAuthenticatorDevice ------------------------
(* Small instances of AuthenticatorDevice. *)
EXTENDS AuthenticatorDevice, TLC

\* No property tells the callers apart.
CallerSymmetry == Permutations(Callers)
=============================================================================
