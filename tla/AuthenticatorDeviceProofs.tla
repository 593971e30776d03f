---------------------- MODULE AuthenticatorDeviceProofs ----------------------
(***************************************************************************)
(* Proofs about AuthenticatorDevice, for any callers and any capacity of   *)
(* the authenticator: the types, that the valid cache tells the truth, and *)
(* that a command on the wire meets the authenticator's requirements.      *)
(***************************************************************************)
EXTENDS AuthenticatorDevice, TLAPS

\* Only the holder of Device.mu is inside a method.
Exclusive == \A p \in Callers : pc[p] # "idle" <=> mu = p

\* A method that goes on to its checks has valid information.
Ensured == \A p \in Callers : pc[p] = "ready" => infoValid

\* A command on the wire passed its checks on information that is still valid;
\* only Reset and Vendor, which check nothing, go without.
Checked == \A p \in Callers : pc[p] = "sent" =>
               /\ Requires(cmd[p], info)
               /\ cmd[p].op \in {"Reset", "Query"} \/ infoValid

\* The valid cache differs from the authenticator only while the response that
\* will invalidate it is on its way.
Current == CaptureReportsTemplate /\ infoValid /\ ~unknown =>
               \/ info = Snapshot(auth)
               \/ \E p \in Callers : pc[p] \in {"executed", "enrolled"} /\ Invalidates(p)

IInv == TypeOK /\ Exclusive /\ Ensured /\ Checked /\ Current
-----------------------------------------------------------------------------
(* The authenticator's commands. *)

\* The commands whose success leaves what authenticatorGetInfo reports alone,
\* although nothing invalidates the cache after them.
Silent == {"MakeCredential", "GetAssertion", "GetToken", "GetTokenUV", "CancelEnrollment",
           "SetLargeBlobs", "Query"}

\* An accepted command leads to a state of the authenticator, never beyond its
\* capacity for credentials and fingerprints.
LEMMA EffectType ==
    ASSUME NEW c \in Commands, NEW a \in States, Accepts(c, a), NEW b \in Effect(c.op, a)
    PROVE  b \in States
<1> USE DeviceAssumption DEF Commands, Ops, States, Accepts
<1>1. CASE c.op \in {"SetPIN", "ChangePIN"}
  <2>1. CASE c.op = "SetPIN"
    <3>1. b = [a EXCEPT !.pin = TRUE]
      BY <2>1 DEF Effect
    <3> QED BY <3>1
  <2>2. CASE c.op = "ChangePIN"
    <3>1. b = [a EXCEPT !.forceChange = FALSE]
      BY <2>2 DEF Effect
    <3> QED BY <3>1
  <2> QED BY <1>1, <2>1, <2>2
<1>2. CASE c.op \in {"MakeCredentialRK", "DeleteCredential"}
  <2>1. PICK n \in 0..MaxCreds : b = [a EXCEPT !.creds = n]
    <3>1. CASE c.op = "MakeCredentialRK"
      BY <3>1 DEF Effect
    <3>2. CASE c.op = "DeleteCredential"
      BY <3>2 DEF Effect
    <3> QED BY <1>2, <3>1, <3>2
  <2> QED BY <2>1
<1>3. CASE c.op \in {"EnrollBegin", "EnrollCapture"}
  <2>1. a.bio + 1 \in 0..MaxBio
    BY <1>3
  <2>2. b = [a EXCEPT !.enrolling = TRUE] \/ b = [a EXCEPT !.enrolling = FALSE, !.bio = a.bio + 1]
    BY <1>3 DEF Effect
  <2>3. CASE b = [a EXCEPT !.enrolling = TRUE]
    BY <2>3
  <2>4. CASE b = [a EXCEPT !.enrolling = FALSE, !.bio = a.bio + 1]
    BY <2>1, <2>4
  <2> QED BY <2>2, <2>3, <2>4
<1>4. CASE c.op \in {"CancelEnrollment", "RemoveEnrollment"}
  <2>1. CASE c.op = "CancelEnrollment"
    <3>1. b = [a EXCEPT !.enrolling = FALSE]
      BY <2>1 DEF Effect
    <3> QED BY <3>1
  <2>2. CASE c.op = "RemoveEnrollment"
    <3>1. b = [a EXCEPT !.bio = a.bio - 1] /\ a.bio - 1 \in 0..MaxBio
      BY <2>2 DEF Effect
    <3> QED BY <3>1
  <2> QED BY <1>4, <2>1, <2>2
<1>5. CASE c.op \in {"EnableEP", "ForceChangePIN", "EnableLongTouch"}
  <2>1. \/ b = [a EXCEPT !.ep = TRUE]
        \/ b = [a EXCEPT !.forceChange = TRUE]
        \/ b = [a EXCEPT !.longTouch = TRUE]
    BY <1>5 DEF Effect
  <2>2. CASE b = [a EXCEPT !.ep = TRUE]
    BY <2>2
  <2>3. CASE b = [a EXCEPT !.forceChange = TRUE]
    BY <2>3
  <2>4. CASE b = [a EXCEPT !.longTouch = TRUE]
    BY <2>4
  <2> QED BY <2>1, <2>2, <2>3, <2>4
<1>6. CASE c.op = "ToggleAlwaysUV"
  <2>1. b = [a EXCEPT !.alwaysUv = ~a.alwaysUv] /\ (~a.alwaysUv) \in BOOLEAN
    BY <1>6 DEF Effect
  <2> QED BY <2>1
<1>7. CASE c.op = "SetMinPINLength"
  <2>1. PICK f \in {a.forceChange, a.pin} : b = [a EXCEPT !.minPIN = 6, !.forceChange = f]
    BY <1>7 DEF Effect
  <2> QED BY <2>1
<1>8. CASE c.op = "Reset"
  <2>1. b = Factory
    BY <1>8 DEF Effect
  <2>2. Factory \in States
    BY DEF Factory
  <2> QED BY <2>1, <2>2
<1>9. CASE c.op \in {"GetToken", "MakeCredential", "UpdateUserInformation", "GetTokenUV",
                     "GetAssertion", "SetLargeBlobs", "Query"}
  BY <1>9 DEF Effect
<1> QED
  BY <1>1, <1>2, <1>3, <1>4, <1>5, <1>6, <1>7, <1>8, <1>9

\* A command that invalidates nothing changes nothing authenticatorGetInfo
\* reports; an enrollment command does not unless it adds a fingerprint.
LEMMA SilentEffect ==
    ASSUME NEW c \in Commands, NEW a \in States, NEW b \in Effect(c.op, a),
           \/ c.op \in Silent
           \/ c.op \in {"EnrollBegin", "EnrollCapture"} /\ ~(b.bio > a.bio)
    PROVE  Snapshot(b) = Snapshot(a)
<1> USE DEF Commands, Ops, States, Snapshot
<1>1. CASE c.op = "CancelEnrollment"
  BY <1>1 DEF Effect
<1>2. CASE c.op \in Silent \ {"CancelEnrollment"}
  BY <1>2 DEF Effect, Silent
<1>3. CASE c.op \in {"EnrollBegin", "EnrollCapture"} /\ ~(b.bio > a.bio)
  <2>1. b = [a EXCEPT !.enrolling = TRUE] \/ b = [a EXCEPT !.enrolling = FALSE, !.bio = a.bio + 1]
    BY <1>3 DEF Effect
  <2>2. b # [a EXCEPT !.enrolling = FALSE, !.bio = a.bio + 1]
    <3>1. a.bio \in Nat
      BY DeviceAssumption
    <3>2. [a EXCEPT !.enrolling = FALSE, !.bio = a.bio + 1].bio = a.bio + 1
      OBVIOUS
    <3>3. a.bio + 1 > a.bio
      BY <3>1
    <3> QED BY <1>3, <3>2, <3>3
  <2>3. b = [a EXCEPT !.enrolling = TRUE]
    BY <2>1, <2>2
  <2> QED BY <2>3
<1> QED
  BY <1>1, <1>2, <1>3

\* What GetInfo returns is information.
LEMMA SnapshotType == ASSUME NEW a \in States PROVE Snapshot(a) \in Infos
<1>1. (a.bio > 0) \in BOOLEAN
  BY DEF States
<1> QED
  BY <1>1, DeviceAssumption DEF States, Snapshot, Infos
-----------------------------------------------------------------------------
(* The methods. *)

\* What a method that checks the cached information does: it returns, or sends
\* a command that meets the requirements as far as the cache knows.
CheckedStep(p) ==
    /\ pc[p] = "ready"
    /\ UNCHANGED <<auth, info, infoValid, calls, unknown>>
    /\ \/ Return(p) /\ UNCHANGED cmd
       \/ /\ Goto(p, "sent") /\ UNCHANGED mu
          /\ \E c \in Commands : Requires(c, info) /\ cmd' = [cmd EXCEPT ![p] = c]

\* The checks of every method imply what the authenticator requires of its
\* command, if the information they look at is true.
LEMMA MethodChecks ==
    ASSUME TypeOK, NEW p \in Callers, Method(p)
    PROVE  CheckedStep(p) \/ Reset(p) \/ Vendor(p) \/ GetInfo(p)
<1> DEFINE C(op, by) == [op |-> op, by |-> by]
<1> USE DEF Operation, CheckedStep, Requires, Verified
<1>0. \A op \in Ops, by \in Auths : C(op, by) \in Commands /\ C(op, by).op = op /\ C(op, by).by = by
  BY DEF Commands
<1> HIDE DEF C
<1>c. \A op, by : C(op, by) = [op |-> op, by |-> by]
  BY DEF C
<1>1. CASE SetPIN(p) \/ ChangePIN(p)
  <2>1. CASE SetPIN(p)
    BY <1>0, <1>c, <2>1 DEF SetPIN, Ops, Auths
  <2>2. CASE ChangePIN(p)
    BY <1>0, <1>c, <2>2 DEF ChangePIN, Ops, Auths
  <2> QED BY <1>1, <2>1, <2>2
<1>2. CASE GetPinUvAuthTokenUsingPIN(p) \/ GetPinUvAuthTokenUsingUV(p)
  <2>1. CASE GetPinUvAuthTokenUsingPIN(p)
    BY <1>0, <1>c, <2>1 DEF GetPinUvAuthTokenUsingPIN, Ops, Auths
  <2>2. CASE GetPinUvAuthTokenUsingUV(p)
    BY <1>0, <1>c, <2>2 DEF GetPinUvAuthTokenUsingUV, Ops, Auths
  <2> QED BY <1>2, <2>1, <2>2
<1>3. CASE CancelCurrentEnrollment(p)
  BY <1>0, <1>c, <1>3 DEF CancelCurrentEnrollment, Ops, Auths
<1>4. CASE \/ GetPINRetries(p) \/ GetUVRetries(p) \/ GetBioModality(p)
         \/ GetFingerprintSensorInfo(p) \/ Selection(p) \/ getLargeBlobsLocked(p)
  BY <1>0, <1>c, <1>4 DEF GetPINRetries, GetUVRetries, GetBioModality,
                          GetFingerprintSensorInfo, Selection, getLargeBlobsLocked, Ops, Auths
<1>5. ASSUME NEW by \in Auths, GetAssertion(p, by) PROVE CheckedStep(p)
  BY <1>0, <1>c, <1>5 DEF GetAssertion, getAssertionAuthorized, Ops, Auths
<1>6. ASSUME NEW by \in Auths, MakeCredential(p, by, TRUE) PROVE CheckedStep(p)
  BY <1>0, <1>c, <1>6 DEF MakeCredential, makeCredentialAuthorized, hasConfiguredUserVerification, Ops, Auths
<1>7. ASSUME NEW by \in Auths, MakeCredential(p, by, FALSE) PROVE CheckedStep(p)
  BY <1>0, <1>c, <1>7 DEF MakeCredential, makeCredentialAuthorized, Ops, Auths
<1>8. ASSUME NEW t \in {"none", "token"},
             DeleteCredential(p, t) \/ UpdateUserInformation(p, t)
      PROVE  CheckedStep(p)
  <2>1. CASE DeleteCredential(p, t)
    BY <1>0, <1>c, <2>1 DEF DeleteCredential, Ops, Auths
  <2>2. CASE UpdateUserInformation(p, t)
    BY <1>0, <1>c, <2>2 DEF UpdateUserInformation, Ops, Auths
  <2> QED BY <1>8, <2>1, <2>2
<1>9. ASSUME NEW t \in {"none", "token"},
             EnrollBegin(p, t) \/ EnrollCaptureNextSample(p, t) \/ RemoveEnrollment(p, t)
      PROVE  CheckedStep(p)
  <2>1. CASE EnrollBegin(p, t)
    BY <1>0, <1>c, <2>1 DEF EnrollBegin, Ops, Auths
  <2>2. CASE EnrollCaptureNextSample(p, t)
    BY <1>0, <1>c, <2>2 DEF EnrollCaptureNextSample, Ops, Auths
  <2>3. CASE RemoveEnrollment(p, t)
    BY <1>0, <1>c, <2>3 DEF RemoveEnrollment, Ops, Auths
  <2> QED BY <1>9, <2>1, <2>2, <2>3
<1>10. ASSUME NEW t \in {"none", "token"},
             EnableEnterpriseAttestation(p, t)
      PROVE  CheckedStep(p)
  BY <1>0, <1>c, <1>10 DEF EnableEnterpriseAttestation,
                       configAuthorizationRequired, hasConfiguredUserVerification, Ops, Auths
<1>11. ASSUME NEW t \in {"none", "token"},
             ToggleAlwaysUV(p, t)
      PROVE  CheckedStep(p)
  BY <1>0, <1>c, <1>11 DEF ToggleAlwaysUV, configAuthorizationRequired, hasConfiguredUserVerification, Ops, Auths
<1>12. ASSUME NEW t \in {"none", "token"},
             SetMinPINLength(p, t, TRUE)
      PROVE  CheckedStep(p)
  BY <1>0, <1>c, <1>12 DEF SetMinPINLength, configAuthorizationRequired, hasConfiguredUserVerification, Ops, Auths
<1>13. ASSUME NEW t \in {"none", "token"},
             SetMinPINLength(p, t, FALSE)
      PROVE  CheckedStep(p)
  BY <1>0, <1>c, <1>13 DEF SetMinPINLength, configAuthorizationRequired, hasConfiguredUserVerification, Ops, Auths
<1>14. ASSUME NEW t \in {"none", "token"},
             EnableLongTouchForReset(p, t)
      PROVE  CheckedStep(p)
  BY <1>0, <1>c, <1>14 DEF EnableLongTouchForReset, configAuthorizationRequired, hasConfiguredUserVerification, Ops, Auths
<1>15. ASSUME NEW t \in {"none", "token"},
             setLargeBlobsLocked(p, t)
      PROVE  CheckedStep(p)
  BY <1>0, <1>c, <1>15 DEF setLargeBlobsLocked, largeBlobsAuthorizationRequired, hasConfiguredUserVerification, Ops, Auths
<1>16. ASSUME NEW t \in {"none", "token"},
             \/ EnumerateEnrollments(p, t) \/ SetFriendlyName(p, t) \/ GetCredsMetadata(p, t)
             \/ EnumerateRPs(p, t) \/ EnumerateCredentials(p, t)
      PROVE  CheckedStep(p)
  <2>1. CASE EnumerateEnrollments(p, t)
    BY <1>0, <1>c, <2>1 DEF EnumerateEnrollments, Ops, Auths
  <2>2. CASE SetFriendlyName(p, t)
    BY <1>0, <1>c, <2>2 DEF SetFriendlyName, Ops, Auths
  <2>3. CASE GetCredsMetadata(p, t)
    BY <1>0, <1>c, <2>3 DEF GetCredsMetadata, Ops, Auths
  <2>4. CASE EnumerateRPs(p, t)
    BY <1>0, <1>c, <2>4 DEF EnumerateRPs, Ops, Auths
  <2>5. CASE EnumerateCredentials(p, t)
    BY <1>0, <1>c, <2>5 DEF EnumerateCredentials, Ops, Auths
  <2> QED BY <1>16, <2>1, <2>2, <2>3, <2>4, <2>5
<1> HIDE DEF Operation, CheckedStep, Requires, Verified
<1> QED
  BY <1>1, <1>2, <1>3, <1>4, <1>5, <1>6, <1>7, <1>8, <1>9, <1>10, <1>11, <1>12, <1>13, <1>14, <1>15, <1>16 DEF Method
-----------------------------------------------------------------------------
(* The invariant. *)

\* Device.mu and the types: every step of a method takes place under the lock
\* and leaves it to one caller at most.
LEMMA LockStep == IInv /\ [Next]_vars => TypeOK' /\ Exclusive'
<1> SUFFICES ASSUME IInv, [Next]_vars PROVE TypeOK' /\ Exclusive'
  OBVIOUS
<1> USE DeviceAssumption DEF IInv, Goto, Return
<1>1. ASSUME NEW p \in Callers, LockMu(p) PROVE TypeOK' /\ Exclusive'
  BY <1>1 DEF LockMu, TypeOK, Exclusive
<1>2. ASSUME NEW p \in Callers, EnsureInfo(p) \/ GetInfo(p) PROVE TypeOK' /\ Exclusive'
  <2>1. Snapshot(auth) \in Infos
    BY SnapshotType DEF TypeOK
  <2>2. infoValid' \in BOOLEAN /\ unknown' \in BOOLEAN
    BY <1>2 DEF EnsureInfo, GetInfo, Refresh, TypeOK
  <2>3. TypeOK'
    BY <1>2, <2>1, <2>2 DEF EnsureInfo, GetInfo, Refresh, TypeOK
  <2>4. Exclusive'
    BY <1>2 DEF EnsureInfo, GetInfo, TypeOK, Exclusive
  <2> QED BY <2>3, <2>4
<1>3. ASSUME NEW p \in Callers, CheckedStep(p) PROVE TypeOK' /\ Exclusive'
  <2>1. cmd' \in [Callers -> Commands]
    BY <1>3 DEF CheckedStep, TypeOK
  <2> QED
    BY <1>3, <2>1 DEF CheckedStep, TypeOK, Exclusive
<1>4. ASSUME NEW p \in Callers, Reset(p) \/ Vendor(p) PROVE TypeOK' /\ Exclusive'
  <2>1. [op |-> "Reset", by |-> "none"] \in Commands /\ [op |-> "Query", by |-> "none"] \in Commands
    BY DEF Commands, Ops, Auths
  <2> QED
    BY <1>4, <2>1 DEF Reset, Vendor, TypeOK, Exclusive
<1>5. ASSUME NEW p \in Callers, Execute(p) PROVE TypeOK' /\ Exclusive'
  <2>1. auth' \in States
    BY <1>5, EffectType DEF Execute, TypeOK
  <2>2. pc' \in [Callers -> {"idle", "locked", "ready", "sent", "executed", "enrolled"}]
    BY <1>5 DEF Execute, TypeOK
  <2>3. \A q \in Callers : pc'[q] # "idle" <=> pc[q] # "idle"
    BY <1>5 DEF Execute, TypeOK
  <2> QED
    BY <1>5, <2>1, <2>2, <2>3 DEF Execute, TypeOK, Exclusive
<1>6. ASSUME NEW p \in Callers, Fail(p) PROVE TypeOK' /\ Exclusive'
  BY <1>6 DEF Fail, TypeOK, Exclusive
<1>7. ASSUME NEW p \in Callers, Reply(p) \/ ReplyLost(p) PROVE TypeOK' /\ Exclusive'
  <2>1. infoValid' \in BOOLEAN /\ unknown' \in BOOLEAN
    BY <1>7 DEF Reply, ReplyLost, TypeOK
  <2> QED
    BY <1>7, <2>1 DEF Reply, ReplyLost, TypeOK, Exclusive
<1>8. CASE UNCHANGED vars
  BY <1>8 DEF vars, TypeOK, Exclusive
<1> QED
  BY <1>1, <1>2, <1>3, <1>4, <1>5, <1>6, <1>7, <1>8, MethodChecks DEF Next, Exchange

\* The checks: information is made valid before the checks look at it, and
\* stays what it was until the command's exchange ends, because only the
\* holder of Device.mu touches it.
LEMMA CheckStep == IInv /\ [Next]_vars => Ensured' /\ Checked'
<1> SUFFICES ASSUME IInv, [Next]_vars PROVE Ensured' /\ Checked'
  OBVIOUS
<1> USE DeviceAssumption DEF IInv, Goto, Return
<1>1. ASSUME NEW p \in Callers, LockMu(p) PROVE Ensured' /\ Checked'
  BY <1>1 DEF LockMu, TypeOK, Ensured, Checked
<1>2. ASSUME NEW p \in Callers, EnsureInfo(p) PROVE Ensured' /\ Checked'
  <2>1. \A q \in Callers \ {p} : pc[q] = "idle" /\ pc'[q] = "idle"
    BY <1>2 DEF EnsureInfo, TypeOK, Exclusive
  <2>2. pc'[p] = "idle" \/ (pc'[p] = "ready" /\ infoValid')
    BY <1>2 DEF EnsureInfo, Refresh, TypeOK
  <2> QED BY <2>1, <2>2 DEF Ensured, Checked
<1>3. ASSUME NEW p \in Callers, GetInfo(p) PROVE Ensured' /\ Checked'
  <2>1. \A q \in Callers : pc'[q] = "idle"
    BY <1>3 DEF GetInfo, TypeOK, Exclusive
  <2> QED BY <2>1 DEF Ensured, Checked
<1>4. ASSUME NEW p \in Callers, CheckedStep(p) PROVE Ensured' /\ Checked'
  <2>1. \A q \in Callers \ {p} : pc[q] = "idle" /\ pc'[q] = "idle"
    BY <1>4 DEF CheckedStep, TypeOK, Exclusive
  <2>2. pc'[p] # "ready" /\ infoValid'
    BY <1>4 DEF CheckedStep, TypeOK, Ensured
  <2>3. pc'[p] = "sent" => Requires(cmd'[p], info')
    BY <1>4 DEF CheckedStep, TypeOK
  <2> QED BY <2>1, <2>2, <2>3 DEF Ensured, Checked
<1>5. ASSUME NEW p \in Callers, Reset(p) \/ Vendor(p) PROVE Ensured' /\ Checked'
  <2>1. \A q \in Callers \ {p} : pc[q] = "idle" /\ pc'[q] = "idle"
    BY <1>5 DEF Reset, Vendor, TypeOK, Exclusive
  <2>2. pc'[p] = "sent" /\ cmd'[p].op \in {"Reset", "Query"}
    BY <1>5 DEF Reset, Vendor, TypeOK
  <2>3. Requires(cmd'[p], info')
    BY <2>2 DEF Requires
  <2> QED BY <2>1, <2>2, <2>3 DEF Ensured, Checked
<1>6. ASSUME NEW p \in Callers, Execute(p) PROVE Ensured' /\ Checked'
  <2>1. \A q \in Callers : pc'[q] # "ready" /\ pc'[q] # "sent"
    BY <1>6 DEF Execute, TypeOK, Exclusive
  <2> QED BY <2>1 DEF Ensured, Checked
<1>7. ASSUME NEW p \in Callers, Fail(p) \/ Reply(p) \/ ReplyLost(p) PROVE Ensured' /\ Checked'
  <2>1. \A q \in Callers : pc'[q] = "idle"
    BY <1>7 DEF Fail, Reply, ReplyLost, TypeOK, Exclusive
  <2> QED BY <2>1 DEF Ensured, Checked
<1>8. CASE UNCHANGED vars
  BY <1>8 DEF vars, Ensured, Checked
<1> QED
  BY <1>1, <1>2, <1>3, <1>4, <1>5, <1>6, <1>7, <1>8, MethodChecks DEF Next, Exchange

\* The cache: a command that changes what it reports leaves the method at a
\* point from which the response invalidates it.
LEMMA CacheStep == IInv /\ [Next]_vars => Current'
<1> SUFFICES ASSUME IInv, [Next]_vars PROVE Current'
  OBVIOUS
<1> USE DeviceAssumption DEF IInv, Goto, Return
<1>1. ASSUME NEW p \in Callers, LockMu(p) PROVE Current'
  <2>1. \A q \in Callers : pc[q] = "idle"
    BY <1>1 DEF LockMu, Exclusive
  <2> QED BY <1>1, <2>1 DEF LockMu, Current
<1>2. ASSUME NEW p \in Callers, EnsureInfo(p) \/ GetInfo(p) PROVE Current'
  <2>1. \A q \in Callers : pc[q] \notin {"executed", "enrolled"}
    BY <1>2 DEF EnsureInfo, GetInfo, Exclusive
  <2>2. auth' = auth
    BY <1>2 DEF EnsureInfo, GetInfo
  <2>3. CASE Refresh
    BY <2>2, <2>3 DEF Refresh, Current
  <2>4. CASE UNCHANGED <<info, infoValid, unknown>>
    BY <2>1, <2>2, <2>4 DEF Current
  <2> QED BY <1>2, <2>3, <2>4 DEF EnsureInfo, GetInfo
<1>3. ASSUME NEW p \in Callers, CheckedStep(p) \/ Reset(p) \/ Vendor(p) \/ Fail(p) PROVE Current'
  <2>1. \A q \in Callers : pc[q] \notin {"executed", "enrolled"}
    BY <1>3 DEF CheckedStep, Reset, Vendor, Fail, Exclusive
  <2> QED BY <1>3, <2>1 DEF CheckedStep, Reset, Vendor, Fail, Current
<1>4. ASSUME NEW p \in Callers, Execute(p) PROVE Current'
  <2>1. PICK a \in Effect(cmd[p].op, auth) :
            auth' = a /\ pc' = [pc EXCEPT ![p] = IF a.bio > auth.bio THEN "enrolled" ELSE "executed"]
    BY <1>4 DEF Execute
  <2>2. SUFFICES ASSUME CaptureReportsTemplate, infoValid, ~unknown, ~Invalidates(p)'
                 PROVE  info = Snapshot(a)
    <3>1. pc'[p] \in {"executed", "enrolled"}
      BY <2>1 DEF TypeOK
    <3> QED BY <1>4, <2>1, <3>1 DEF Execute, Current
  <2>3. info = Snapshot(auth)
    BY <1>4, <2>2 DEF Execute, Exclusive, Current
  <2>4. pc'[p] = (IF a.bio > auth.bio THEN "enrolled" ELSE "executed") /\ cmd'[p] = cmd[p]
    BY <1>4, <2>1 DEF Execute, TypeOK
  <2>5. \/ cmd[p].op \in Silent
        \/ cmd[p].op \in {"EnrollBegin", "EnrollCapture"} /\ ~(a.bio > auth.bio)
    BY <2>2, <2>4 DEF Invalidates, Silent
  <2>6. cmd[p] \in Commands /\ auth \in States
    BY DEF TypeOK
  <2> QED BY <2>1, <2>3, <2>5, <2>6, SilentEffect
<1>5. ASSUME NEW p \in Callers, Reply(p) PROVE Current'
  <2>1. CASE Invalidates(p)
    BY <1>5, <2>1 DEF Reply, Current
  <2>2. CASE ~Invalidates(p)
    <3>1. \A q \in Callers : pc[q] \in {"executed", "enrolled"} => q = p
      BY <1>5 DEF Reply, Exclusive
    <3> QED BY <1>5, <2>2, <3>1 DEF Reply, Current
  <2> QED BY <2>1, <2>2
<1>6. ASSUME NEW p \in Callers, ReplyLost(p) PROVE Current'
  BY <1>6 DEF ReplyLost, Current
<1>7. CASE UNCHANGED vars
  BY <1>7 DEF vars, Current, Invalidates
<1> QED
  BY <1>1, <1>2, <1>3, <1>4, <1>5, <1>6, <1>7, MethodChecks DEF Next, Exchange

-----------------------------------------------------------------------------
(* The theorems. *)

\* The inductive invariant: the types, the lock, the checks and the cache.
THEOREM Invariance == Spec => []IInv
<1>1. Init => IInv
  <2> SUFFICES ASSUME Init PROVE IInv
    OBVIOUS
  <2> USE DeviceAssumption DEF Init
  <2>1. Factory \in States
    BY DEF Factory, States
  <2>2. Snapshot(Factory) \in Infos
    BY <2>1, SnapshotType
  <2>3. [op |-> "Query", by |-> "none"] \in Commands
    BY DEF Commands, Ops, Auths
  <2>4. infoValid \in BOOLEAN /\ unknown \in BOOLEAN
    OBVIOUS
  <2>5. TypeOK
    BY <2>1, <2>2, <2>3, <2>4 DEF TypeOK
  <2>6. Exclusive /\ Ensured /\ Checked /\ Current
    BY DEF Exclusive, Ensured, Checked, Current
  <2> QED BY <2>5, <2>6 DEF IInv
<1>2. IInv /\ [Next]_vars => IInv'
  BY LockStep, CheckStep, CacheStep DEF IInv
<1> QED
  BY <1>1, <1>2, PTL DEF Spec

\* No sequence of commands takes the Device or the authenticator's store out
\* of its types.
THEOREM TypeCorrect == Spec => []TypeOK
<1>1. IInv => TypeOK
  BY DEF IInv
<1> QED
  BY Invariance, <1>1, PTL

\* If an enrollment's capture responses carry a templateId, as the invalidation
\* in EnrollCaptureNextSample presumes, a valid cache reports the present state
\* of the authenticator, whatever commands the callers interleave.
THEOREM CacheFresh == ASSUME CaptureReportsTemplate PROVE Spec => []InfoFresh
<1>1. IInv => InfoFresh
  BY DEF IInv, Current, InfoFresh
<1> QED
  BY Invariance, <1>1, PTL

\* Under the same assumption a command on the wire meets the requirements of
\* the authenticator as it is then, not only of the cached information.
THEOREM ChecksMeetRequirements == ASSUME CaptureReportsTemplate PROVE Spec => []ChecksCurrent
<1>1. IInv => ChecksCurrent
  <2> SUFFICES ASSUME IInv, NEW p \in Callers, pc[p] = "sent", ~unknown
               PROVE  Requires(cmd[p], Snapshot(auth))
    BY DEF ChecksCurrent
  <2>1. CASE cmd[p].op \in {"Reset", "Query"}
    BY <2>1 DEF Requires
  <2>2. CASE infoValid
    <3>1. \A q \in Callers : pc[q] \notin {"executed", "enrolled"}
      BY DEF IInv, Exclusive
    <3>2. info = Snapshot(auth)
      BY <2>2, <3>1 DEF IInv, Current
    <3> QED BY <3>2 DEF IInv, Checked
  <2> QED BY <2>1, <2>2 DEF IInv, Checked
<1> QED
  BY Invariance, <1>1, PTL
=============================================================================
