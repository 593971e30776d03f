------------------------- MODULE AuthenticatorDevice -------------------------
(***************************************************************************)
(* authenticator/authenticator.go: Device serialises the commands of its   *)
(* callers with Device.mu and checks each of them against a cached         *)
(* authenticatorGetInfo response.  The cache is refreshed lazily and       *)
(* invalidated by the commands known to change what it reports; the        *)
(* checks of preflight.go and validation.go decide on it what is sent.     *)
(*                                                                         *)
(* The authenticator is the environment: it supports every option of       *)
(* CTAP 2.1 used here and may refuse any command.  An exchange may fail    *)
(* before the command is executed, or after it, when the reply is lost.    *)
(***************************************************************************)
EXTENDS Naturals, FiniteSets

CONSTANTS Callers,         \* goroutines that share the Device
          MaxCreds,        \* bound: discoverable credentials it can store
          MaxBio,          \* bound: fingerprints it can store
          MaxCommands,     \* bound: calls made
          CaptureReportsTemplate, \* enrollCaptureNextSample responses carry a templateId
          None

ASSUME DeviceAssumption ==
    /\ MaxCreds \in Nat /\ MaxBio \in Nat /\ MaxCommands \in Nat
    /\ CaptureReportsTemplate \in BOOLEAN
    /\ None \notin Callers

VARIABLES
    auth,      \* the authenticator's own state
    info,      \* Device.info
    infoValid, \* Device.infoValid
    mu,        \* Device.mu: its holder or None
    pc,        \* control point of each caller
    cmd,       \* the command each caller has on the wire
    calls,     \* calls made so far
    unknown    \* history: a command ran whose reply was lost, not refreshed since

vars == <<auth, info, infoValid, mu, pc, cmd, calls, unknown>>

States == [pin : BOOLEAN, forceChange : BOOLEAN, minPIN : {4, 6}, bio : 0..MaxBio,
           enrolling : BOOLEAN, creds : 0..MaxCreds, alwaysUv : BOOLEAN, ep : BOOLEAN,
           longTouch : BOOLEAN]

Factory == [pin |-> FALSE, forceChange |-> FALSE, minPIN |-> 4, bio |-> 0,
            enrolling |-> FALSE, creds |-> 0, alwaysUv |-> FALSE, ep |-> FALSE,
            longTouch |-> FALSE]

\* What authenticatorGetInfo reports of a state: whether a fingerprint is
\* enrolled, not how many, and how many credentials still fit.
Snapshot(a) == [clientPin |-> a.pin, forcePINChange |-> a.forceChange, minPIN |-> a.minPIN,
                uv |-> a.bio > 0, remaining |-> MaxCreds - a.creds,
                alwaysUv |-> a.alwaysUv, ep |-> a.ep, longTouch |-> a.longTouch]

Infos == [clientPin : BOOLEAN, forcePINChange : BOOLEAN, minPIN : {4, 6}, uv : BOOLEAN,
          remaining : 0..MaxCreds, alwaysUv : BOOLEAN, ep : BOOLEAN, longTouch : BOOLEAN]

Ops == {"SetPIN", "ChangePIN", "GetToken", "MakeCredential", "MakeCredentialRK",
        "DeleteCredential", "UpdateUserInformation", "EnrollBegin", "EnrollCapture",
        "CancelEnrollment", "RemoveEnrollment", "EnableEP", "ToggleAlwaysUV",
        "SetMinPINLength", "ForceChangePIN", "EnableLongTouch", "Reset",
        "GetTokenUV", "GetAssertion", "SetLargeBlobs", "Query"}

\* How a request is authorised: not at all, by a pinUvAuthToken, or by
\* built-in user verification (the uv option).
Auths == {"none", "token", "uv"}

Commands == [op : Ops, by : Auths]

\* The commands the authenticator accepts in state a.  A token exists only
\* where a PIN is set or a fingerprint is enrolled.
Accepts(c, a) ==
    /\ c.by = "token" => a.pin \/ a.bio > 0
    /\ c.op = "SetPIN" => ~a.pin
    /\ c.op \in {"ChangePIN", "ForceChangePIN"} => a.pin
    /\ c.op = "MakeCredentialRK" => a.creds < MaxCreds
    /\ c.op = "DeleteCredential" => a.creds > 0
    /\ c.op = "EnrollBegin" => a.bio < MaxBio
    /\ c.op = "EnrollCapture" => a.enrolling /\ a.bio < MaxBio
    /\ c.op \in {"RemoveEnrollment", "GetTokenUV"} => a.bio > 0

\* The states an accepted command may lead to.  An enrollment command takes
\* one sample and completes the enrollment if none remains.
Effect(op, a) ==
    CASE op = "SetPIN"           -> {[a EXCEPT !.pin = TRUE]}
      [] op = "ChangePIN"        -> {[a EXCEPT !.forceChange = FALSE]}
      [] op = "MakeCredentialRK" -> {[a EXCEPT !.creds = @ + 1]}
      [] op = "DeleteCredential" -> {[a EXCEPT !.creds = @ - 1]}
      [] op \in {"EnrollBegin", "EnrollCapture"} ->
            {[a EXCEPT !.enrolling = TRUE], [a EXCEPT !.enrolling = FALSE, !.bio = @ + 1]}
      [] op = "CancelEnrollment" -> {[a EXCEPT !.enrolling = FALSE]}
      [] op = "RemoveEnrollment" -> {[a EXCEPT !.bio = @ - 1]}
      [] op = "EnableEP"         -> {[a EXCEPT !.ep = TRUE]}
      [] op = "ToggleAlwaysUV"   -> {[a EXCEPT !.alwaysUv = ~@]}
      [] op = "SetMinPINLength"  -> {[a EXCEPT !.minPIN = 6, !.forceChange = f] :
                                          f \in {a.forceChange, a.pin}}
      [] op = "ForceChangePIN"   -> {[a EXCEPT !.forceChange = TRUE]}
      [] op = "EnableLongTouch"  -> {[a EXCEPT !.longTouch = TRUE]}
      [] op = "Reset"            -> {Factory}
      [] OTHER                   -> {a}

-----------------------------------------------------------------------------
\* New: the first authenticatorGetInfo succeeded.
Init == /\ auth = Factory
        /\ info = Snapshot(Factory)
        /\ infoValid = TRUE
        /\ mu = None
        /\ pc = [p \in Callers |-> "idle"]
        /\ cmd = [p \in Callers |-> [op |-> "Query", by |-> "none"]]
        /\ calls = 0
        /\ unknown = FALSE

Goto(p, l) == pc' = [pc EXCEPT ![p] = l]
Return(p) == Goto(p, "idle") /\ mu' = None

\* The entry of every method: d.mu.Lock.
LockMu(p) ==
    /\ pc[p] = "idle" /\ mu = None
    /\ calls < MaxCommands
    /\ calls' = calls + 1
    /\ mu' = p
    /\ Goto(p, "locked")
    /\ UNCHANGED <<auth, info, infoValid, cmd, unknown>>

\* refreshInfoLocked: authenticatorGetInfo succeeds.
Refresh == /\ info' = Snapshot(auth)
           /\ infoValid' = TRUE
           /\ unknown' = FALSE

\* Mutant: the checks trust the cache even after it was invalidated.
EnsureInfoStale(p) ==
    /\ pc[p] = "locked"
    /\ Goto(p, "ready")
    /\ UNCHANGED <<auth, info, infoValid, mu, cmd, calls, unknown>>

\* ensureInfoLocked: the cache is valid, or is refreshed, or the call fails.
EnsureInfo(p) ==
    /\ pc[p] = "locked"
    /\ \/ infoValid /\ Goto(p, "ready") /\ UNCHANGED <<info, infoValid, mu, unknown>>
       \/ ~infoValid /\ Refresh /\ Goto(p, "ready") /\ UNCHANGED mu
       \/ ~infoValid /\ Return(p) /\ UNCHANGED <<info, infoValid, unknown>>
    /\ UNCHANGED <<auth, cmd, calls>>

\* GetInfo always asks the authenticator.
GetInfo(p) ==
    /\ pc[p] = "locked"
    /\ Return(p)
    /\ Refresh \/ UNCHANGED <<info, infoValid, unknown>>
    /\ UNCHANGED <<auth, cmd, calls>>

-----------------------------------------------------------------------------
(* The checks on the cached information. *)

hasConfiguredUserVerification(i) == i.clientPin \/ i.uv

\* configAuthorizationRequired: the toggle that ends alwaysUv on an
\* authenticator without user verification needs no token.
configAuthorizationRequired(i, op) ==
    IF op = "ToggleAlwaysUV" /\ ~hasConfiguredUserVerification(i) /\ i.alwaysUv
    THEN FALSE
    ELSE hasConfiguredUserVerification(i) \/ i.alwaysUv

\* validateMakeCredentialAuthorization of an authenticator that reports
\* makeCredUvNotRqd, after validateUserVerificationRequest.
makeCredentialAuthorized(i, by, rk) ==
    /\ by = "uv" => i.uv
    /\ i.alwaysUv \/ (hasConfiguredUserVerification(i) /\ rk)
          => by # "none" \/ (i.alwaysUv /\ i.uv)

\* validateGetAssertionAuthorization with user presence requested.
getAssertionAuthorized(i, by) ==
    /\ by = "uv" => i.uv
    /\ i.alwaysUv => by # "none" \/ i.uv

largeBlobsAuthorizationRequired(i) == hasConfiguredUserVerification(i) \/ i.alwaysUv

\* A method goes on with the cached information: it refuses the call, or
\* sends the command.
Operation(p, op, by, allowed) ==
    /\ pc[p] = "ready"
    /\ IF allowed
       THEN /\ Goto(p, "sent")
            /\ cmd' = [cmd EXCEPT ![p] = [op |-> op, by |-> by]]
            /\ UNCHANGED mu
       ELSE Return(p) /\ UNCHANGED cmd
    /\ UNCHANGED <<auth, info, infoValid, calls, unknown>>

SetPIN(p)    == Operation(p, "SetPIN", "none", ~info.clientPin)
ChangePIN(p) == Operation(p, "ChangePIN", "none", info.clientPin)
GetPinUvAuthTokenUsingPIN(p) ==
    Operation(p, "GetToken", "none", ~info.forcePINChange /\ info.clientPin)

MakeCredential(p, by, rk) ==
    Operation(p, IF rk THEN "MakeCredentialRK" ELSE "MakeCredential", by,
              makeCredentialAuthorized(info, by, rk))

GetPinUvAuthTokenUsingUV(p) == Operation(p, "GetTokenUV", "none", info.uv)

GetAssertion(p, by) == Operation(p, "GetAssertion", by, getAssertionAuthorized(info, by))

setLargeBlobsLocked(p, t) ==
    Operation(p, "SetLargeBlobs", t, largeBlobsAuthorizationRequired(info) => t = "token")

\* Methods that need a pinUvAuthToken.
DeleteCredential(p, t)        == Operation(p, "DeleteCredential", t, t = "token")
UpdateUserInformation(p, t)   == Operation(p, "UpdateUserInformation", t, t = "token")
EnrollBegin(p, t)             == Operation(p, "EnrollBegin", t, t = "token")
EnrollCaptureNextSample(p, t) == Operation(p, "EnrollCapture", t, t = "token")
RemoveEnrollment(p, t)        == Operation(p, "RemoveEnrollment", t, t = "token")

CancelCurrentEnrollment(p) == Operation(p, "CancelEnrollment", "none", TRUE)

\* The authenticatorConfig methods need one when the authenticator is protected.
EnableEnterpriseAttestation(p, t) ==
    Operation(p, "EnableEP", t,
              configAuthorizationRequired(info, "EnableEP") => t = "token")
ToggleAlwaysUV(p, t) ==
    Operation(p, "ToggleAlwaysUV", t,
              configAuthorizationRequired(info, "ToggleAlwaysUV") => t = "token")
\* A new minimum length, or only the demand to change the PIN.
SetMinPINLength(p, t, force) ==
    Operation(p, IF force THEN "ForceChangePIN" ELSE "SetMinPINLength", t,
              /\ configAuthorizationRequired(info, "SetMinPINLength") => t = "token"
              /\ force => info.clientPin)
EnableLongTouchForReset(p, t) ==
    Operation(p, "EnableLongTouch", t,
              configAuthorizationRequired(info, "EnableLongTouch") => t = "token")

\* Methods whose commands change nothing that authenticatorGetInfo reports,
\* with a pinUvAuthToken and without.  The exchanges of an iterator, during
\* which it keeps Device.mu, are one here.
EnumerateEnrollments(p, t) == Operation(p, "Query", t, t = "token")
SetFriendlyName(p, t)      == Operation(p, "Query", t, t = "token")
GetCredsMetadata(p, t)     == Operation(p, "Query", t, t = "token")
EnumerateRPs(p, t)         == Operation(p, "Query", t, t = "token")
EnumerateCredentials(p, t) == Operation(p, "Query", t, t = "token")

GetPINRetries(p)            == Operation(p, "Query", "none", TRUE)
GetUVRetries(p)             == Operation(p, "Query", "none", TRUE)
GetBioModality(p)           == Operation(p, "Query", "none", TRUE)
GetFingerprintSensorInfo(p) == Operation(p, "Query", "none", TRUE)
Selection(p)                == Operation(p, "Query", "none", TRUE)
getLargeBlobsLocked(p)      == Operation(p, "Query", "none", TRUE)

\* Vendor passes a CTAPHID command on without looking at the information.
Vendor(p) ==
    /\ pc[p] = "locked"
    /\ Goto(p, "sent")
    /\ cmd' = [cmd EXCEPT ![p] = [op |-> "Query", by |-> "none"]]
    /\ UNCHANGED <<auth, info, infoValid, mu, calls, unknown>>

\* Reset checks nothing.
Reset(p) ==
    /\ pc[p] = "locked"
    /\ Goto(p, "sent")
    /\ cmd' = [cmd EXCEPT ![p] = [op |-> "Reset", by |-> "none"]]
    /\ UNCHANGED <<auth, info, infoValid, mu, calls, unknown>>

-----------------------------------------------------------------------------
(* The exchange. *)

\* The authenticator executes the command.
Execute(p) ==
    /\ pc[p] = "sent"
    /\ Accepts(cmd[p], auth)
    /\ \E a \in Effect(cmd[p].op, auth) :
          /\ auth' = a
          /\ Goto(p, IF a.bio > auth.bio THEN "enrolled" ELSE "executed")
    /\ UNCHANGED <<info, infoValid, mu, cmd, calls, unknown>>

\* The exchange fails and the command was not executed.
Fail(p) ==
    /\ pc[p] = "sent"
    /\ Return(p)
    /\ UNCHANGED <<auth, info, infoValid, cmd, calls, unknown>>

\* Mutant: storing a discoverable credential does not invalidate the cache.
InvalidatesNoCredential(p) ==
    CASE cmd[p].op \in {"EnrollBegin", "EnrollCapture"} -> pc[p] = "enrolled"
      [] cmd[p].op \in {"MakeCredential", "MakeCredentialRK", "GetAssertion", "GetToken",
                        "GetTokenUV", "CancelEnrollment", "SetLargeBlobs", "Query"} -> FALSE
      [] OTHER -> TRUE

\* Which successful responses call invalidateInfoLocked.  The enrollment
\* methods do when the response has a templateId and no sample remains.
Invalidates(p) ==
    CASE cmd[p].op = "EnrollBegin"   -> pc[p] = "enrolled"
      [] cmd[p].op = "EnrollCapture" -> pc[p] = "enrolled" /\ CaptureReportsTemplate
      [] cmd[p].op \in {"MakeCredential", "GetAssertion", "GetToken", "GetTokenUV",
                        "CancelEnrollment", "SetLargeBlobs", "Query"} -> FALSE
      [] OTHER -> TRUE

\* The response arrives, and the method returns.
Reply(p) ==
    /\ pc[p] \in {"executed", "enrolled"}
    /\ infoValid' = (infoValid /\ ~Invalidates(p))
    /\ Return(p)
    /\ UNCHANGED <<auth, info, cmd, calls, unknown>>

\* The response is lost: the context is canceled and the response drained, or
\* it cannot be decoded.  The method returns the error and keeps the cache.
ReplyLost(p) ==
    /\ pc[p] \in {"executed", "enrolled"}
    /\ unknown' = TRUE
    /\ Return(p)
    /\ UNCHANGED <<auth, info, infoValid, cmd, calls>>

-----------------------------------------------------------------------------
Method(p) ==
    \/ SetPIN(p) \/ ChangePIN(p) \/ GetPinUvAuthTokenUsingPIN(p)
    \/ GetPinUvAuthTokenUsingUV(p) \/ CancelCurrentEnrollment(p)
    \/ GetPINRetries(p) \/ GetUVRetries(p) \/ GetBioModality(p)
    \/ GetFingerprintSensorInfo(p) \/ Selection(p) \/ getLargeBlobsLocked(p)
    \/ \E by \in Auths : \/ GetAssertion(p, by)
                         \/ \E rk \in BOOLEAN : MakeCredential(p, by, rk)
    \/ \E t \in {"none", "token"} :
          \/ DeleteCredential(p, t) \/ UpdateUserInformation(p, t)
          \/ EnrollBegin(p, t) \/ EnrollCaptureNextSample(p, t) \/ RemoveEnrollment(p, t)
          \/ EnableEnterpriseAttestation(p, t) \/ ToggleAlwaysUV(p, t)
          \/ \E force \in BOOLEAN : SetMinPINLength(p, t, force)
          \/ EnableLongTouchForReset(p, t) \/ setLargeBlobsLocked(p, t)
          \/ EnumerateEnrollments(p, t) \/ SetFriendlyName(p, t) \/ GetCredsMetadata(p, t)
          \/ EnumerateRPs(p, t) \/ EnumerateCredentials(p, t)
    \/ Reset(p) \/ Vendor(p) \/ GetInfo(p)

Exchange(p) == Execute(p) \/ Fail(p) \/ Reply(p) \/ ReplyLost(p)

Next == \E p \in Callers : LockMu(p) \/ EnsureInfo(p) \/ Method(p) \/ Exchange(p)

Spec == Init /\ [][Next]_vars

-----------------------------------------------------------------------------
TypeOK ==
    /\ auth \in States
    /\ info \in Infos
    /\ infoValid \in BOOLEAN
    /\ mu \in Callers \union {None}
    /\ pc \in [Callers -> {"idle", "locked", "ready", "sent", "executed", "enrolled"}]
    /\ cmd \in [Callers -> Commands]
    /\ calls \in 0..MaxCommands
    /\ unknown \in BOOLEAN

\* README: known state changes invalidate the cache.  Whenever the cache says
\* it is valid it reports the authenticator's current state, unless a command
\* has been executed whose response is still on its way or was lost.
InfoFresh ==
    infoValid => \/ info = Snapshot(auth)
                 \/ unknown
                 \/ \E p \in Callers : pc[p] \in {"executed", "enrolled"}

\* Built-in user verification is asked for only where it is configured; a
\* request that must be verified says how, or meets an authenticator that
\* verifies the user by itself because alwaysUv is on.
Verified(c, i, required) ==
    /\ c.by = "uv" => i.uv
    /\ required => c.by # "none" \/ (i.alwaysUv /\ i.uv)

\* What the authenticator requires of a command, given what is true of it.
Requires(c, i) ==
    CASE c.op = "SetPIN"    -> ~i.clientPin
      [] c.op = "ChangePIN" -> i.clientPin
      [] c.op = "GetToken"  -> i.clientPin /\ ~i.forcePINChange
      [] c.op = "ForceChangePIN" -> i.clientPin /\ c.by = "token"
      [] c.op = "GetTokenUV" -> i.uv
      [] c.op = "MakeCredentialRK" -> Verified(c, i, i.clientPin \/ i.uv \/ i.alwaysUv)
      [] c.op \in {"MakeCredential", "GetAssertion"} -> Verified(c, i, i.alwaysUv)
      [] c.op = "ToggleAlwaysUV" -> i.clientPin \/ i.uv => c.by = "token"
      [] c.op \in {"EnableEP", "SetMinPINLength", "EnableLongTouch", "SetLargeBlobs"} ->
            i.clientPin \/ i.uv \/ i.alwaysUv => c.by = "token"
      [] OTHER -> TRUE

\* A command that passed its checks meets the authenticator's requirements
\* when it is on the wire: no PIN command for the wrong PIN state, and no
\* unauthorised request to a protected authenticator, is ever sent on outdated
\* information, unless an earlier reply was lost.
ChecksCurrent ==
    \A p \in Callers : pc[p] = "sent" /\ ~unknown => Requires(cmd[p], Snapshot(auth))
=============================================================================
