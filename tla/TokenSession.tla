----------------------------- MODULE TokenSession -----------------------------
(***************************************************************************)
(* authenticator.Device over client.Client, from a PIN or a fingerprint to *)
(* an authorised command: the Device chooses a token flow from the         *)
(* authenticator's information (Preflight), asks for its key agreement     *)
(* key, obtains a pinUvAuthToken, and uses it in the requests CtapClient   *)
(* builds.  Two exchanges make a token call; other platforms may use the   *)
(* authenticator between any two exchanges.                                *)
(*                                                                         *)
(* The information is current: AuthenticatorDevice models its cache.  The  *)
(* authenticator is the environment and follows CTAP: a PIN that does not  *)
(* decrypt to its own spends a retry and changes its key, a new token      *)
(* revokes the previous one, and authorising MakeCredential or             *)
(* GetAssertion uses up the permissions of a CTAP 2.1 token but lbw.       *)
(***************************************************************************)
EXTENDS Preflight

CONSTANTS Infos,      \* what the authenticator may report
          Pins,       \* PINs as typed: [nfc, typed, points, bytes, endsInZero]
          PermSets,   \* permission sets asked for
          RPs,        \* RP IDs, NoRP among them
          NoPIN,
          MaxRetries, \* PIN retries of the authenticator
          MaxTokens,  \* bound: tokens issued or revoked
          MaxKeys     \* bound: changes of the key agreement key

\* The permissions of protocol.Permission, and the fields of the information.
Permissions == {"mc", "ga", "cm", "be", "lbw", "acfg", "pcmr"}
IsInformation(i) ==
    /\ i = [versions |-> i.versions, options |-> i.options, protocols |-> i.protocols,
            configCommands |-> i.configCommands, forcePINChange |-> i.forcePINChange,
            minPINLength |-> i.minPINLength, maxPINLength |-> i.maxPINLength]
    /\ i.options = [o \in DOMAIN i.options |-> i.options[o]]

ASSUME TokenAssumption ==
    /\ \A i \in Infos : IsInformation(i)
    /\ PermSets \subseteq SUBSET Permissions
    /\ NoRP \in RPs
    /\ \A p \in Pins : p.nfc # NoPIN
    /\ MaxRetries \in Nat /\ MaxTokens \in Nat /\ MaxKeys \in Nat

client == INSTANCE CtapClient

VARIABLES
    info,    \* the authenticator's information
    pin,     \* its PIN, normalised, or NoPIN
    retries, \* its PIN retries
    key,     \* the number of its key agreement key
    grant,   \* its pinUvAuthToken: [id, protocol, len, perms, rp]
    held,    \* the caller's token: [id, len, perms], perms what it may expect of it
    pc,      \* the Device: idle, keyed (key agreement done), sent
    op,      \* the call in progress: [method, pin, new, perms, rp, key, flow, covered]
    req,     \* the request on the wire
    last,    \* history: the last call, if it was refused with a token that
             \* covers it: [method, result, covered]
    raced    \* history: another platform acted during this call

vars == <<info, pin, retries, key, grant, held, pc, op, req, last, raced>>

NoToken == [id |-> 0, len |-> 0, perms |-> {}]
NoGrant == [id |-> 0, protocol |-> 0, len |-> 0, perms |-> {}, rp |-> NoRP]
AnyPin == CHOOSE p \in Pins : TRUE
Idle == [method |-> "none", pin |-> AnyPin, new |-> AnyPin, perms |-> {}, rp |-> NoRP,
         key |-> 0, flow |-> "none", covered |-> FALSE]

Accepted == [method |-> "none", result |-> "ok", covered |-> FALSE]

Init == /\ info \in Infos
        /\ pin = IF On(info, "clientPin") THEN AnyPin.nfc ELSE NoPIN
        /\ retries = MaxRetries
        /\ key = 0
        /\ grant = NoGrant
        /\ held = NoToken
        /\ pc = "idle"
        /\ op = Idle
        /\ req = client!GetInfo
        /\ last = Accepted
        /\ raced = FALSE

\* The call returns.
Return(method, result, covered) ==
    /\ pc' = "idle"
    /\ op' = Idle
    /\ req' = client!GetInfo
    /\ raced' = FALSE
    /\ last' = IF result \in {"ok", "failed"} \/ ~covered THEN Accepted
               ELSE [method |-> method, result |-> result, covered |-> covered]

-----------------------------------------------------------------------------
(* PINs. *)

\* NFC normalisation is part of a PIN's record; DefaultMinPINCodePoints is 4.
NormalizeAndValidate(p, min) ==
    /\ p.points >= min /\ p.points >= 4
    /\ p.bytes <= 63
    /\ ~p.endsInZero

normalizeAndValidateCurrentPIN(p) == NormalizeAndValidate(p, 4)
normalizeAndValidateNewPIN(p) ==
    /\ info.minPINLength <= info.maxPINLength
    /\ NormalizeAndValidate(p, info.minPINLength)
    /\ p.points <= info.maxPINLength

\* The protocol of a token flow: the preview flow always uses protocol 1.
flowProtocol(flow) ==
    IF flow # "previewUv" THEN requirePinUvAuthProtocol(info)
    ELSE IF ValidateFIPS140UvAuthProtocol(1) THEN 1 ELSE 0

\* Mutant: the key agreement key of an earlier call is used again.
KeyAgreementCached(method, o, checked) ==
    /\ pc = "idle" /\ grant.id < MaxTokens
    /\ IF checked /\ flowProtocol(o.flow) # 0
       THEN /\ pc' = "keyed"
            /\ op' = [o EXCEPT !.method = method, !.key = 0]
            /\ last' = Accepted
            /\ UNCHANGED <<req, raced>>
       ELSE Return(method, "refused", FALSE)
    /\ UNCHANGED <<info, pin, retries, key, grant, held>>

\* pinUvAuthProtocolWithKeyAgreement: a method that passed its checks asks
\* for the key the authenticator has now.
KeyAgreement(method, o, checked) ==
    /\ pc = "idle" /\ grant.id < MaxTokens
    /\ IF checked /\ flowProtocol(o.flow) # 0
       THEN /\ pc' = "keyed"
            /\ op' = [o EXCEPT !.method = method, !.key = key]
            /\ last' = Accepted
            /\ UNCHANGED <<req, raced>>
       ELSE Return(method, "refused", FALSE)
    /\ UNCHANGED <<info, pin, retries, key, grant, held>>

SetPIN(p) ==
    KeyAgreement("SetPIN", [Idle EXCEPT !.new = p],
                 /\ Reports(info, "clientPin") /\ ~On(info, "clientPin")
                 /\ normalizeAndValidateNewPIN(p))

ChangePIN(p, q) ==
    KeyAgreement("ChangePIN", [Idle EXCEPT !.pin = p, !.new = q],
                 /\ On(info, "clientPin")
                 /\ normalizeAndValidateCurrentPIN(p) /\ normalizeAndValidateNewPIN(q))

GetPinUvAuthTokenUsingPIN(p, perms, rp) ==
    LET flow == selectPinTokenFlowUsingPIN(info, perms, rp)
    IN  KeyAgreement("GetTokenPIN",
                     [Idle EXCEPT !.pin = p, !.perms = perms, !.rp = rp, !.flow = flow],
                     /\ ~info.forcePINChange
                     /\ normalizeAndValidateCurrentPIN(p)
                     /\ flow # "refused")

GetPinUvAuthTokenUsingUV(perms, rp) ==
    LET flow == selectPinUvAuthTokenFlowUsingUV(info, perms, rp)
    IN  KeyAgreement("GetTokenUV", [Idle EXCEPT !.perms = perms, !.rp = rp, !.flow = flow],
                     flow # "refused")

\* The second exchange of the call.
SendClientPIN ==
    LET n == flowProtocol(op.flow)
        rpID == IF op.flow \in {"permissions", "uvPermissions"} THEN op.rp ELSE NoRP
    IN  /\ pc = "keyed"
        /\ pc' = "sent"
        /\ req' = CASE op.method = "SetPIN" -> client!SetPIN(n, op.key, op.new.nfc)
                    [] op.method = "ChangePIN" ->
                          client!ChangePIN(n, op.key, op.pin.nfc, op.new.nfc)
                    [] op.flow = "legacy" -> client!GetPinToken(n, op.key, op.pin.nfc)
                    [] op.flow = "permissions" ->
                          client!GetPinUvAuthTokenUsingPinWithPermissions(
                              n, op.key, op.pin.nfc, op.perms, rpID)
                    [] op.flow = "previewUv" -> client!GetPinUvAuthTokenUsingUv(op.key, NoRP)
                    [] op.flow = "uvPermissions" ->
                          client!GetPinUvAuthTokenUsingUvWithPermissions(
                              n, op.key, op.perms, rpID)
        /\ UNCHANGED <<info, pin, retries, key, grant, held, op, last, raced>>

-----------------------------------------------------------------------------
(* Commands.  A call has its method, the permissions that authorise it,    *)
(* whether the Device supports it and whether it demands a token; Build    *)
(* gives the request for a protocol and a token.                           *)

Call(method, perms, supported, required) ==
    [method |-> method, perms |-> perms, supported |-> supported, required |-> required]

BioMethods == {"EnrollBegin", "EnrollBeginTimeout", "EnrollCaptureNextSample",
               "EnumerateEnrollments", "SetFriendlyName", "RemoveEnrollment"}
ReadCredMethods == {"GetCredsMetadata", "EnumerateRPs", "EnumerateCredentials"}
WriteCredMethods == {"DeleteCredential", "UpdateUserInformation"}
ConfigMethods == {"enableEnterpriseAttestation", "toggleAlwaysUv", "setMinPINLength",
                  "enableLongTouchForReset"}

\* What a configuration method looks for besides the subcommand.
\* longTouchForReset, a field of its own, is kept among the options.
ConfigFeature(m) ==
    CASE m = "enableEnterpriseAttestation" -> Reports(info, "ep")
      [] m = "toggleAlwaysUv"              -> Reports(info, "alwaysUv")
      [] m = "setMinPINLength"             -> On(info, "setMinPINLength")
      [] m = "enableLongTouchForReset"     -> Reports(info, "longTouchForReset")

Calls ==
    {Call(m, {"be"}, bioEnrollmentMode(info) # "none", TRUE) : m \in BioMethods}
    \union
    {Call(m, {"cm", "pcmr"}, credentialManagementMode(info) # "none", TRUE) : m \in ReadCredMethods}
    \union
    {Call(m, {"cm"}, credentialManagementMode(info) # "none", TRUE) : m \in WriteCredMethods}
    \union
    {Call(m, {"acfg"}, validateAuthenticatorConfigCommand(info, m) /\ ConfigFeature(m),
          configAuthorizationRequired(info, m)) : m \in ConfigMethods}
    \union
    {Call("SetLargeBlobs", {"lbw"}, On(info, "largeBlobs"), largeBlobsAuthorizationRequired(info))}
    \union
    {Call(m, {}, bioEnrollmentMode(info) # "none", FALSE) :
        m \in {"GetBioModality", "GetFingerprintSensorInfo", "CancelCurrentEnrollment"}}
    \union
    {Call("GetPINRetries", {}, /\ Reports(info, "clientPin")
                               /\ requirePinUvAuthProtocol(info) # 0, FALSE),
     Call("GetUVRetries", {}, /\ ~isFIDO20Only(info) /\ Reports(info, "uv")
                              /\ info.protocols # <<>> => requirePinUvAuthProtocol(info) # 0, FALSE),
     Call("Selection", {}, ~isFIDO20Only(info), FALSE)}

Build(m, n, t) ==
    LET bio == bioEnrollmentMode(info) = "preview"
        cred == credentialManagementMode(info) = "preview"
    IN  CASE m = "EnrollBegin"          -> client!EnrollBegin(bio, n, t, 0)
          [] m = "EnrollBeginTimeout"   -> client!EnrollBegin(bio, n, t, 5)
          [] m = "EnrollCaptureNextSample" ->
                client!EnrollCaptureNextSample(bio, n, t, "template", 0)
          [] m = "EnumerateEnrollments" -> client!EnumerateEnrollments(bio, n, t)
          [] m = "SetFriendlyName"      -> client!SetFriendlyName(bio, n, t, "template", "")
          [] m = "RemoveEnrollment"     -> client!RemoveEnrollment(bio, n, t, "template")
          [] m = "GetBioModality"       -> client!GetBioModality(bio)
          [] m = "GetFingerprintSensorInfo" -> client!GetFingerprintSensorInfo(bio)
          [] m = "CancelCurrentEnrollment"  -> client!CancelCurrentEnrollment(bio)
          [] m = "GetCredsMetadata"     -> client!GetCredsMetadata(cred, n, t)
          [] m = "EnumerateRPs"         -> client!EnumerateRPsBegin(cred, n, t)
          [] m = "EnumerateCredentials" -> client!EnumerateCredentialsBegin(cred, n, t, "rpIDHash")
          [] m = "DeleteCredential"     -> client!DeleteCredential(cred, n, t, "credential")
          [] m = "UpdateUserInformation" ->
                client!UpdateUserInformation(cred, n, t, "credential", "user")
          [] m = "SetLargeBlobs"        -> client!LargeBlobs(n, t, 0, <<"chunk">>, 960, 0)
          [] m = "enableEnterpriseAttestation" -> client!EnableEnterpriseAttestation(n, t)
          [] m = "toggleAlwaysUv"       -> client!ToggleAlwaysUV(n, t)
          [] m = "setMinPINLength"      -> client!SetMinPINLength(n, t, {})
          [] m = "enableLongTouchForReset" -> client!EnableLongTouchForReset(n, t)
          [] m = "GetPINRetries"        -> client!GetPINRetries(requirePinUvAuthProtocol(info))
          [] m = "GetUVRetries"         -> client!GetUVRetries(
                IF info.protocols = <<>> THEN 0 ELSE requirePinUvAuthProtocol(info))
          [] m = "Selection"            -> client!Selection
          [] m = "MakeCredential"       -> client!MakeCredential(n, t, "clientDataHash", TRUE)
          [] m = "GetAssertion"         -> client!GetAssertion(n, t, "clientDataHash")

\* The authenticator's token may be used for the RP.  Large blobs, biometric
\* enrollment and configuration are nobody's in particular: the RP ID of the
\* token does not matter to them.
ForRP(perms, rp) == perms \intersect {"mc", "ga", "cm"} # {} => grant.rp \in {NoRP, rp}

\* What a method that passed validation does with the caller's token.
Send(c, t, rp) ==
    LET n == IF t.id = 0 THEN 0 ELSE pinUvAuthProtocolForRequest(info, t.len)
        covered == /\ t.id # 0 /\ t.id = grant.id
                   /\ c.perms \intersect t.perms # {}
                   /\ ForRP(c.perms, rp)
    IN  /\ pc = "idle"
        /\ IF ~c.supported THEN Return(c.method, "notSupported", covered)
           ELSE IF c.required /\ t.id = 0 THEN Return(c.method, "tokenRequired", FALSE)
           ELSE IF t.id # 0 /\ n = 0 THEN Return(c.method, "badToken", covered)
           ELSE /\ pc' = "sent"
                /\ op' = [Idle EXCEPT !.method = c.method, !.perms = c.perms, !.rp = rp,
                                      !.covered = covered]
                /\ req' = Build(c.method, n, t.id)
                /\ last' = Accepted
                /\ UNCHANGED raced
        /\ UNCHANGED <<info, pin, retries, key, grant, held>>

\* A method of Calls, with the caller's token or without one.
Command(c) == \E t \in {held, NoToken} : Send(c, t, NoRP)

MakeCredential(rp, by, rk) ==
    LET checked == validateMakeCredentialAuthorization(info, by, rk)
    IN  Send(Call("MakeCredential", {"mc"}, checked # "refused", checked = "tokenRequired"),
             IF by = "token" THEN held ELSE NoToken, rp)

\* Without the rk option, which GetAssertion refuses.
GetAssertion(rp, by, up) ==
    LET checked == validateGetAssertionAuthorization(info, by, up, FALSE)
    IN  Send(Call("GetAssertion", {"ga"}, checked # "refused", checked = "tokenRequired"),
             IF by = "token" THEN held ELSE NoToken, rp)

-----------------------------------------------------------------------------
(* The authenticator. *)

\* The message it authenticates: rebuilt from the request it received.
Authenticated(r) ==
    CASE r.command \in {"makeCredential", "getAssertion"} -> <<"clientDataHash">>
      [] r.command \in {"bioEnrollment", "prototypeBioEnrollment"} ->
            <<client!Byte("fingerprint"), client!Byte(r.sub)>> \o r.params
      [] r.command \in {"credentialManagement", "prototypeCredentialManagement"} ->
            <<client!Byte(r.sub)>> \o r.params
      [] r.command = "config" ->
            <<client!Padding, client!Byte("0d"), client!Byte(r.sub)>> \o r.params
      [] r.command = "largeBlobs" ->
            LET set == (CHOOSE m \in r.params : m[1] = "set")[2]
                offset == (CHOOSE m \in r.params : m[1] = "offset")[2]
            IN  <<client!Padding, client!Byte("0c00"), <<"uint32", offset>>, client!Hash(set)>>
      [] r.command = "clientPIN" /\ r.sub = "setPIN" ->
            <<(CHOOSE m \in r.params : m[1] = "newPinEnc")[2]>>
      [] r.command = "clientPIN" /\ r.sub = "changePIN" ->
            <<(CHOOSE m \in r.params : m[1] = "newPinEnc")[2],
              (CHOOSE m \in r.params : m[1] = "pinHashEnc")[2]>>

Authorises ==
    \/ req.param.protocol = 0
    \/ /\ grant.id # 0 /\ req.param.key = grant.id /\ req.param.protocol = grant.protocol
       /\ req.param.message = Authenticated(req)
       /\ op.perms \intersect grant.perms # {}
       /\ ForRP(op.perms, op.rp)

\* The permissions and the lengths of the tokens it issues.
Issued(flow) == IF flow \in {"permissions", "uvPermissions"} THEN op.perms
                ELSE McGa \union (IF IsPreviewOnly(info) THEN {"cm", "be"} ELSE {})
Lengths(n) == IF n = 2 THEN {32}
              ELSE IF isFIDO20Only(info) \/ IsPreviewOnly(info) THEN {16, 48} ELSE {16, 32}

\* The answer arrives, or is lost.
Deliver(result) ==
    \/ Return(op.method, result, op.covered /\ ~raced)
    \/ Return(op.method, "failed", FALSE)

Issue ==
    LET n == flowProtocol(op.flow)
    IN  \E len \in Lengths(n) :
          /\ grant' = [id |-> grant.id + 1, protocol |-> n, len |-> len, perms |-> Issued(op.flow),
                       rp |-> IF op.flow \in {"permissions", "uvPermissions"} THEN op.rp ELSE NoRP]
          /\ \/ /\ Return(op.method, "ok", FALSE)
                /\ held' = [id |-> grant.id + 1, len |-> len, perms |-> op.perms]
             \/ Return(op.method, "failed", FALSE) /\ UNCHANGED held

\* Token requests: by PIN, which spends a retry before the PIN is compared,
\* and by built-in user verification.
AnswerToken ==
    /\ pc = "sent" /\ op.method \in {"GetTokenPIN", "GetTokenUV"}
    /\ \/ /\ op.method = "GetTokenPIN" /\ retries > 0 /\ op.key = key /\ op.pin.nfc = pin
          /\ retries' = MaxRetries
          /\ Issue /\ UNCHANGED key
       \/ /\ op.method = "GetTokenPIN" /\ retries > 0 /\ key < MaxKeys
          /\ op.key # key \/ op.pin.nfc # pin
          /\ retries' = retries - 1
          /\ key' = key + 1
          /\ Deliver("pinInvalid")
          /\ UNCHANGED <<grant, held>>
       \/ /\ op.method = "GetTokenPIN" /\ retries = 0
          /\ Deliver("blocked")
          /\ UNCHANGED <<retries, key, grant, held>>
       \/ /\ op.method = "GetTokenUV" /\ op.key = key
          /\ Issue /\ UNCHANGED <<retries, key>>
       \/ /\ op.method = "GetTokenUV"
          /\ Deliver("uvInvalid")
          /\ UNCHANGED <<retries, key, grant, held>>
    /\ UNCHANGED <<info, pin>>

\* A PIN is set or changed; the parameter is verified before anything else.
AnswerPIN ==
    LET verified == op.key = key /\ req.param.message = Authenticated(req)
        accepted == /\ verified
                    /\ op.method = "SetPIN" => pin = NoPIN
                    /\ op.method = "ChangePIN" => retries > 0 /\ op.pin.nfc = pin
    IN  /\ pc = "sent" /\ op.method \in {"SetPIN", "ChangePIN"}
        /\ \/ /\ accepted
              /\ pin' = op.new.nfc
              /\ retries' = MaxRetries
              /\ grant' = [NoGrant EXCEPT !.id = grant.id + 1]
              /\ info' = [info EXCEPT !.options = [@ EXCEPT !["clientPin"] = TRUE],
                                      !.forcePINChange = FALSE]
              /\ Deliver("ok") /\ UNCHANGED key
           \/ /\ verified /\ op.method = "ChangePIN" /\ retries > 0 /\ op.pin.nfc # pin
              /\ key < MaxKeys
              /\ retries' = retries - 1
              /\ key' = key + 1
              /\ Deliver("pinInvalid") /\ UNCHANGED <<info, pin, grant>>
           \/ /\ ~verified \/ (op.method = "ChangePIN" /\ retries = 0)
              /\ Deliver("unverified") /\ UNCHANGED <<info, pin, retries, key, grant>>
        /\ UNCHANGED <<held>>

\* Any other command.
AnswerCommand ==
    LET used == req.param.protocol # 0 /\ op.perms \subseteq McGa
        permsOf(t) == IF used /\ ~isFIDO20Only(info) THEN t.perms \intersect {"lbw"} ELSE t.perms
    IN  /\ pc = "sent"
        /\ op.method \notin {"GetTokenPIN", "GetTokenUV", "SetPIN", "ChangePIN"}
        /\ IF Authorises
           THEN /\ grant' = [grant EXCEPT !.perms = permsOf(grant),
                                          !.rp = IF used THEN op.rp ELSE @]
                /\ held' = [held EXCEPT !.perms = permsOf(held)]
                /\ Deliver("ok")
           ELSE Deliver("unauthorised") /\ UNCHANGED <<grant, held>>
        /\ UNCHANGED <<info, pin, retries, key>>

\* The exchange fails before the authenticator acts on the request.
Fail ==
    /\ pc \in {"keyed", "sent"}
    /\ Return(op.method, "failed", FALSE)
    /\ UNCHANGED <<info, pin, retries, key, grant, held>>

\* Another platform enters a wrong PIN, or obtains a token of its own.
OtherPlatform ==
    /\ grant.id < MaxTokens
    /\ raced' = (pc # "idle")
    /\ \/ /\ retries > 0 /\ pin # NoPIN /\ key < MaxKeys
          /\ retries' = retries - 1
          /\ key' = key + 1
          /\ UNCHANGED grant
       \/ /\ hasConfiguredUserVerification(info)
          /\ grant' = [NoGrant EXCEPT !.id = grant.id + 1]
          /\ UNCHANGED <<retries, key>>
    /\ UNCHANGED <<info, pin, held, pc, op, req, last>>

-----------------------------------------------------------------------------
DeviceCall ==
    \/ \E p \in Pins : SetPIN(p)
    \/ \E p, q \in Pins : ChangePIN(p, q)
    \/ \E p \in Pins, perms \in PermSets, rp \in RPs : GetPinUvAuthTokenUsingPIN(p, perms, rp)
    \/ \E perms \in PermSets, rp \in RPs : GetPinUvAuthTokenUsingUV(perms, rp)
    \/ \E c \in Calls : Command(c)
    \/ \E rp \in RPs \ {NoRP}, by \in Auths, rk \in BOOLEAN : MakeCredential(rp, by, rk)
    \/ \E rp \in RPs \ {NoRP}, by \in Auths, up \in BOOLEAN : GetAssertion(rp, by, up)

Authenticator == AnswerToken \/ AnswerPIN \/ AnswerCommand

Next == DeviceCall \/ SendClientPIN \/ Authenticator \/ Fail \/ OtherPlatform

Spec == Init /\ [][Next]_vars

-----------------------------------------------------------------------------
\* client/commands.go: every pinUvAuthParam is computed over exactly the
\* message the authenticator rebuilds from the request it receives, so that
\* no optional, empty or preview parameter makes it refuse a valid token.
AuthParamVerifies ==
    pc = "sent" /\ req.param.protocol # 0 => req.param.message = Authenticated(req)

\* The Device gives out a token only for permissions it can then use: a call
\* that needs a permission the token was obtained for is neither refused by
\* the Device nor by the authenticator, as long as the token is the
\* authenticator's current one and no other platform interferes.  (An
\* authenticatorConfig subcommand may still be one it does not have.)
GrantHonoured ==
    last.covered => \/ last.result \notin {"notSupported", "badToken", "unauthorised"}
                    \/ last.result = "notSupported" /\ last.method \in ConfigMethods

\* preflight.go:361: "Preview biometric and credential-management commands
\* are authorized with that legacy token", the one the uvToken flow obtains,
\* whatever protocols the authenticator lists besides protocol 1.
LegacyTokenAuthorises ==
    /\ last.covered /\ IsPreviewOnly(info) /\ On(info, "uvToken")
    /\ last.method \in BioMethods \union ReadCredMethods \union WriteCredMethods
    => last.result \notin {"badToken", "unauthorised"}

\* Entering the right PIN never costs one of the few retries, whatever was
\* entered before: the key agreement key is that of the same call, and every
\* spelling of the PIN is normalised alike.
CorrectPINSpendsNoRetry ==
    [][retries' < retries /\ pc = "sent" /\ pc' = "idle" => op.pin.nfc # pin \/ raced]_vars
=============================================================================
