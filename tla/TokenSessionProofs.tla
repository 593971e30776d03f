-------------------------- MODULE TokenSessionProofs --------------------------
(***************************************************************************)
(* Proofs about TokenSession, for any authenticator information, PINs, RP  *)
(* IDs and permission sets: the parameter of every request verifies, the   *)
(* right PIN spends no retry, and a token does what it was obtained for.   *)
(***************************************************************************)
EXTENDS TokenSession, TLAPS

ClientPINMethods == {"SetPIN", "ChangePIN", "GetTokenPIN", "GetTokenUV"}
TokenMethods == {"GetTokenPIN", "GetTokenUV"}
CommandMethods ==
    BioMethods \union ReadCredMethods \union WriteCredMethods \union ConfigMethods
    \union {"SetLargeBlobs", "GetBioModality", "GetFingerprintSensorInfo", "CancelCurrentEnrollment",
            "GetPINRetries", "GetUVRetries", "Selection", "MakeCredential", "GetAssertion"}
Flows == {"legacy", "permissions", "previewUv", "uvPermissions"}

Grants == [id : Nat, protocol : {0, 1, 2}, len : Nat, perms : SUBSET Permissions, rp : RPs]
Tokens == [id : Nat, len : Nat, perms : SUBSET Permissions]

Types ==
    /\ pc \in {"idle", "keyed", "sent"}
    /\ raced \in BOOLEAN
    /\ retries \in 0..MaxRetries
    /\ IsInformation(info)
    /\ grant \in Grants
    /\ held \in Tokens
    /\ held.id <= grant.id

\* What a call in progress is: the calls of clientPIN first ask for the key.
InCall ==
    /\ pc = "keyed" => /\ op.method \in ClientPINMethods
                       /\ op.method \notin TokenMethods => op.flow = "none"
    /\ pc = "sent" => op.method \in ClientPINMethods \union CommandMethods
    /\ pc = "idle" => ~raced
    /\ pc # "idle" => op.rp \in RPs

\* A call uses the key the authenticator has, unless another platform
\* interfered.
FreshKey == pc # "idle" /\ op.method \in ClientPINMethods /\ ~raced => op.key = key

\* A token request is one of a flow for its permissions.
Usable(i, perms) ==
    /\ "be" \in perms => bioEnrollmentMode(i) # "none"
    /\ perms \intersect {"cm", "pcmr"} # {} => credentialManagementMode(i) # "none"
    /\ "lbw" \in perms => On(i, "largeBlobs")

Requested ==
    pc # "idle" /\ op.method \in TokenMethods =>
       /\ op.flow \in Flows
       /\ op.perms \in SUBSET Permissions
       /\ flowProtocol(op.flow) # 0
       /\ op.perms \subseteq Issued(op.flow)

\* The flow gives out only what the Device can use, with the protocol it uses.
Honest ==
    pc # "idle" /\ op.method \in TokenMethods =>
       /\ Usable(info, op.perms)
       /\ flowProtocol(op.flow) = requirePinUvAuthProtocol(info)

\* The caller's token, while it is the authenticator's current one.
Current ==
    held.id = grant.id /\ held.id # 0 =>
       /\ held.perms \subseteq grant.perms
       /\ Usable(info, held.perms)
       /\ grant.protocol # 0
       /\ pinUvAuthProtocolForRequest(info, held.len) = grant.protocol

\* A request covered by the caller's token.
Covered ==
    pc = "sent" /\ op.method \in CommandMethods /\ op.covered /\ ~raced => Authorises

IInv == Types /\ InCall /\ FreshKey /\ Requested /\ AuthParamVerifies

\* What an authenticator's information says is coherent: a read-only token for
\* credential management comes with credential management, an authenticator
\* that has only the preview commands does not report their final options, and
\* one with uvToken prefers protocol 1, the only one of that flow.
Coherent(i) ==
    /\ On(i, "perCredMgmtRO") => credentialManagementMode(i) # "none"
    /\ IsPreviewOnly(i) => ~Reports(i, "credMgmt") /\ ~Reports(i, "bioEnroll")
    /\ IsPreviewOnly(i) /\ On(i, "uvToken") /\ ~FIPS => requirePinUvAuthProtocol(i) = 1

TInv == Coherent(info) /\ Honest /\ Current /\ Covered /\ GrantHonoured

-----------------------------------------------------------------------------
(* The requests of the client. *)

\* The parameter of a request was computed with protocol n and token t over the
\* message the authenticator rebuilds.
Verified(r, n, t) ==
    r.param.protocol = n /\ r.param.key = t /\ r.param.message = Authenticated(r)

\* A request of authenticatorBioEnrollment authenticates the parameters it sends.
LEMMA BioVerified ==
    ASSUME NEW preview \in BOOLEAN, NEW sub, NEW params, NEW n, NEW t, n # 0
    PROVE  Verified(client!BioRequest(preview, sub, params, n, t, params), n, t)
<1> DEFINE command == client!BioCommand(preview)
           message == <<client!Byte("fingerprint"), client!Byte(sub)>> \o params
           r == client!Request(command, sub, params, client!Authenticate(n, t, message))
<1>1. client!BioRequest(preview, sub, params, n, t, params) = r
  BY DEF client!BioRequest
<1>2. /\ r.command = command /\ r.sub = sub /\ r.params = params
      /\ r.param.protocol = n /\ r.param.key = t /\ r.param.message = message
  BY DEF client!Request, client!Authenticate
<1>3. command \in {"bioEnrollment", "prototypeBioEnrollment"}
  BY DEF client!BioCommand
<1> HIDE DEF command, r
<1>4. Authenticated(r) = <<client!Byte("fingerprint"), client!Byte(r.sub)>> \o r.params
  BY <1>2, <1>3 DEF Authenticated
<1> QED BY <1>1, <1>2, <1>4 DEF Verified

\* So does one of authenticatorCredentialManagement.
LEMMA CredentialVerified ==
    ASSUME NEW preview \in BOOLEAN, NEW sub, NEW params, NEW n, NEW t, n # 0
    PROVE  Verified(client!CredentialRequest(preview, sub, params, n, t, params), n, t)
<1> DEFINE command == client!CredentialCommand(preview)
           message == <<client!Byte(sub)>> \o params
           r == client!Request(command, sub, params, client!Authenticate(n, t, message))
<1>1. client!CredentialRequest(preview, sub, params, n, t, params) = r
  BY DEF client!CredentialRequest
<1>2. /\ r.command = command /\ r.sub = sub /\ r.params = params
      /\ r.param.protocol = n /\ r.param.key = t /\ r.param.message = message
  BY DEF client!Request, client!Authenticate
<1>3. command \in {"credentialManagement", "prototypeCredentialManagement"}
  BY DEF client!CredentialCommand
<1> HIDE DEF command, r
<1>4. Authenticated(r) = <<client!Byte(r.sub)>> \o r.params
  BY <1>2, <1>3 DEF Authenticated
<1> QED BY <1>1, <1>2, <1>4 DEF Verified

\* So does one of authenticatorConfig.
LEMMA ConfigVerified ==
    ASSUME NEW sub, NEW params, NEW n, NEW t, n # 0
    PROVE  Verified(client!ConfigRequest(sub, params, n, t), n, t)
<1> DEFINE message == <<client!Padding, client!Byte("0d"), client!Byte(sub)>> \o params
           r == client!Request("config", sub, params, client!Authenticate(n, t, message))
<1>1. client!ConfigRequest(sub, params, n, t) = r
  BY DEF client!ConfigRequest
<1>2. /\ r.command = "config" /\ r.sub = sub /\ r.params = params
      /\ r.param.protocol = n /\ r.param.key = t /\ r.param.message = message
  BY DEF client!Request, client!Authenticate
<1> HIDE DEF r
<1>4. Authenticated(r) = <<client!Padding, client!Byte("0d"), client!Byte(r.sub)>> \o r.params
  BY <1>2 DEF Authenticated
<1> QED BY <1>1, <1>2, <1>4 DEF Verified

\* A member of a CBOR map is found by its name.
LEMMA MemberFound ==
    ASSUME NEW params, NEW name, NEW value, <<name, value>> \in params,
           \A m \in params : m[1] = name => m = <<name, value>>
    PROVE  (CHOOSE m \in params : m[1] = name)[2] = value
<1>1. (CHOOSE m \in params : m[1] = name) = <<name, value>>
  <2>1. \E m \in params : m[1] = name
    OBVIOUS
  <2> QED BY <2>1
<1> QED BY <1>1

\* A fragment of the large-blob array is authenticated with its offset.
LEMMA LargeBlobVerified ==
    ASSUME NEW n, NEW t, n # 0
    PROVE  Verified(client!LargeBlobs(n, t, 0, <<"chunk">>, 960, 0), n, t)
<1> DEFINE set == <<"chunk">>
           params == {<<"set", set>>, <<"offset", 960>>}
           message == <<client!Padding, client!Byte("0c00"), <<"uint32", 960>>, client!Hash(set)>>
           r == client!Request("largeBlobs", "", params, client!Authenticate(n, t, message))
<1>0. set # <<>>
  OBVIOUS
<1> HIDE DEF set
<1>1. client!LargeBlobs(n, t, 0, set, 960, 0) = r
  <2> DEFINE members == (IF set = <<>> \/ 0 # 0 THEN {<<"get", 0>>} ELSE {})
                           \union (IF set = <<>> THEN {} ELSE {<<"set", set>>})
                           \union {<<"offset", 960>>} \union client!NonZero("length", 0)
  <2>1. members = params
    BY <1>0 DEF client!NonZero
  <2> DEFINE param == IF n = 0 THEN client!NoParam ELSE client!Authenticate(n, t, message)
             built == client!LargeBlobs(n, t, 0, set, 960, 0)
  <2>2. param = client!Authenticate(n, t, message)
    OBVIOUS
  <2>3. built = client!Request("largeBlobs", "", members, param)
    BY Zenon DEF client!LargeBlobs
  <2> HIDE DEF members, params, message, param, built
  <2>4. built = r
    BY <2>1, <2>2, <2>3
  <2> HIDE DEF r
  <2> QED BY <2>4 DEF built
<1>2. /\ r.command = "largeBlobs" /\ r.params = params
      /\ r.param.protocol = n /\ r.param.key = t /\ r.param.message = message
  BY DEF client!Request, client!Authenticate
<1>3. /\ <<"set", set>> \in params /\ <<"offset", 960>> \in params
      /\ \A m \in params : m[1] = "set" => m = <<"set", set>>
      /\ \A m \in params : m[1] = "offset" => m = <<"offset", 960>>
  OBVIOUS
<1> HIDE DEF r, params
<1>4. (CHOOSE m \in params : m[1] = "set")[2] = set /\ (CHOOSE m \in params : m[1] = "offset")[2] = 960
  BY <1>3, MemberFound
<1>5. Authenticated(r) = <<client!Padding, client!Byte("0c00"),
                           <<"uint32", (CHOOSE m \in params : m[1] = "offset")[2]>>,
                           client!Hash((CHOOSE m \in params : m[1] = "set")[2])>>
  BY <1>2 DEF Authenticated
<1>6. Verified(client!LargeBlobs(n, t, 0, set, 960, 0), n, t)
  BY <1>1, <1>2, <1>4, <1>5 DEF Verified
<1> QED BY <1>6 DEF set

\* A new PIN is authenticated with the secret agreed on.
LEMMA SetPINVerified ==
    ASSUME NEW n, NEW k, NEW p
    PROVE  Verified(client!SetPIN(n, k, p), n, client!Encapsulate(n, k))
<1> DEFINE secret == client!Encapsulate(n, k)
           new == client!encryptNewPIN(secret, p)
           params == {<<"keyAgreement", secret>>, <<"newPinEnc", new>>}
           r == client!Request("clientPIN", "setPIN", params, client!Authenticate(n, secret, <<new>>))
<1>1. client!SetPIN(n, k, p) = r
  BY DEF client!SetPIN, client!ClientPIN
<1> HIDE DEF new, secret
<1>2. /\ r.command = "clientPIN" /\ r.sub = "setPIN" /\ r.params = params
      /\ r.param.protocol = n /\ r.param.key = secret /\ r.param.message = <<new>>
  BY DEF client!Request, client!Authenticate
<1>3. <<"newPinEnc", new>> \in params /\ \A m \in params : m[1] = "newPinEnc" => m = <<"newPinEnc", new>>
  OBVIOUS
<1> HIDE DEF r, params
<1>4. (CHOOSE m \in params : m[1] = "newPinEnc")[2] = new
  BY <1>3, MemberFound
<1>5. Authenticated(r) = <<(CHOOSE m \in params : m[1] = "newPinEnc")[2]>>
  BY <1>2 DEF Authenticated
<1>6. Verified(r, n, secret)
  BY <1>2, <1>4, <1>5 DEF Verified
<1> QED BY <1>1, <1>6 DEF secret

\* A change of the PIN is authenticated with both ciphertexts.
LEMMA ChangePINVerified ==
    ASSUME NEW n, NEW k, NEW p, NEW q
    PROVE  Verified(client!ChangePIN(n, k, p, q), n, client!Encapsulate(n, k))
<1> DEFINE secret == client!Encapsulate(n, k)
           new == client!encryptNewPIN(secret, q)
           hash == client!encryptPINHash(secret, p)
           params == {<<"keyAgreement", secret>>, <<"newPinEnc", new>>, <<"pinHashEnc", hash>>}
           r == client!Request("clientPIN", "changePIN", params,
                               client!Authenticate(n, secret, <<new, hash>>))
<1>1. client!ChangePIN(n, k, p, q) = r
  BY DEF client!ChangePIN, client!ClientPIN
<1> HIDE DEF new, hash, secret
<1>2. /\ r.command = "clientPIN" /\ r.sub = "changePIN" /\ r.params = params
      /\ r.param.protocol = n /\ r.param.key = secret /\ r.param.message = <<new, hash>>
  BY DEF client!Request, client!Authenticate
<1>3. /\ <<"newPinEnc", new>> \in params /\ <<"pinHashEnc", hash>> \in params
      /\ \A m \in params : m[1] = "newPinEnc" => m = <<"newPinEnc", new>>
      /\ \A m \in params : m[1] = "pinHashEnc" => m = <<"pinHashEnc", hash>>
  OBVIOUS
<1> HIDE DEF r, params
<1>4. /\ (CHOOSE m \in params : m[1] = "newPinEnc")[2] = new
      /\ (CHOOSE m \in params : m[1] = "pinHashEnc")[2] = hash
  BY <1>3, MemberFound
<1>5. Authenticated(r) = <<(CHOOSE m \in params : m[1] = "newPinEnc")[2],
                           (CHOOSE m \in params : m[1] = "pinHashEnc")[2]>>
  BY <1>2 DEF Authenticated
<1>6. Verified(r, n, secret)
  BY <1>2, <1>4, <1>5 DEF Verified
<1> QED BY <1>1, <1>6 DEF secret

\* A token request carries no parameter.
LEMMA Unauthenticated ==
    ASSUME NEW n, NEW k, NEW p, NEW perms, NEW rp
    PROVE  /\ client!GetPinToken(n, k, p).param.protocol = 0
           /\ client!GetPinUvAuthTokenUsingPinWithPermissions(n, k, p, perms, rp).param.protocol = 0
           /\ client!GetPinUvAuthTokenUsingUv(k, rp).param.protocol = 0
           /\ client!GetPinUvAuthTokenUsingUvWithPermissions(n, k, perms, rp).param.protocol = 0
           /\ client!GetInfo.param.protocol = 0
<1>1. \A sub, params : client!ClientPIN(sub, params, client!NoParam).param.protocol = 0
  BY DEF client!ClientPIN, client!Request, client!NoParam
<1>2. client!GetPinToken(n, k, p).param.protocol = 0
  BY <1>1 DEF client!GetPinToken
<1>3. client!GetPinUvAuthTokenUsingPinWithPermissions(n, k, p, perms, rp).param.protocol = 0
  BY <1>1 DEF client!GetPinUvAuthTokenUsingPinWithPermissions
<1>4. client!GetPinUvAuthTokenUsingUv(k, rp).param.protocol = 0
  BY <1>1 DEF client!GetPinUvAuthTokenUsingUv, client!getPinUvAuthTokenUsingUv
<1>5. client!GetPinUvAuthTokenUsingUvWithPermissions(n, k, perms, rp).param.protocol = 0
  BY <1>1 DEF client!GetPinUvAuthTokenUsingUvWithPermissions, client!getPinUvAuthTokenUsingUv
<1>6. client!GetInfo.param.protocol = 0
  BY DEF client!GetInfo, client!Request, client!NoParam
<1> QED BY <1>2, <1>3, <1>4, <1>5, <1>6

\* A request has no parameter, or one that verifies.
Proper(r, n, t) == r.param.protocol = 0 \/ Verified(r, n, t)

\* Every command is built with a parameter that verifies, or without one.
LEMMA BuildProper ==
    ASSUME NEW m \in CommandMethods, NEW n, NEW t
    PROVE  Proper(Build(m, n, t), n, t)
<1> DEFINE bio == bioEnrollmentMode(info) = "preview"
           cred == credentialManagementMode(info) = "preview"
<1>0. bio \in BOOLEAN /\ cred \in BOOLEAN
  OBVIOUS
<1>1. \A b \in BOOLEAN : \A sub, params : Proper(client!BioRequest(b, sub, params, n, t, params), n, t)
  <2> SUFFICES ASSUME NEW b \in BOOLEAN, NEW sub, NEW params
               PROVE  Proper(client!BioRequest(b, sub, params, n, t, params), n, t)
    OBVIOUS
  <2>1. CASE n = 0
    BY <2>1 DEF Proper, client!BioRequest, client!Request, client!NoParam
  <2>2. CASE n # 0
    BY <2>2, BioVerified DEF Proper
  <2> QED BY <2>1, <2>2
<1>2. \A b \in BOOLEAN : \A sub, params : Proper(client!CredentialRequest(b, sub, params, n, t, params), n, t)
  <2> SUFFICES ASSUME NEW b \in BOOLEAN, NEW sub, NEW params
               PROVE  Proper(client!CredentialRequest(b, sub, params, n, t, params), n, t)
    OBVIOUS
  <2>1. CASE n = 0
    BY <2>1 DEF Proper, client!CredentialRequest, client!Request, client!NoParam
  <2>2. CASE n # 0
    BY <2>2, CredentialVerified DEF Proper
  <2> QED BY <2>1, <2>2
<1>3. \A sub, params : Proper(client!ConfigRequest(sub, params, n, t), n, t)
  <2> SUFFICES ASSUME NEW sub, NEW params
               PROVE  Proper(client!ConfigRequest(sub, params, n, t), n, t)
    OBVIOUS
  <2>1. CASE n = 0
    BY <2>1 DEF Proper, client!ConfigRequest, client!Request, client!NoParam
  <2>2. CASE n # 0
    BY <2>2, ConfigVerified DEF Proper
  <2> QED BY <2>1, <2>2
<1>4. \A command, sub, params : Proper(client!Request(command, sub, params, client!NoParam), n, t)
  BY DEF Proper, client!Request, client!NoParam
<1>5. \A members : members # {} => client!OmitZero(members) = <<client!Map(members)>>
  BY DEF client!OmitZero
<1> HIDE DEF bio, cred
<1>6. Proper(client!EnrollBegin(bio, n, t, 0), n, t)
  <2>1. client!NonZero("timeout", 0) = {} /\ client!OmitZero({}) = <<>>
    BY DEF client!NonZero, client!OmitZero
  <2> QED BY <1>0, <1>1, <2>1 DEF client!EnrollBegin
<1>7. Proper(client!EnrollBegin(bio, n, t, 5), n, t)
  <2>1. client!NonZero("timeout", 5) # {} /\ 5 # 0
    BY DEF client!NonZero
  <2>2. client!OmitZero(client!NonZero("timeout", 5)) = <<client!Map(client!NonZero("timeout", 5))>>
    BY <1>5, <2>1
  <2> QED BY <1>0, <1>1, <2>1, <2>2 DEF client!EnrollBegin
<1>8. Proper(client!EnrollCaptureNextSample(bio, n, t, "template", 0), n, t)
  <2> DEFINE params == {<<"templateId", "template">>} \union client!NonZero("timeout", 0)
  <2>1. params # {}
    OBVIOUS
  <2> HIDE DEF params
  <2>2. client!OmitZero(params) = <<client!Map(params)>>
    BY <1>5, <2>1
  <2>3. client!EnrollCaptureNextSample(bio, n, t, "template", 0)
           = client!BioRequest(bio, "enrollCaptureNextSample", client!OmitZero(params), n, t,
                               <<client!Map(params)>>)
    BY DEF client!EnrollCaptureNextSample, params
  <2> QED BY <1>0, <1>1, <2>2, <2>3
<1>9. Proper(client!EnumerateEnrollments(bio, n, t), n, t)
  BY <1>0, <1>1 DEF client!EnumerateEnrollments
<1>10. Proper(client!SetFriendlyName(bio, n, t, "template", ""), n, t)
  <2> DEFINE params == {<<"templateId", "template">>, <<"friendlyName", "">>}
  <2>1. params # {}
    OBVIOUS
  <2>2. client!SetFriendlyName(bio, n, t, "template", "")
           = client!BioRequest(bio, "setFriendlyName", client!OmitZero(params), n, t,
                               <<client!Map(params)>>)
    BY DEF client!SetFriendlyName
  <2> HIDE DEF params
  <2>3. client!OmitZero(params) = <<client!Map(params)>>
    BY <1>5, <2>1
  <2> QED BY <1>0, <1>1, <2>2, <2>3
<1>11. Proper(client!RemoveEnrollment(bio, n, t, "template"), n, t)
  <2> DEFINE params == {<<"templateId", "template">>}
  <2>1. params # {}
    OBVIOUS
  <2>2. client!RemoveEnrollment(bio, n, t, "template")
           = client!BioRequest(bio, "removeEnrollment", client!OmitZero(params), n, t,
                               <<client!Map(params)>>)
    BY DEF client!RemoveEnrollment
  <2> HIDE DEF params
  <2>3. client!OmitZero(params) = <<client!Map(params)>>
    BY <1>5, <2>1
  <2> QED BY <1>0, <1>1, <2>2, <2>3
<1>12. /\ Proper(client!GetBioModality(bio), n, t)
       /\ Proper(client!GetFingerprintSensorInfo(bio), n, t)
       /\ Proper(client!CancelCurrentEnrollment(bio), n, t)
  <2>1. \A sub, params : client!BioRequest(bio, sub, params, 0, 0, <<>>)
                            = client!Request(client!BioCommand(bio), sub, params, client!NoParam)
    BY DEF client!BioRequest
  <2> QED BY <1>4, <2>1 DEF client!GetBioModality, client!GetFingerprintSensorInfo,
                            client!CancelCurrentEnrollment
<1>13. Proper(client!GetCredsMetadata(cred, n, t), n, t) /\ Proper(client!EnumerateRPsBegin(cred, n, t), n, t)
  BY <1>0, <1>2 DEF client!GetCredsMetadata, client!EnumerateRPsBegin
<1>14. Proper(client!EnumerateCredentialsBegin(cred, n, t, "rpIDHash"), n, t)
  <2> DEFINE params == {<<"rpIDHash", "rpIDHash">>}
  <2>1. params # {}
    OBVIOUS
  <2>2. client!EnumerateCredentialsBegin(cred, n, t, "rpIDHash")
           = client!CredentialRequest(cred, "enumerateCredentialsBegin", client!OmitZero(params), n, t,
                                      <<client!Map(params)>>)
    BY DEF client!EnumerateCredentialsBegin
  <2> HIDE DEF params
  <2>3. client!OmitZero(params) = <<client!Map(params)>>
    BY <1>5, <2>1
  <2> QED BY <1>0, <1>2, <2>2, <2>3
<1>15. Proper(client!DeleteCredential(cred, n, t, "credential"), n, t)
  <2> DEFINE params == {<<"credentialID", "credential">>}
  <2>1. params # {}
    OBVIOUS
  <2>2. client!DeleteCredential(cred, n, t, "credential")
           = client!CredentialRequest(cred, "deleteCredential", client!OmitZero(params), n, t,
                                      <<client!Map(params)>>)
    BY DEF client!DeleteCredential
  <2> HIDE DEF params
  <2>3. client!OmitZero(params) = <<client!Map(params)>>
    BY <1>5, <2>1
  <2> QED BY <1>0, <1>2, <2>2, <2>3
<1>16. Proper(client!UpdateUserInformation(cred, n, t, "credential", "user"), n, t)
  <2> DEFINE params == {<<"credentialID", "credential">>, <<"user", "user">>}
  <2>1. params # {}
    OBVIOUS
  <2>2. client!UpdateUserInformation(cred, n, t, "credential", "user")
           = client!CredentialRequest(cred, "updateUserInformation", client!OmitZero(params), n, t,
                                      <<client!Map(params)>>)
    BY DEF client!UpdateUserInformation
  <2> HIDE DEF params
  <2>3. client!OmitZero(params) = <<client!Map(params)>>
    BY <1>5, <2>1
  <2> QED BY <1>0, <1>2, <2>2, <2>3
<1>17. Proper(client!LargeBlobs(n, t, 0, <<"chunk">>, 960, 0), n, t)
  <2>1. CASE n = 0
    BY <2>1 DEF Proper, client!LargeBlobs, client!Request, client!NoParam
  <2>2. CASE n # 0
    BY <2>2, LargeBlobVerified DEF Proper
  <2> QED BY <2>1, <2>2
<1>18. /\ Proper(client!EnableEnterpriseAttestation(n, t), n, t)
       /\ Proper(client!ToggleAlwaysUV(n, t), n, t)
       /\ Proper(client!EnableLongTouchForReset(n, t), n, t)
       /\ Proper(client!SetMinPINLength(n, t, {}), n, t)
  BY <1>3 DEF client!EnableEnterpriseAttestation, client!ToggleAlwaysUV,
              client!EnableLongTouchForReset, client!SetMinPINLength
<1>19. \A k : Proper(client!GetPINRetries(k), n, t) /\ Proper(client!GetUVRetries(k), n, t)
  BY <1>4 DEF client!GetPINRetries, client!GetUVRetries, client!ClientPIN
<1>20. Proper(client!Selection, n, t)
  BY <1>4 DEF client!Selection
<1>21. Proper(client!MakeCredential(n, t, "clientDataHash", TRUE), n, t)
  BY DEF Proper, Verified, Authenticated, client!MakeCredential, client!Request, client!NoParam,
         client!Authenticate
<1>22. Proper(client!GetAssertion(n, t, "clientDataHash"), n, t)
  BY DEF Proper, Verified, Authenticated, client!GetAssertion, client!Request, client!NoParam,
         client!Authenticate
<1>23. m \in {"EnrollBegin", "EnrollBeginTimeout", "EnrollCaptureNextSample", "EnumerateEnrollments",
              "SetFriendlyName", "RemoveEnrollment", "GetBioModality", "GetFingerprintSensorInfo",
              "CancelCurrentEnrollment", "GetCredsMetadata", "EnumerateRPs", "EnumerateCredentials",
              "DeleteCredential", "UpdateUserInformation", "SetLargeBlobs",
              "enableEnterpriseAttestation", "toggleAlwaysUv", "setMinPINLength",
              "enableLongTouchForReset", "GetPINRetries", "GetUVRetries", "Selection",
              "MakeCredential", "GetAssertion"}
  BY DEF CommandMethods, BioMethods, ReadCredMethods, WriteCredMethods, ConfigMethods
<1>24. CASE m = "EnrollBegin"
  BY <1>6, <1>24 DEF Build, bio, cred
<1>25. CASE m = "EnrollBeginTimeout"
  BY <1>7, <1>25 DEF Build, bio, cred
<1>26. CASE m = "EnrollCaptureNextSample"
  BY <1>8, <1>26 DEF Build, bio, cred
<1>27. CASE m = "EnumerateEnrollments"
  BY <1>9, <1>27 DEF Build, bio, cred
<1>28. CASE m = "SetFriendlyName"
  BY <1>10, <1>28 DEF Build, bio, cred
<1>29. CASE m = "RemoveEnrollment"
  BY <1>11, <1>29 DEF Build, bio, cred
<1>30. CASE m = "GetBioModality" \/ m = "GetFingerprintSensorInfo" \/ m = "CancelCurrentEnrollment"
  <2>1. CASE m = "GetBioModality"
    BY <1>12, <2>1 DEF Build, bio, cred
  <2>2. CASE m = "GetFingerprintSensorInfo"
    BY <1>12, <2>2 DEF Build, bio, cred
  <2>3. CASE m = "CancelCurrentEnrollment"
    BY <1>12, <2>3 DEF Build, bio, cred
  <2> QED BY <1>30, <2>1, <2>2, <2>3
<1>31. CASE m = "GetCredsMetadata" \/ m = "EnumerateRPs"
  <2>1. CASE m = "GetCredsMetadata"
    BY <1>13, <2>1 DEF Build, bio, cred
  <2>2. CASE m = "EnumerateRPs"
    BY <1>13, <2>2 DEF Build, bio, cred
  <2> QED BY <1>31, <2>1, <2>2
<1>32. CASE m = "EnumerateCredentials"
  BY <1>14, <1>32 DEF Build, bio, cred
<1>33. CASE m = "DeleteCredential"
  BY <1>15, <1>33 DEF Build, bio, cred
<1>34. CASE m = "UpdateUserInformation"
  BY <1>16, <1>34 DEF Build, bio, cred
<1>35. CASE m = "SetLargeBlobs"
  BY <1>17, <1>35 DEF Build, bio, cred
<1>36. CASE m \in {"enableEnterpriseAttestation", "toggleAlwaysUv", "setMinPINLength", "enableLongTouchForReset"}
  <2>1. CASE m = "enableEnterpriseAttestation"
    BY <1>18, <2>1 DEF Build, bio, cred
  <2>2. CASE m = "toggleAlwaysUv"
    BY <1>18, <2>2 DEF Build, bio, cred
  <2>3. CASE m = "setMinPINLength"
    BY <1>18, <2>3 DEF Build, bio, cred
  <2>4. CASE m = "enableLongTouchForReset"
    BY <1>18, <2>4 DEF Build, bio, cred
  <2> QED BY <1>36, <2>1, <2>2, <2>3, <2>4
<1>37. CASE m = "GetPINRetries" \/ m = "GetUVRetries"
  <2>1. CASE m = "GetPINRetries"
    BY <1>19, <2>1 DEF Build, bio, cred
  <2>2. CASE m = "GetUVRetries"
    BY <1>19, <2>2 DEF Build, bio, cred
  <2> QED BY <1>37, <2>1, <2>2
<1>38. CASE m = "Selection"
  BY <1>20, <1>38 DEF Build, bio, cred
<1>39. CASE m = "MakeCredential"
  BY <1>21, <1>39 DEF Build, bio, cred
<1>40. CASE m = "GetAssertion"
  BY <1>22, <1>40 DEF Build, bio, cred
<1> QED
  BY <1>23, <1>24, <1>25, <1>26, <1>27, <1>28, <1>29, <1>30, <1>31, <1>32,
     <1>33, <1>34, <1>35, <1>36, <1>37, <1>38, <1>39, <1>40

-----------------------------------------------------------------------------
(* Protocols and flows. *)

\* The protocols the library uses.
LEMMA ProtocolRange ==
    /\ \A i : requirePinUvAuthProtocol(i) \in {0, 1, 2}
    /\ \A f : flowProtocol(f) \in {0, 1, 2}
<1>1. ASSUME NEW i PROVE requirePinUvAuthProtocol(i) \in {0, 1, 2}
  <2> DEFINE usable(n) == n \in {1, 2} /\ ValidateFIPS140UvAuthProtocol(n)
             first == {k \in DOMAIN i.protocols : /\ usable(i.protocols[k])
                                                  /\ \A j \in 1..(k - 1) : ~usable(i.protocols[j])}
             found == CHOOSE k \in first : TRUE
  <2>1. requirePinUvAuthProtocol(i) \in {0, 1} \/ (first # {} /\ requirePinUvAuthProtocol(i) = i.protocols[found])
    BY DEF requirePinUvAuthProtocol
  <2>2. first # {} => found \in first
    OBVIOUS
  <2>3. \A k \in first : i.protocols[k] \in {1, 2}
    OBVIOUS
  <2> HIDE DEF first, found
  <2> QED BY <2>1, <2>2, <2>3
<1> QED BY <1>1 DEF flowProtocol

\* The flows of a PIN, and the permissions each gives out.
LEMMA PINFlow ==
    ASSUME NEW i, NEW perms \in SUBSET Permissions, NEW rp, NEW flow,
           flow = selectPinTokenFlowUsingPIN(i, perms, rp), flow # "refused"
    PROVE  /\ flow \in {"legacy", "permissions"}
           /\ flow = "legacy" => perms \subseteq McGa \union (IF IsPreviewOnly(i) THEN {"cm", "be"} ELSE {})
           /\ Coherent(i) => Usable(i, perms)
<1>1. /\ flow \in {"legacy", "permissions"}
      /\ flow = "legacy" => perms \subseteq McGa \union (IF IsPreviewOnly(i) THEN {"cm", "be"} ELSE {})
  BY DEF selectPinTokenFlowUsingPIN
<1>2. /\ "cm" \in perms => IF IsPreviewOnly(i) THEN credentialManagementMode(i) # "none"
                           ELSE On(i, "credMgmt")
      /\ "be" \in perms => IF IsPreviewOnly(i) THEN bioEnrollmentMode(i) # "none"
                           ELSE Reports(i, "bioEnroll")
      /\ "lbw" \in perms => On(i, "largeBlobs")
      /\ "pcmr" \in perms => On(i, "perCredMgmtRO")
  BY DEF selectPinTokenFlowUsingPIN
<1>3. ~IsPreviewOnly(i) => /\ On(i, "credMgmt") => credentialManagementMode(i) # "none"
                           /\ Reports(i, "bioEnroll") => bioEnrollmentMode(i) # "none"
  BY DEF credentialManagementMode, bioEnrollmentMode
<1>4. Coherent(i) => Usable(i, perms)
  BY <1>2, <1>3 DEF Coherent, Usable
<1> QED BY <1>1, <1>4

\* The flows of built-in user verification, and the permissions each gives out.
LEMMA UVFlow ==
    ASSUME NEW i, NEW perms \in SUBSET Permissions, NEW rp, NEW flow,
           flow = selectPinUvAuthTokenFlowUsingUV(i, perms, rp), flow # "refused"
    PROVE  /\ flow \in {"previewUv", "uvPermissions"}
           /\ flow = "previewUv" => /\ IsPreviewOnly(i) /\ On(i, "uvToken")
                                    /\ perms \subseteq McGa \union {"cm", "be"}
           /\ Coherent(i) => Usable(i, perms)
<1> DEFINE legacy == McGa \union (IF credentialManagementMode(i) # "none" THEN {"cm"} ELSE {})
                          \union (IF bioEnrollmentMode(i) # "none" THEN {"be"} ELSE {})
<1>1. /\ flow \in {"previewUv", "uvPermissions"}
      /\ flow = "previewUv" => IsPreviewOnly(i) /\ On(i, "uvToken") /\ perms \subseteq legacy
      /\ flow = "uvPermissions" => /\ "cm" \in perms => On(i, "credMgmt")
                                   /\ "be" \in perms => Reports(i, "bioEnroll")
                                   /\ "lbw" \in perms => On(i, "largeBlobs")
                                   /\ "pcmr" \in perms => On(i, "perCredMgmtRO")
  BY DEF selectPinUvAuthTokenFlowUsingUV
<1>2. legacy \subseteq McGa \union {"cm", "be"}
  OBVIOUS
<1>3. ~IsPreviewOnly(i) => /\ On(i, "credMgmt") => credentialManagementMode(i) # "none"
                           /\ Reports(i, "bioEnroll") => bioEnrollmentMode(i) # "none"
  BY DEF credentialManagementMode, bioEnrollmentMode
<1>4. CASE flow = "uvPermissions"
  <2>1. Coherent(i) => Usable(i, perms)
    BY <1>1, <1>3, <1>4 DEF Coherent, Usable, On
  <2> QED BY <1>1, <1>4, <2>1
<1>5. CASE flow = "previewUv"
  <2>1. Usable(i, perms)
    BY <1>1, <1>5 DEF Usable, McGa
  <2> QED BY <1>1, <1>2, <1>5, <2>1
<1> QED BY <1>1, <1>4, <1>5

-----------------------------------------------------------------------------
(* What a call of the Device does. *)

\* It is refused before anything is sent.
Refused ==
    /\ pc = "idle" /\ pc' = "idle" /\ raced' = FALSE
    /\ op' = Idle /\ req' = client!GetInfo /\ last' = Accepted
    /\ UNCHANGED <<info, pin, retries, key, grant, held>>

\* It asks for the authenticator's key.
Asked(o) ==
    /\ o.method \in ClientPINMethods /\ o.key = key /\ o.rp \in RPs
    /\ o.method \notin TokenMethods => o.flow = "none"
    /\ o.method \in TokenMethods =>
          /\ o.perms \in SUBSET Permissions
          /\ flowProtocol(o.flow) # 0 /\ o.flow # "refused"
          /\ \/ o.flow = selectPinTokenFlowUsingPIN(info, o.perms, o.rp)
             \/ o.flow = selectPinUvAuthTokenFlowUsingUV(info, o.perms, o.rp)

Asks(o) ==
    /\ pc = "idle" /\ pc' = "keyed" /\ op' = o /\ last' = Accepted
    /\ Asked(o)
    /\ UNCHANGED <<info, pin, retries, key, grant, held, req, raced>>

\* It is a command, which the Device supports for the permissions it gives out.
Supported(c, t) ==
    /\ c.method \in CommandMethods
    /\ c.perms \in SUBSET Permissions
    /\ t.id # 0 /\ Usable(info, t.perms) /\ c.perms \intersect t.perms # {} =>
          c.supported \/ c.method \in ConfigMethods

\* A call of clientPIN is refused or asks for the key.
LEMMA KeyAgreementStep ==
    ASSUME NEW method \in ClientPINMethods, NEW perms, NEW rp \in RPs, NEW flow, NEW o,
           {"method", "perms", "rp", "key", "flow"} \subseteq DOMAIN o,
           o.perms = perms, o.rp = rp, o.flow = flow,
           method \notin TokenMethods => flow = "none",
           NEW checked, KeyAgreement(method, o, checked),
           checked /\ method \in TokenMethods =>
              /\ perms \in SUBSET Permissions
              /\ flow # "refused"
              /\ \/ flow = selectPinTokenFlowUsingPIN(info, perms, rp)
                 \/ flow = selectPinUvAuthTokenFlowUsingUV(info, perms, rp)
    PROVE  Refused \/ \E x : Asks(x)
<1>1. CASE checked /\ flowProtocol(o.flow) # 0
  <2> DEFINE x == [o EXCEPT !.method = method, !.key = key]
  <2>2. x.method = method /\ x.key = key /\ x.rp = rp /\ x.perms = perms /\ x.flow = flow
    OBVIOUS
  <2>1. x = [o EXCEPT !.method = method, !.key = key]
    OBVIOUS
  <2> HIDE DEF x
  <2>3. Asked(x)
    BY <1>1, <2>2 DEF Asked
  <2>4. Asks(x)
    BY <1>1, <2>1, <2>3 DEF KeyAgreement, Asks
  <2> QED BY <2>4
<1>2. CASE ~(checked /\ flowProtocol(o.flow) # 0)
  BY <1>2 DEF KeyAgreement, Return, Refused
<1> QED BY <1>1, <1>2

\* The calls of clientPIN.
LEMMA ClientPINCalls ==
    ASSUME \/ \E p \in Pins : SetPIN(p)
           \/ \E p, q \in Pins : ChangePIN(p, q)
           \/ \E p \in Pins, perms \in PermSets, rp \in RPs : GetPinUvAuthTokenUsingPIN(p, perms, rp)
           \/ \E perms \in PermSets, rp \in RPs : GetPinUvAuthTokenUsingUV(perms, rp)
    PROVE  Refused \/ \E x : Asks(x)
<1>0. NoRP \in RPs /\ PermSets \subseteq SUBSET Permissions
  BY TokenAssumption
<1>1. ASSUME NEW p \in Pins, SetPIN(p) PROVE Refused \/ \E x : Asks(x)
  <2> DEFINE o == [Idle EXCEPT !.new = p]
             checked == /\ Reports(info, "clientPin") /\ ~On(info, "clientPin")
                        /\ normalizeAndValidateNewPIN(p)
  <2>1. /\ {"method", "perms", "rp", "key", "flow"} \subseteq DOMAIN o
        /\ o.perms = {} /\ o.rp = NoRP /\ o.flow = "none"
    BY DEF Idle
  <2>2. KeyAgreement("SetPIN", o, checked)
    BY <1>1 DEF SetPIN
  <2>3. "SetPIN" \in ClientPINMethods /\ "SetPIN" \notin TokenMethods
    BY DEF ClientPINMethods, TokenMethods
  <2> HIDE DEF o, checked
  <2> QED BY <1>0, <2>1, <2>2, <2>3, KeyAgreementStep
<1>2. ASSUME NEW p \in Pins, NEW q \in Pins, ChangePIN(p, q) PROVE Refused \/ \E x : Asks(x)
  <2> DEFINE o == [Idle EXCEPT !.pin = p, !.new = q]
             checked == /\ On(info, "clientPin")
                        /\ normalizeAndValidateCurrentPIN(p) /\ normalizeAndValidateNewPIN(q)
  <2>1. /\ {"method", "perms", "rp", "key", "flow"} \subseteq DOMAIN o
        /\ o.perms = {} /\ o.rp = NoRP /\ o.flow = "none"
    BY DEF Idle
  <2>2. KeyAgreement("ChangePIN", o, checked)
    BY <1>2 DEF ChangePIN
  <2>3. "ChangePIN" \in ClientPINMethods /\ "ChangePIN" \notin TokenMethods
    BY DEF ClientPINMethods, TokenMethods
  <2> HIDE DEF o, checked
  <2> QED BY <1>0, <2>1, <2>2, <2>3, KeyAgreementStep
<1>3. ASSUME NEW p \in Pins, NEW perms \in PermSets, NEW rp \in RPs,
             GetPinUvAuthTokenUsingPIN(p, perms, rp)
      PROVE  Refused \/ \E x : Asks(x)
  <2> DEFINE flow == selectPinTokenFlowUsingPIN(info, perms, rp)
             o == [Idle EXCEPT !.pin = p, !.perms = perms, !.rp = rp, !.flow = flow]
             checked == /\ ~info.forcePINChange
                        /\ normalizeAndValidateCurrentPIN(p)
                        /\ flow # "refused"
  <2>1. /\ {"method", "perms", "rp", "key", "flow"} \subseteq DOMAIN o
        /\ o.perms = perms /\ o.rp = rp /\ o.flow = flow
    BY DEF Idle
  <2>2. KeyAgreement("GetTokenPIN", o, checked)
    BY <1>3 DEF GetPinUvAuthTokenUsingPIN
  <2>3. "GetTokenPIN" \in ClientPINMethods /\ "GetTokenPIN" \in TokenMethods
    BY DEF ClientPINMethods, TokenMethods
  <2>4. checked => flow # "refused"
    OBVIOUS
  <2>5. flow = selectPinTokenFlowUsingPIN(info, perms, rp)
    OBVIOUS
  <2> HIDE DEF o, checked, flow
  <2> QED BY <1>0, <2>1, <2>2, <2>3, <2>4, <2>5, KeyAgreementStep
<1>4. ASSUME NEW perms \in PermSets, NEW rp \in RPs, GetPinUvAuthTokenUsingUV(perms, rp)
      PROVE  Refused \/ \E x : Asks(x)
  <2> DEFINE flow == selectPinUvAuthTokenFlowUsingUV(info, perms, rp)
             o == [Idle EXCEPT !.perms = perms, !.rp = rp, !.flow = flow]
             checked == flow # "refused"
  <2>1. /\ {"method", "perms", "rp", "key", "flow"} \subseteq DOMAIN o
        /\ o.perms = perms /\ o.rp = rp /\ o.flow = flow
    BY DEF Idle
  <2>2. KeyAgreement("GetTokenUV", o, checked)
    BY <1>4 DEF GetPinUvAuthTokenUsingUV
  <2>3. "GetTokenUV" \in ClientPINMethods /\ "GetTokenUV" \in TokenMethods
    BY DEF ClientPINMethods, TokenMethods
  <2>4. checked => flow # "refused"
    OBVIOUS
  <2>5. flow = selectPinUvAuthTokenFlowUsingUV(info, perms, rp)
    OBVIOUS
  <2> HIDE DEF o, checked, flow
  <2> QED BY <1>0, <2>1, <2>2, <2>3, <2>4, <2>5, KeyAgreementStep
<1> QED BY <1>1, <1>2, <1>3, <1>4

\* The methods that take a token support the permissions they ask for, when the
\* information says that the permissions are of use.
LEMMA CallSupported ==
    ASSUME NEW c \in Calls, NEW T
    PROVE  /\ c.method \in CommandMethods
           /\ c.perms \in SUBSET Permissions
           /\ Usable(info, T) /\ c.perms \intersect T # {} =>
                 c.supported \/ c.method \in ConfigMethods
<1> DEFINE Goal == /\ c.method \in CommandMethods
                   /\ c.perms \in SUBSET Permissions
                   /\ Usable(info, T) /\ c.perms \intersect T # {} =>
                         c.supported \/ c.method \in ConfigMethods
<1>1. ASSUME NEW m, NEW perms, NEW s, NEW r, c = Call(m, perms, s, r),
             m \in CommandMethods, perms \in SUBSET Permissions,
             Usable(info, T) /\ perms \intersect T # {} => s \/ m \in ConfigMethods
      PROVE  Goal
  <2>1. c.method = m /\ c.perms = perms /\ c.supported = s
    BY <1>1 DEF Call
  <2> QED BY <1>1, <2>1
<1> HIDE DEF Goal
<1>2. ASSUME NEW m \in BioMethods, c = Call(m, {"be"}, bioEnrollmentMode(info) # "none", TRUE)
      PROVE  Goal
  <2>1. m \in CommandMethods /\ {"be"} \in SUBSET Permissions
    BY DEF CommandMethods, Permissions
  <2>2. Usable(info, T) /\ {"be"} \intersect T # {} => bioEnrollmentMode(info) # "none"
    BY DEF Usable
  <2> DEFINE s == bioEnrollmentMode(info) # "none"
  <2> HIDE DEF s
  <2> QED BY <1>1, <1>2, <2>1, <2>2 DEF s
<1>3. ASSUME NEW m \in ReadCredMethods,
             c = Call(m, {"cm", "pcmr"}, credentialManagementMode(info) # "none", TRUE)
      PROVE  Goal
  <2>1. m \in CommandMethods /\ {"cm", "pcmr"} \in SUBSET Permissions
    BY DEF CommandMethods, Permissions
  <2>2. Usable(info, T) /\ {"cm", "pcmr"} \intersect T # {} => credentialManagementMode(info) # "none"
    BY DEF Usable
  <2> QED BY <1>1, <1>3, <2>1, <2>2
<1>4. ASSUME NEW m \in WriteCredMethods,
             c = Call(m, {"cm"}, credentialManagementMode(info) # "none", TRUE)
      PROVE  Goal
  <2>1. m \in CommandMethods /\ {"cm"} \in SUBSET Permissions
    BY DEF CommandMethods, Permissions
  <2>2. Usable(info, T) /\ {"cm"} \intersect T # {} => credentialManagementMode(info) # "none"
    BY DEF Usable
  <2> QED BY <1>1, <1>4, <2>1, <2>2
<1>5. ASSUME NEW m \in ConfigMethods,
             c = Call(m, {"acfg"}, validateAuthenticatorConfigCommand(info, m) /\ ConfigFeature(m),
                      configAuthorizationRequired(info, m))
      PROVE  Goal
  <2>1. m \in CommandMethods /\ {"acfg"} \in SUBSET Permissions
    BY DEF CommandMethods, Permissions
  <2> QED BY <1>1, <1>5, <2>1
<1>6. ASSUME c = Call("SetLargeBlobs", {"lbw"}, On(info, "largeBlobs"),
                      largeBlobsAuthorizationRequired(info))
      PROVE  Goal
  <2>1. "SetLargeBlobs" \in CommandMethods /\ {"lbw"} \in SUBSET Permissions
    BY DEF CommandMethods, Permissions
  <2>2. Usable(info, T) /\ {"lbw"} \intersect T # {} => On(info, "largeBlobs")
    BY DEF Usable
  <2> QED BY <1>1, <1>6, <2>1, <2>2
<1>7. ASSUME NEW m \in CommandMethods, NEW s, c = Call(m, {}, s, FALSE)
      PROVE  Goal
  <2>1. {} \in SUBSET Permissions /\ {} \intersect T = {}
    OBVIOUS
  <2>2. Usable(info, T) /\ {} \intersect T # {} => s \/ m \in ConfigMethods
    BY <2>1, Zenon
  <2> QED BY <1>1, <1>7, <2>1, <2>2
<1>8. /\ "GetPINRetries" \in CommandMethods /\ "GetUVRetries" \in CommandMethods
      /\ "Selection" \in CommandMethods
      /\ {"GetBioModality", "GetFingerprintSensorInfo", "CancelCurrentEnrollment"} \subseteq CommandMethods
  BY DEF CommandMethods
<1>9. \/ \E m \in BioMethods : c = Call(m, {"be"}, bioEnrollmentMode(info) # "none", TRUE)
      \/ \E m \in ReadCredMethods :
            c = Call(m, {"cm", "pcmr"}, credentialManagementMode(info) # "none", TRUE)
      \/ \E m \in WriteCredMethods :
            c = Call(m, {"cm"}, credentialManagementMode(info) # "none", TRUE)
      \/ \E m \in ConfigMethods :
            c = Call(m, {"acfg"}, validateAuthenticatorConfigCommand(info, m) /\ ConfigFeature(m),
                     configAuthorizationRequired(info, m))
      \/ c = Call("SetLargeBlobs", {"lbw"}, On(info, "largeBlobs"),
                  largeBlobsAuthorizationRequired(info))
      \/ \E m \in CommandMethods : \E s : c = Call(m, {}, s, FALSE)
  BY <1>8, Zenon DEF Calls
<1>10. Goal
  BY <1>2, <1>3, <1>4, <1>5, <1>6, <1>7, <1>9
<1> QED BY <1>10 DEF Goal

\* The commands.
LEMMA CommandCalls ==
    ASSUME \/ \E c \in Calls : Command(c)
           \/ \E rp \in RPs \ {NoRP}, by \in Auths, rk \in BOOLEAN : MakeCredential(rp, by, rk)
           \/ \E rp \in RPs \ {NoRP}, by \in Auths, up \in BOOLEAN : GetAssertion(rp, by, up)
    PROVE  \E c, t, rp : /\ t \in {held, NoToken} /\ rp \in RPs
                         /\ Supported(c, t) /\ Send(c, t, rp)
<1> DEFINE Goal == \E c, t, rp : /\ t \in {held, NoToken} /\ rp \in RPs
                                 /\ Supported(c, t) /\ Send(c, t, rp)
<1>0. NoRP \in RPs
  BY TokenAssumption
<1>1. ASSUME NEW c \in Calls, NEW t \in {held, NoToken}, Send(c, t, NoRP)
      PROVE  Goal
  <2>1. Supported(c, t)
    BY CallSupported DEF Supported
  <2> QED BY <1>0, <1>1, <2>1
<1>2. ASSUME NEW rp \in RPs, NEW by \in Auths, NEW rk \in BOOLEAN, MakeCredential(rp, by, rk)
      PROVE  Goal
  <2> DEFINE checked == validateMakeCredentialAuthorization(info, by, rk)
             c == Call("MakeCredential", {"mc"}, checked # "refused", checked = "tokenRequired")
             t == IF by = "token" THEN held ELSE NoToken
  <2>1. Send(c, t, rp)
    BY <1>2 DEF MakeCredential
  <2>2. by = "token" => checked # "refused"
    BY DEF validateMakeCredentialAuthorization, validateUserVerificationRequest
  <2>3. by # "token" => t.id = 0
    BY DEF NoToken
  <2>4. /\ c.method = "MakeCredential" /\ c.perms = {"mc"}
        /\ c.supported = (checked # "refused")
    BY DEF Call
  <2>5. "MakeCredential" \in CommandMethods /\ {"mc"} \in SUBSET Permissions
    BY DEF CommandMethods, Permissions
  <2>6. t \in {held, NoToken}
    OBVIOUS
  <2> HIDE DEF checked, c, t
  <2>7. Supported(c, t)
    BY <2>2, <2>3, <2>4, <2>5 DEF Supported
  <2> QED BY <2>1, <2>6, <2>7
<1>3. ASSUME NEW rp \in RPs, NEW by \in Auths, NEW up \in BOOLEAN, GetAssertion(rp, by, up)
      PROVE  Goal
  <2> DEFINE checked == validateGetAssertionAuthorization(info, by, up, FALSE)
             c == Call("GetAssertion", {"ga"}, checked # "refused", checked = "tokenRequired")
             t == IF by = "token" THEN held ELSE NoToken
  <2>1. Send(c, t, rp)
    BY <1>3 DEF GetAssertion
  <2>2. by = "token" => checked # "refused"
    BY DEF validateGetAssertionAuthorization, validateUserVerificationRequest
  <2>3. by # "token" => t.id = 0
    BY DEF NoToken
  <2>4. /\ c.method = "GetAssertion" /\ c.perms = {"ga"}
        /\ c.supported = (checked # "refused")
    BY DEF Call
  <2>5. "GetAssertion" \in CommandMethods /\ {"ga"} \in SUBSET Permissions
    BY DEF CommandMethods, Permissions
  <2>6. t \in {held, NoToken}
    OBVIOUS
  <2> HIDE DEF checked, c, t
  <2>7. Supported(c, t)
    BY <2>2, <2>3, <2>4, <2>5 DEF Supported
  <2> QED BY <2>1, <2>6, <2>7
<1> HIDE DEF Goal
<1>4. Goal
  BY <1>1, <1>2, <1>3 DEF Command
<1> QED BY <1>4 DEF Goal

\* Every call of the Device is one of the three.
LEMMA DeviceCalls ==
    ASSUME DeviceCall
    PROVE  \/ Refused
           \/ \E o : Asks(o)
           \/ \E c, t, rp : /\ t \in {held, NoToken} /\ rp \in RPs
                            /\ Supported(c, t) /\ Send(c, t, rp)
<1>1. CASE \/ \E p \in Pins : SetPIN(p)
           \/ \E p, q \in Pins : ChangePIN(p, q)
           \/ \E p \in Pins, perms \in PermSets, rp \in RPs : GetPinUvAuthTokenUsingPIN(p, perms, rp)
           \/ \E perms \in PermSets, rp \in RPs : GetPinUvAuthTokenUsingUV(perms, rp)
  BY <1>1, ClientPINCalls, Zenon
<1>2. CASE \/ \E c \in Calls : Command(c)
           \/ \E rp \in RPs \ {NoRP}, by \in Auths, rk \in BOOLEAN : MakeCredential(rp, by, rk)
           \/ \E rp \in RPs \ {NoRP}, by \in Auths, up \in BOOLEAN : GetAssertion(rp, by, up)
  BY <1>2, CommandCalls, Zenon
<1> QED BY <1>1, <1>2, Zenon DEF DeviceCall

-----------------------------------------------------------------------------
(* The invariant that needs nothing of the authenticator's information. *)

\* The call returned.
Returned == pc' = "idle" /\ op' = Idle /\ req' = client!GetInfo /\ raced' = FALSE

\* A command is sent.
Sent(c, t, rp) ==
    /\ pc = "idle" /\ pc' = "sent"
    /\ op'.method = c.method /\ op'.perms = c.perms /\ op'.rp = rp
    /\ op'.covered => /\ t.id # 0 /\ t.id = grant.id
                      /\ c.perms \intersect t.perms # {}
                      /\ ForRP(c.perms, rp)
    /\ \E n : /\ n = IF t.id = 0 THEN 0 ELSE pinUvAuthProtocolForRequest(info, t.len)
              /\ req' = Build(c.method, n, t.id)
    /\ last' = Accepted
    /\ UNCHANGED <<info, pin, retries, key, grant, held, raced>>

\* A command returns at once, or is sent.
LEMMA SendStep ==
    ASSUME NEW c, NEW t, NEW rp, Send(c, t, rp)
    PROVE  \/ pc = "idle" /\ Returned /\ UNCHANGED <<info, pin, retries, key, grant, held>>
           \/ Sent(c, t, rp)
<1> DEFINE n == IF t.id = 0 THEN 0 ELSE pinUvAuthProtocolForRequest(info, t.len)
           covered == /\ t.id # 0 /\ t.id = grant.id
                      /\ c.perms \intersect t.perms # {}
                      /\ ForRP(c.perms, rp)
           o == [Idle EXCEPT !.method = c.method, !.perms = c.perms, !.rp = rp,
                             !.covered = covered]
           sends == /\ pc' = "sent" /\ op' = o /\ req' = Build(c.method, n, t.id)
                    /\ last' = Accepted /\ UNCHANGED raced
<1>1. /\ pc = "idle" /\ UNCHANGED <<info, pin, retries, key, grant, held>>
      /\ \/ Return(c.method, "notSupported", covered)
         \/ Return(c.method, "tokenRequired", FALSE)
         \/ Return(c.method, "badToken", covered)
         \/ sends
  BY DEF Send
<1>2. o.method = c.method /\ o.perms = c.perms /\ o.rp = rp /\ o.covered = covered
  BY DEF Idle
<1> HIDE DEF o, covered, n
<1>3. CASE sends
  <2>1. op'.covered => /\ t.id # 0 /\ t.id = grant.id
                       /\ c.perms \intersect t.perms # {}
                       /\ ForRP(c.perms, rp)
    BY <1>2, <1>3 DEF covered
  <2>2. \E k : /\ k = IF t.id = 0 THEN 0 ELSE pinUvAuthProtocolForRequest(info, t.len)
               /\ req' = Build(c.method, k, t.id)
    BY <1>3, Zenon DEF n
  <2> QED BY <1>1, <1>2, <1>3, <2>1, <2>2 DEF Sent
<1>4. CASE \/ Return(c.method, "notSupported", covered)
           \/ Return(c.method, "tokenRequired", FALSE)
           \/ Return(c.method, "badToken", covered)
  BY <1>1, <1>4 DEF Return, Returned
<1> QED BY <1>1, <1>3, <1>4

\* Nothing is left of a call that returned.
LEMMA ReturnedStep ==
    ASSUME Returned,
           retries' \in 0..MaxRetries, IsInformation(info'),
           grant' \in Grants, held' \in Tokens, held'.id <= grant'.id
    PROVE  IInv'
<1>1. Types'
  BY DEF Returned, Types, IsInformation
<1>2. InCall' /\ FreshKey' /\ Requested' /\ AuthParamVerifies'
  BY DEF Returned, InCall, FreshKey, Requested, AuthParamVerifies
<1> QED BY <1>1, <1>2 DEF IInv

\* A call that asks for the key has a flow for its permissions.
LEMMA AskStep ==
    ASSUME IInv, NEW o, Asks(o)
    PROVE  IInv'
<1>1. Types'
  BY DEF Asks, IInv, Types, IsInformation
<1>2. InCall'
  BY DEF Asks, Asked, IInv, InCall
<1>3. FreshKey'
  BY DEF Asks, Asked, FreshKey
<1>4. AuthParamVerifies'
  BY DEF Asks, AuthParamVerifies
<1> DEFINE legacy == McGa \union (IF IsPreviewOnly(info) THEN {"cm", "be"} ELSE {})
<1>5. ASSUME o.method \in TokenMethods
      PROVE  /\ o.flow \in Flows
             /\ o.flow \in {"legacy", "previewUv"} => o.perms \subseteq legacy
  <2>0. o.perms \in SUBSET Permissions /\ o.flow # "refused"
    BY <1>5 DEF Asks, Asked
  <2>1. CASE o.flow = selectPinTokenFlowUsingPIN(info, o.perms, o.rp)
    <3>1. o.flow \in {"legacy", "permissions"} /\ (o.flow = "legacy" => o.perms \subseteq legacy)
      BY <2>0, <2>1, PINFlow
    <3> QED BY <3>1 DEF Flows
  <2>2. CASE o.flow = selectPinUvAuthTokenFlowUsingUV(info, o.perms, o.rp)
    <3>1. /\ o.flow \in {"previewUv", "uvPermissions"}
          /\ o.flow = "previewUv" => IsPreviewOnly(info) /\ o.perms \subseteq McGa \union {"cm", "be"}
      BY <2>0, <2>2, UVFlow
    <3> QED BY <3>1 DEF Flows
  <2> QED BY <1>5, <2>1, <2>2 DEF Asks, Asked
<1>6. Requested'
  <2>1. op' = o /\ info' = info
    BY DEF Asks
  <2>2. flowProtocol(o.flow)' = flowProtocol(o.flow)
    BY <2>1 DEF flowProtocol
  <2>3. Issued(o.flow)' = IF o.flow \in {"permissions", "uvPermissions"} THEN o.perms ELSE legacy
    BY <2>1 DEF Issued
  <2>4. ASSUME o.method \in TokenMethods
        PROVE  o.perms \subseteq Issued(o.flow)'
    BY <1>5, <2>3, <2>4 DEF Flows
  <2> QED BY <1>5, <2>1, <2>2, <2>4 DEF Asks, Asked, Requested
<1> QED BY <1>1, <1>2, <1>3, <1>4, <1>6 DEF IInv

\* A command goes out with a parameter that verifies, or none.
LEMMA SentStep ==
    ASSUME IInv, NEW c, NEW t, NEW rp \in RPs, c.method \in CommandMethods, Sent(c, t, rp)
    PROVE  IInv'
<1>0. CommandMethods \intersect ClientPINMethods = {}
  BY DEF CommandMethods, ClientPINMethods, BioMethods, ReadCredMethods, WriteCredMethods, ConfigMethods
<1>1. Types'
  BY DEF Sent, IInv, Types, IsInformation
<1>2. InCall'
  BY DEF Sent, IInv, InCall
<1>3. FreshKey' /\ Requested'
  BY <1>0 DEF Sent, FreshKey, Requested, TokenMethods, ClientPINMethods
<1>4. PICK n : req' = Build(c.method, n, t.id)
  BY DEF Sent
<1>5. PICK r : r = Build(c.method, n, t.id)
  OBVIOUS
<1>6. Proper(r, n, t.id)
  BY <1>5, BuildProper
<1>7. AuthParamVerifies'
  BY <1>4, <1>5, <1>6 DEF AuthParamVerifies, Proper, Verified
<1> QED BY <1>1, <1>2, <1>3, <1>7 DEF IInv

\* The second exchange has a parameter that verifies, or none.
LEMMA SendClientPINStep ==
    ASSUME IInv, SendClientPIN
    PROVE  IInv'
<1> DEFINE n == flowProtocol(op.flow)
           rpID == IF op.flow \in {"permissions", "uvPermissions"} THEN op.rp ELSE NoRP
           p == op.pin.nfc
           q == op.new.nfc
<1>0. /\ pc = "keyed" /\ pc' = "sent" /\ op' = op /\ info' = info /\ raced' = raced /\ key' = key
      /\ retries' = retries /\ grant' = grant /\ held' = held
      /\ op.method \in ClientPINMethods
      /\ IF op.method \in TokenMethods THEN op.flow \in Flows ELSE op.flow = "none"
  BY DEF SendClientPIN, IInv, InCall, Requested
<1>1. Types'
  BY <1>0 DEF IInv, Types, IsInformation
<1>2. InCall' /\ FreshKey'
  BY <1>0 DEF IInv, InCall, FreshKey
<1>3. Requested'
  BY <1>0 DEF IInv, Requested, flowProtocol, Issued
<1>4. req' = CASE op.method = "SetPIN" -> client!SetPIN(n, op.key, q)
                [] op.method = "ChangePIN" -> client!ChangePIN(n, op.key, p, q)
                [] op.flow = "legacy" -> client!GetPinToken(n, op.key, p)
                [] op.flow = "permissions" ->
                      client!GetPinUvAuthTokenUsingPinWithPermissions(n, op.key, p, op.perms, rpID)
                [] op.flow = "previewUv" -> client!GetPinUvAuthTokenUsingUv(op.key, NoRP)
                [] op.flow = "uvPermissions" ->
                      client!GetPinUvAuthTokenUsingUvWithPermissions(n, op.key, op.perms, rpID)
  BY DEF SendClientPIN
<1> HIDE DEF n, rpID, p, q
<1>5. \E r : req' = r /\ (r.param.protocol = 0 \/ r.param.message = Authenticated(r))
  <2>1. CASE op.method = "SetPIN"
    <3>1. PICK r : r = client!SetPIN(n, op.key, q)
      OBVIOUS
    <3>2. Verified(r, n, client!Encapsulate(n, op.key))
      BY <3>1, SetPINVerified
    <3>3. req' = r
      BY <1>0, <1>4, <2>1, <3>1 DEF TokenMethods
    <3> QED BY <3>2, <3>3 DEF Verified
  <2>2. CASE op.method = "ChangePIN"
    <3>1. PICK r : r = client!ChangePIN(n, op.key, p, q)
      OBVIOUS
    <3>2. Verified(r, n, client!Encapsulate(n, op.key))
      BY <3>1, ChangePINVerified
    <3>3. req' = r
      BY <1>0, <1>4, <2>2, <3>1 DEF TokenMethods
    <3> QED BY <3>2, <3>3 DEF Verified
  <2>3. CASE op.method \in TokenMethods
    <3>0. op.method # "SetPIN" /\ op.method # "ChangePIN" /\ op.flow \in Flows
      BY <1>0, <2>3 DEF TokenMethods
    <3>1. CASE op.flow = "legacy"
      BY <1>4, <3>0, <3>1, Unauthenticated
    <3>2. CASE op.flow = "permissions"
      BY <1>4, <3>0, <3>2, Unauthenticated
    <3>3. CASE op.flow = "previewUv"
      BY <1>4, <3>0, <3>3, Unauthenticated
    <3>4. CASE op.flow = "uvPermissions"
      BY <1>4, <3>0, <3>4, Unauthenticated
    <3> QED BY <3>0, <3>1, <3>2, <3>3, <3>4 DEF Flows
  <2> QED BY <1>0, <2>1, <2>2, <2>3 DEF ClientPINMethods, TokenMethods
<1>6. AuthParamVerifies'
  BY <1>5 DEF AuthParamVerifies
<1> QED BY <1>1, <1>2, <1>3, <1>6 DEF IInv

\* An answer, or a failure, ends the call.
LEMMA Delivered ==
    ASSUME NEW result, Deliver(result)
    PROVE  Returned
BY DEF Deliver, Return, Returned

\* A token is issued under a number of its own.
LEMMA IssueTypes ==
    ASSUME IInv, Issue, op.method \in TokenMethods, pc # "idle"
    PROVE  /\ Returned
           /\ grant' \in Grants /\ held' \in Tokens /\ held'.id <= grant'.id
<1> DEFINE n == flowProtocol(op.flow)
           perms == Issued(op.flow)
           rp == IF op.flow \in {"permissions", "uvPermissions"} THEN op.rp ELSE NoRP
<1>1. /\ grant \in Grants /\ held \in Tokens /\ held.id <= grant.id
      /\ op.rp \in RPs /\ op.perms \in SUBSET Permissions
  BY DEF IInv, Types, InCall, Requested
<1>2. n \in {0, 1, 2} /\ rp \in RPs
  BY <1>1, ProtocolRange, TokenAssumption
<1>3. perms \in SUBSET Permissions
  BY <1>1 DEF Issued, McGa, Permissions
<1>4. PICK len \in Lengths(n) :
        /\ grant' = [id |-> grant.id + 1, protocol |-> n, len |-> len, perms |-> perms, rp |-> rp]
        /\ \/ /\ Return(op.method, "ok", FALSE)
              /\ held' = [id |-> grant.id + 1, len |-> len, perms |-> op.perms]
           \/ Return(op.method, "failed", FALSE) /\ held' = held
  BY DEF Issue
<1>5. Returned
  BY <1>4 DEF Return, Returned
<1>6. len \in Nat
  BY DEF Lengths
<1> HIDE DEF n, perms, rp
<1>7. grant.id \in Nat /\ held.id \in Nat
  BY <1>1 DEF Grants, Tokens
<1>8. grant' \in Grants /\ grant'.id = grant.id + 1
  BY <1>2, <1>3, <1>4, <1>6, <1>7 DEF Grants
<1>9. held' \in Tokens /\ (held'.id = grant.id + 1 \/ held'.id = held.id)
  <2>1. CASE held' = [id |-> grant.id + 1, len |-> len, perms |-> op.perms]
    <3>1. held'.id = grant.id + 1
      BY <2>1
    <3>2. held' \in Tokens
      BY <1>1, <1>6, <1>7, <2>1 DEF Tokens
    <3> QED BY <3>1, <3>2
  <2>2. CASE held' = held
    BY <1>1, <2>2
  <2> QED BY <1>4, <2>1, <2>2
<1> QED BY <1>1, <1>5, <1>7, <1>8, <1>9

\* The answer to a token request.
LEMMA AnswerTokenStep ==
    ASSUME IInv, AnswerToken
    PROVE  IInv'
<1>1. /\ retries \in 0..MaxRetries /\ IsInformation(info) /\ info' = info
      /\ grant \in Grants /\ held \in Tokens /\ held.id <= grant.id
      /\ pc = "sent" /\ op.method \in TokenMethods
  BY DEF IInv, Types, AnswerToken, TokenMethods
<1>2. IsInformation(info')
  BY <1>1
<1>3. retries' \in 0..MaxRetries
  BY <1>1, TokenAssumption DEF AnswerToken
<1>4. CASE Issue
  BY <1>1, <1>2, <1>3, <1>4, IssueTypes, ReturnedStep
<1>5. CASE /\ Deliver("pinInvalid") \/ Deliver("blocked") \/ Deliver("uvInvalid")
           /\ UNCHANGED <<grant, held>>
  BY <1>1, <1>2, <1>3, <1>5, Delivered, ReturnedStep
<1> QED BY <1>4, <1>5 DEF AnswerToken

\* The answer to a new PIN.
LEMMA AnswerPINStep ==
    ASSUME IInv, AnswerPIN
    PROVE  IInv'
<1>1. /\ retries \in 0..MaxRetries /\ IsInformation(info)
      /\ grant \in Grants /\ held \in Tokens /\ held.id <= grant.id /\ held' = held
  BY DEF IInv, Types, AnswerPIN
<1>2. retries' \in 0..MaxRetries
  BY <1>1, TokenAssumption DEF AnswerPIN
<1>3. Returned
  BY Delivered DEF AnswerPIN
<1>4. IsInformation(info')
  <2>1. CASE info' = [info EXCEPT !.options = [@ EXCEPT !["clientPin"] = TRUE], !.forcePINChange = FALSE]
    <3> DEFINE opts == [info.options EXCEPT !["clientPin"] = TRUE]
    <3>1. /\ opts = [o \in DOMAIN opts |-> opts[o]]
      BY <1>1 DEF IsInformation
    <3>2. info' = [info EXCEPT !.options = opts, !.forcePINChange = FALSE]
      BY <2>1
    <3> HIDE DEF opts
    <3> QED BY <1>1, <3>1, <3>2 DEF IsInformation
  <2>2. CASE info' = info
    BY <1>1, <2>2
  <2> QED BY <2>1, <2>2 DEF AnswerPIN
<1>5. grant' \in Grants /\ held'.id <= grant'.id
  <2>1. CASE grant' = [NoGrant EXCEPT !.id = grant.id + 1]
    BY <1>1, <2>1, TokenAssumption DEF NoGrant, Grants, Tokens
  <2>2. CASE grant' = grant
    BY <1>1, <2>2
  <2> QED BY <2>1, <2>2 DEF AnswerPIN
<1> QED BY <1>1, <1>2, <1>3, <1>4, <1>5, ReturnedStep

\* The answer to a command.
LEMMA AnswerCommandStep ==
    ASSUME IInv, AnswerCommand
    PROVE  IInv'
<1>1. /\ retries \in 0..MaxRetries /\ IsInformation(info)
      /\ grant \in Grants /\ held \in Tokens /\ held.id <= grant.id
      /\ pc = "sent" /\ op.rp \in RPs
      /\ retries' = retries /\ info' = info
  BY DEF IInv, Types, InCall, AnswerCommand
<1>2. Returned
  BY Delivered DEF AnswerCommand
<1> DEFINE used == req.param.protocol # 0 /\ op.perms \subseteq McGa
           permsOf(t) == IF used /\ ~isFIDO20Only(info) THEN t.perms \intersect {"lbw"} ELSE t.perms
<1>3. CASE Authorises
  <2>1. /\ grant' = [grant EXCEPT !.perms = permsOf(grant), !.rp = IF used THEN op.rp ELSE @]
        /\ held' = [held EXCEPT !.perms = permsOf(held)]
    BY <1>3 DEF AnswerCommand
  <2>2. permsOf(grant) \in SUBSET Permissions /\ permsOf(held) \in SUBSET Permissions
    BY <1>1 DEF Grants, Tokens
  <2> HIDE DEF permsOf
  <2>3. grant' \in Grants /\ held' \in Tokens /\ grant'.id = grant.id /\ held'.id = held.id
    BY <1>1, <2>1, <2>2 DEF Grants, Tokens
  <2> QED BY <1>1, <1>2, <2>3, ReturnedStep
<1>4. CASE ~Authorises
  <2>1. grant' = grant /\ held' = held
    BY <1>4 DEF AnswerCommand
  <2> QED BY <1>1, <1>2, <2>1, ReturnedStep
<1> QED BY <1>3, <1>4

\* Another platform.
LEMMA OtherPlatformStep ==
    ASSUME IInv, OtherPlatform
    PROVE  IInv'
<1>1. /\ info' = info /\ held' = held /\ pc' = pc /\ op' = op /\ req' = req
      /\ raced' = (pc # "idle")
  BY DEF OtherPlatform
<1>2. retries' \in 0..MaxRetries
  BY TokenAssumption DEF OtherPlatform, IInv, Types
<1>3. grant' \in Grants /\ held.id <= grant'.id
  <2>1. grant \in Grants /\ held \in Tokens /\ held.id <= grant.id
    BY DEF IInv, Types
  <2>2. CASE grant' = [NoGrant EXCEPT !.id = grant.id + 1]
    BY <2>1, <2>2, TokenAssumption DEF NoGrant, Grants, Tokens
  <2>3. CASE grant' = grant
    BY <2>1, <2>3
  <2> QED BY <2>2, <2>3 DEF OtherPlatform
<1>4. Types'
  BY <1>1, <1>2, <1>3 DEF IInv, Types, IsInformation
<1>5. InCall' /\ FreshKey'
  BY <1>1 DEF IInv, InCall, FreshKey
<1>6. Requested'
  BY <1>1 DEF IInv, Requested, flowProtocol, Issued
<1>7. AuthParamVerifies'
  BY <1>1 DEF IInv, AuthParamVerifies
<1> QED BY <1>4, <1>5, <1>6, <1>7 DEF IInv

\* The inductive invariant: the types, the call in progress, its key and its
\* flow, and the parameter of the request on the wire.
THEOREM Invariance == Spec => []IInv
<1>1. Init => IInv
  <2> SUFFICES ASSUME Init PROVE IInv
    OBVIOUS
  <2>1. NoRP \in RPs /\ MaxRetries \in Nat
    BY TokenAssumption
  <2>2. grant \in Grants /\ held \in Tokens /\ held.id <= grant.id
    BY <2>1 DEF Init, NoGrant, NoToken, Grants, Tokens
  <2>3. IsInformation(info)
    BY TokenAssumption DEF Init
  <2>4. Types
    <3>1. pc = "idle" /\ raced = FALSE /\ retries = MaxRetries
      BY DEF Init
    <3>2. retries \in 0..MaxRetries
      BY <2>1, <3>1
    <3> QED BY <2>2, <2>3, <3>1, <3>2 DEF Types
  <2> QED BY <2>4 DEF Init, IInv, InCall, FreshKey, Requested, AuthParamVerifies
<1>2. IInv /\ [Next]_vars => IInv'
  <2> SUFFICES ASSUME IInv, [Next]_vars PROVE IInv'
    OBVIOUS
  <2>0. /\ retries \in 0..MaxRetries /\ IsInformation(info)
        /\ grant \in Grants /\ held \in Tokens /\ held.id <= grant.id
    BY DEF IInv, Types
  <2>1. CASE Refused
    BY <2>0, <2>1, ReturnedStep DEF Refused, Returned
  <2>2. ASSUME NEW c, NEW t, NEW rp \in RPs, Supported(c, t), Send(c, t, rp) PROVE IInv'
    <3>1. CASE Returned /\ UNCHANGED <<info, pin, retries, key, grant, held>>
      BY <2>0, <3>1, ReturnedStep
    <3>2. CASE Sent(c, t, rp)
      BY <2>2, <3>2, SentStep DEF Supported
    <3> QED BY <2>2, <3>1, <3>2, SendStep
  <2>3. CASE DeviceCall
    BY <2>1, <2>2, <2>3, AskStep, DeviceCalls
  <2>4. CASE Fail
    BY <2>0, <2>4, ReturnedStep DEF Fail, Return, Returned
  <2>5. CASE Authenticator
    BY <2>5, AnswerTokenStep, AnswerPINStep, AnswerCommandStep DEF Authenticator
  <2>6. CASE UNCHANGED vars
    <3>1. Types' /\ InCall' /\ FreshKey'
      BY <2>6 DEF vars, IInv, Types, InCall, FreshKey, IsInformation
    <3>2. Requested' /\ AuthParamVerifies'
      BY <2>6 DEF vars, IInv, Requested, AuthParamVerifies, flowProtocol, Issued
    <3> QED BY <3>1, <3>2 DEF IInv
  <2> QED BY <2>3, <2>4, <2>5, <2>6, SendClientPINStep, OtherPlatformStep DEF Next
<1> QED BY <1>1, <1>2, PTL DEF Spec

\* Every pinUvAuthParam is computed over the message the authenticator rebuilds
\* from the request, whatever it reports and whatever the request leaves out.
THEOREM RequestVerifies == Spec => []AuthParamVerifies
BY Invariance, PTL DEF IInv

\* The right PIN spends no retry, unless another platform changed the key.
THEOREM RightPINSpendsNoRetry == Spec => CorrectPINSpendsNoRetry
<1> DEFINE Spends == retries' < retries /\ pc = "sent" /\ pc' = "idle" => op.pin.nfc # pin \/ raced
<1>1. IInv /\ [Next]_vars => [Spends]_vars
  <2> SUFFICES ASSUME IInv, Next, retries' < retries, pc = "sent", pc' = "idle", ~raced
               PROVE  op.pin.nfc # pin
    OBVIOUS
  <2>1. retries \in 0..MaxRetries /\ MaxRetries \in Nat
    BY TokenAssumption DEF IInv, Types
  <2>2. retries' # retries /\ retries' # MaxRetries
    BY <2>1
  <2>3. CASE AnswerToken
    <3>1. op.key = key
      BY <2>3 DEF IInv, FreshKey, AnswerToken, ClientPINMethods
    <3> QED BY <2>2, <2>3, <3>1 DEF AnswerToken
  <2>4. CASE AnswerPIN
    BY <2>2, <2>4 DEF AnswerPIN
  <2>5. ~DeviceCall
    BY DeviceCalls DEF Refused, Asks, Send
  <2>6. ~SendClientPIN /\ ~AnswerCommand /\ ~Fail /\ ~OtherPlatform
    BY <2>2 DEF SendClientPIN, AnswerCommand, Fail, OtherPlatform
  <2> QED BY <2>3, <2>4, <2>5, <2>6 DEF Next, Authenticator
<1> QED BY <1>1, Invariance, PTL DEF Spec, CorrectPINSpendsNoRetry

-----------------------------------------------------------------------------
(* What tokens are good for. *)

\* Setting a PIN changes nothing the checks of a token look at.
LEMMA SameInformation ==
    ASSUME NEW i, NEW j, IsInformation(i), Coherent(i),
           j = [i EXCEPT !.options = [@ EXCEPT !["clientPin"] = TRUE], !.forcePINChange = FALSE]
    PROVE  Coherent(j)
<1>1. j.versions = i.versions /\ j.protocols = i.protocols
  BY DEF IsInformation
<1>2. j.options = [i.options EXCEPT !["clientPin"] = TRUE]
  BY DEF IsInformation
<1>3. DOMAIN j.options = DOMAIN i.options /\ \A o : o # "clientPin" /\ o \in DOMAIN i.options => j.options[o] = i.options[o]
  BY <1>2 DEF IsInformation
<1>4. \A o : Reports(j, o) <=> Reports(i, o)
  BY <1>3 DEF Reports
<1>5. /\ On(j, "perCredMgmtRO") <=> On(i, "perCredMgmtRO")
      /\ On(j, "uvToken") <=> On(i, "uvToken")
      /\ On(j, "credMgmt") <=> On(i, "credMgmt")
      /\ On(j, "credentialMgmtPreview") <=> On(i, "credentialMgmtPreview")
  BY <1>3, <1>4 DEF On, Reports
<1>6. IsPreviewOnly(j) <=> IsPreviewOnly(i)
  BY <1>1 DEF IsPreviewOnly
<1>7. credentialManagementMode(j) = credentialManagementMode(i)
  BY <1>5, <1>6 DEF credentialManagementMode
<1>8. requirePinUvAuthProtocol(j) = requirePinUvAuthProtocol(i)
  BY <1>1, <1>5, <1>6 DEF requirePinUvAuthProtocol
<1> QED BY <1>4, <1>5, <1>6, <1>7, <1>8 DEF Coherent

\* Protocol 1 is never chosen under the FIPS policy.
LEMMA ProtocolPolicy ==
    ASSUME NEW i, requirePinUvAuthProtocol(i) = 1
    PROVE  ~FIPS
<1> DEFINE usable(n) == n \in {1, 2} /\ ValidateFIPS140UvAuthProtocol(n)
           first == {k \in DOMAIN i.protocols : /\ usable(i.protocols[k])
                                                /\ \A j \in 1..(k - 1) : ~usable(i.protocols[j])}
           found == CHOOSE k \in first : TRUE
<1>1. \/ first # {} /\ i.protocols[found] = 1
      \/ ValidateFIPS140UvAuthProtocol(1)
  BY DEF requirePinUvAuthProtocol
<1>2. first # {} => found \in first
  OBVIOUS
<1>3. \A k \in first : ValidateFIPS140UvAuthProtocol(i.protocols[k])
  OBVIOUS
<1> HIDE DEF first, found
<1>4. ValidateFIPS140UvAuthProtocol(1)
  BY <1>1, <1>2, <1>3
<1> QED BY <1>4, FIPSAssumption DEF ValidateFIPS140UvAuthProtocol

\* A token of a length the authenticator issues is used with its protocol.
LEMMA LengthAccepted ==
    ASSUME NEW n, n = requirePinUvAuthProtocol(info), n # 0, NEW len \in Lengths(n)
    PROVE  pinUvAuthProtocolForRequest(info, len) = n
<1>1. CASE n = 1
  <2>1. ~FIPS
    BY <1>1, ProtocolPolicy
  <2>2. len \in {16, 32, 48}
    BY <1>1 DEF Lengths
  <2>3. len > 0 /\ len % 16 = 0
    BY <2>2
  <2>4. ~isFIDO20Only(info) /\ ~IsPreviewOnly(info) => len \in {16, 32}
    BY <1>1 DEF Lengths
  <2>5. ValidateUvAuthToken(n, len)
    BY <1>1, <2>1, <2>3 DEF ValidateUvAuthToken, ValidateFIPS140UvAuthProtocol
  <2> QED BY <1>1, <2>4, <2>5 DEF pinUvAuthProtocolForRequest
<1>2. CASE n = 2
  <2>1. len = 32
    BY <1>2 DEF Lengths
  <2>2. ValidateUvAuthToken(n, len)
    BY <1>2, <2>1 DEF ValidateUvAuthToken, ValidateFIPS140UvAuthProtocol
  <2> QED BY <1>2, <2>2 DEF pinUvAuthProtocolForRequest
<1> QED BY <1>1, <1>2, ProtocolRange

\* A flow that is chosen gives out what the Device can use.
LEMMA AskHonest ==
    ASSUME Coherent(info), NEW o, Asks(o)
    PROVE  Honest'
<1>1. op' = o /\ info' = info /\ Asked(o)
  BY DEF Asks
<1>2. ASSUME o.method \in TokenMethods
      PROVE  Usable(info, o.perms) /\ flowProtocol(o.flow) = requirePinUvAuthProtocol(info)
  <2>0. o.perms \in SUBSET Permissions /\ o.flow # "refused" /\ flowProtocol(o.flow) # 0
    BY <1>1, <1>2 DEF Asked
  <2>1. CASE o.flow = selectPinTokenFlowUsingPIN(info, o.perms, o.rp)
    <3>1. Usable(info, o.perms) /\ o.flow # "previewUv"
      BY <2>0, <2>1, PINFlow
    <3> QED BY <3>1 DEF flowProtocol
  <2>2. CASE o.flow = selectPinUvAuthTokenFlowUsingUV(info, o.perms, o.rp)
    <3>1. /\ Usable(info, o.perms)
          /\ o.flow = "previewUv" => IsPreviewOnly(info) /\ On(info, "uvToken")
      BY <2>0, <2>2, UVFlow
    <3>2. CASE o.flow = "previewUv"
      <4>1. ValidateFIPS140UvAuthProtocol(1) /\ flowProtocol(o.flow) = 1
        BY <2>0, <3>2 DEF flowProtocol
      <4>2. ~FIPS
        BY <4>1, FIPSAssumption DEF ValidateFIPS140UvAuthProtocol
      <4> QED BY <3>1, <3>2, <4>1, <4>2 DEF Coherent
    <3>3. CASE o.flow # "previewUv"
      BY <3>1, <3>3 DEF flowProtocol
    <3> QED BY <3>2, <3>3
  <2> QED BY <1>1, <1>2, <2>1, <2>2 DEF Asked
<1>3. flowProtocol(o.flow)' = flowProtocol(o.flow)
  BY <1>1 DEF flowProtocol
<1>4. Usable(info', o.perms) <=> Usable(info, o.perms)
  BY <1>1
<1>5. requirePinUvAuthProtocol(info') = requirePinUvAuthProtocol(info)
  BY <1>1
<1> QED BY <1>1, <1>2, <1>3, <1>4, <1>5 DEF Honest

\* The caller's token is fit for a call it covers.
LEMMA TokenFits ==
    ASSUME Current, NEW c, NEW t \in {held, NoToken}, Supported(c, t),
           t.id # 0, t.id = grant.id, c.perms \intersect t.perms # {}
    PROVE  /\ c.supported \/ c.method \in ConfigMethods
           /\ pinUvAuthProtocolForRequest(info, t.len) = grant.protocol
           /\ grant.protocol # 0
           /\ c.perms \intersect grant.perms # {}
<1>1. t = held
  BY DEF NoToken
<1>2. /\ held.perms \subseteq grant.perms /\ Usable(info, held.perms) /\ grant.protocol # 0
      /\ pinUvAuthProtocolForRequest(info, held.len) = grant.protocol
  BY <1>1 DEF Current
<1>3. c.supported \/ c.method \in ConfigMethods
  BY <1>1, <1>2 DEF Supported
<1>4. c.perms \intersect grant.perms # {}
  BY <1>1, <1>2
<1> QED BY <1>1, <1>2, <1>3, <1>4

\* So it is not refused by the Device.
LEMMA SendHonoured ==
    ASSUME Current, NEW c, NEW t \in {held, NoToken}, NEW rp, Supported(c, t), Send(c, t, rp)
    PROVE  GrantHonoured'
<1> DEFINE n == IF t.id = 0 THEN 0 ELSE pinUvAuthProtocolForRequest(info, t.len)
           covered == /\ t.id # 0 /\ t.id = grant.id
                      /\ c.perms \intersect t.perms # {}
                      /\ ForRP(c.perms, rp)
<1>1. \/ ~c.supported /\ Return(c.method, "notSupported", covered)
      \/ Return(c.method, "tokenRequired", FALSE)
      \/ t.id # 0 /\ n = 0 /\ Return(c.method, "badToken", covered)
      \/ last' = Accepted
  BY DEF Send
<1>2. covered => n # 0 /\ (c.supported \/ c.method \in ConfigMethods)
  BY TokenFits
<1> HIDE DEF covered, n
<1>3. CASE last' = Accepted
  BY <1>3 DEF Accepted, GrantHonoured
<1>4. CASE ~c.supported /\ Return(c.method, "notSupported", covered)
  <2>1. CASE covered
    <3>1. last' = [method |-> c.method, result |-> "notSupported", covered |-> covered]
      BY <1>4, <2>1 DEF Return
    <3>2. last'.method = c.method /\ last'.result = "notSupported"
      BY <3>1
    <3> QED BY <1>2, <1>4, <2>1, <3>2 DEF GrantHonoured
  <2>2. CASE ~covered
    BY <1>3, <1>4, <2>2 DEF Return
  <2> QED BY <2>1, <2>2
<1>5. CASE Return(c.method, "tokenRequired", FALSE)
  BY <1>3, <1>5 DEF Return
<1>6. CASE t.id # 0 /\ n = 0 /\ Return(c.method, "badToken", covered)
  BY <1>2, <1>3, <1>6 DEF Return
<1> QED BY <1>1, <1>3, <1>4, <1>5, <1>6

\* A request it covers is one the authenticator authorises.
LEMMA SentCovered ==
    ASSUME Current, NEW c, NEW t \in {held, NoToken}, NEW rp, Supported(c, t), Sent(c, t, rp)
    PROVE  Covered'
<1> SUFFICES ASSUME op'.covered PROVE Authorises'
  BY DEF Covered
<1>1. /\ t.id # 0 /\ t.id = grant.id /\ c.perms \intersect t.perms # {} /\ ForRP(c.perms, rp)
      /\ op'.perms = c.perms /\ op'.rp = rp /\ grant' = grant
  BY DEF Sent
<1>2. /\ pinUvAuthProtocolForRequest(info, t.len) = grant.protocol
      /\ c.perms \intersect grant.perms # {}
  BY <1>1, TokenFits
<1>3. req' = Build(c.method, grant.protocol, t.id)
  BY <1>1, <1>2 DEF Sent
<1>4. PICK r : r = Build(c.method, grant.protocol, t.id)
  OBVIOUS
<1>5. Proper(r, grant.protocol, t.id)
  BY <1>4, BuildProper DEF Supported
<1>6. CASE r.param.protocol = 0
  BY <1>3, <1>4, <1>6 DEF Authorises
<1>7. CASE Verified(r, grant.protocol, t.id)
  BY <1>1, <1>2, <1>3, <1>4, <1>7 DEF Authorises, Verified, ForRP
<1> QED BY <1>5, <1>6, <1>7 DEF Proper

\* A step that leaves the tokens alone leaves them as they are.
LEMMA CurrentKept ==
    ASSUME Current, info' = info, grant' = grant, held' = held
    PROVE  Current'
BY DEF Current

\* The caller's token is of no more use once there is another.
LEMMA Superseded ==
    ASSUME Types, held' = held, grant'.id = grant.id + 1
    PROVE  Current'
<1>1. held.id \in Nat /\ grant.id \in Nat /\ held.id <= grant.id
  BY DEF Types, Grants, Tokens
<1> QED BY <1>1 DEF Current

\* A call that returned claims nothing.
LEMMA ReturnedTokens ==
    ASSUME Returned, Coherent(info'), Current', GrantHonoured'
    PROVE  TInv'
<1>1. Honest' /\ Covered'
  BY DEF Returned, Honest, Covered
<1>2. Coherent(info)'
  OBVIOUS
<1> QED BY <1>1, <1>2 DEF TInv

\* What is accepted, or fails, is not a refusal; nor are the answers that no
\* token could have prevented.
LEMMA NotRefused ==
    ASSUME \/ last' = Accepted
           \/ \E m, covered : Return(m, "ok", covered) \/ Return(m, "failed", covered)
           \/ \E result \in {"ok", "pinInvalid", "blocked", "uvInvalid", "unverified"} : Deliver(result)
    PROVE  GrantHonoured'
<1>1. CASE last' = Accepted
  BY <1>1 DEF Accepted, GrantHonoured
<1>2. ASSUME NEW m, NEW covered, Return(m, "ok", covered) \/ Return(m, "failed", covered)
      PROVE  GrantHonoured'
  BY <1>1, <1>2 DEF Return
<1>3. ASSUME NEW result \in {"pinInvalid", "blocked", "uvInvalid", "unverified"}, NEW m, NEW covered,
             Return(m, result, covered)
      PROVE  GrantHonoured'
  <2>1. \/ last' = Accepted
        \/ last' = [method |-> m, result |-> result, covered |-> covered]
    BY <1>3 DEF Return
  <2>2. CASE last' = [method |-> m, result |-> result, covered |-> covered]
    <3>1. last'.result = result
      BY <2>2
    <3> QED BY <3>1 DEF GrantHonoured
  <2> QED BY <1>1, <2>1, <2>2
<1> QED BY <1>1, <1>2, <1>3 DEF Deliver

\* A token that is issued is current, if the caller gets it.
LEMMA IssueCurrent ==
    ASSUME IInv, Honest, Issue, op.method \in TokenMethods, pc # "idle", info' = info
    PROVE  Current' /\ GrantHonoured'
<1> DEFINE n == flowProtocol(op.flow)
           rp == IF op.flow \in {"permissions", "uvPermissions"} THEN op.rp ELSE NoRP
<1>1. PICK len \in Lengths(n) :
        /\ grant' = [id |-> grant.id + 1, protocol |-> n, len |-> len, perms |-> Issued(op.flow), rp |-> rp]
        /\ \/ /\ Return(op.method, "ok", FALSE)
              /\ held' = [id |-> grant.id + 1, len |-> len, perms |-> op.perms]
           \/ Return(op.method, "failed", FALSE) /\ held' = held
  BY DEF Issue
<1>2. GrantHonoured'
  BY <1>1, NotRefused
<1>3. /\ n # 0 /\ op.perms \subseteq Issued(op.flow)
      /\ Usable(info, op.perms) /\ n = requirePinUvAuthProtocol(info)
  BY DEF IInv, Requested, Honest
<1>4. pinUvAuthProtocolForRequest(info, len) = n
  BY <1>3, LengthAccepted
<1> HIDE DEF n, rp
<1>5. grant'.id = grant.id + 1 /\ grant'.protocol = n /\ grant'.perms = Issued(op.flow)
  BY <1>1
<1>6. CASE held' = held
  <2>1. Types
    BY DEF IInv
  <2> QED BY <1>2, <1>5, <1>6, <2>1, Superseded
<1>7. CASE held' = [id |-> grant.id + 1, len |-> len, perms |-> op.perms]
  <2>1. held'.len = len /\ held'.perms = op.perms
    BY <1>7
  <2>2. /\ held'.perms \subseteq grant'.perms
        /\ Usable(info', held'.perms)
        /\ grant'.protocol # 0
    BY <1>3, <1>5, <2>1
  <2>3. pinUvAuthProtocolForRequest(info', held'.len) = grant'.protocol
    BY <1>4, <1>5, <2>1
  <2> QED BY <1>2, <2>2, <2>3 DEF Current
<1> QED BY <1>1, <1>2, <1>6, <1>7

\* The answer to a token request.
LEMMA AnswerTokenHonoured ==
    ASSUME IInv, TInv, AnswerToken
    PROVE  TInv'
<1>1. pc = "sent" /\ op.method \in TokenMethods /\ info' = info /\ Coherent(info) /\ Current /\ Honest
  BY DEF AnswerToken, TokenMethods, TInv
<1>2. CASE Issue
  <2>1. Current' /\ GrantHonoured'
    BY <1>1, <1>2, IssueCurrent
  <2>2. Returned
    BY <1>1, <1>2, IssueTypes
  <2>3. Coherent(info')
    BY <1>1
  <2> QED BY <2>1, <2>2, <2>3, ReturnedTokens
<1>3. ASSUME NEW result \in {"pinInvalid", "blocked", "uvInvalid"}, Deliver(result),
             UNCHANGED <<grant, held>>
      PROVE  TInv'
  <2>1. Current'
    BY <1>1, <1>3, CurrentKept
  <2>2. Returned
    BY <1>3, Delivered
  <2>3. GrantHonoured'
    BY <1>3, NotRefused
  <2>4. Coherent(info')
    BY <1>1
  <2> QED BY <2>1, <2>2, <2>3, <2>4, ReturnedTokens
<1> QED BY <1>2, <1>3 DEF AnswerToken

\* The answer to a new PIN: it revokes the token.
LEMMA AnswerPINHonoured ==
    ASSUME IInv, TInv, AnswerPIN
    PROVE  TInv'
<1>0. Coherent(info) /\ Current /\ Types /\ held' = held
  BY DEF TInv, IInv, AnswerPIN
<1>1. Returned /\ GrantHonoured'
  <2>1. PICK result \in {"ok", "pinInvalid", "unverified"} : Deliver(result)
    BY DEF AnswerPIN
  <2>2. Returned
    BY <2>1, Delivered
  <2> QED BY <2>1, <2>2, NotRefused
<1>2. CASE /\ grant' = [NoGrant EXCEPT !.id = grant.id + 1]
           /\ info' = [info EXCEPT !.options = [@ EXCEPT !["clientPin"] = TRUE],
                                   !.forcePINChange = FALSE]
  <2>1. grant'.id = grant.id + 1
    BY <1>2 DEF NoGrant
  <2>2. Current'
    BY <1>0, <2>1, Superseded
  <2>3. Coherent(info')
    BY <1>0, <1>2, SameInformation DEF Types
  <2> QED BY <1>1, <2>2, <2>3, ReturnedTokens
<1>3. CASE grant' = grant /\ info' = info
  <2>1. Current'
    BY <1>0, <1>3, CurrentKept
  <2>2. Coherent(info')
    BY <1>0, <1>3
  <2> QED BY <1>1, <2>1, <2>2, ReturnedTokens
<1> QED BY <1>2, <1>3 DEF AnswerPIN

\* The answer to a command: a command that is covered is authorised.
LEMMA AnswerCommandHonoured ==
    ASSUME IInv, TInv, AnswerCommand
    PROVE  TInv'
<1>0. /\ Coherent(info) /\ Current /\ Types /\ Covered /\ info' = info
      /\ pc = "sent" /\ op.method \in CommandMethods
  BY DEF TInv, IInv, InCall, AnswerCommand, ClientPINMethods
<1>1. Coherent(info')
  BY <1>0
<1> DEFINE used == req.param.protocol # 0 /\ op.perms \subseteq McGa
           permsOf(t) == IF used /\ ~isFIDO20Only(info) THEN t.perms \intersect {"lbw"} ELSE t.perms
<1>2. CASE Authorises
  <2>1. /\ grant' = [grant EXCEPT !.perms = permsOf(grant), !.rp = IF used THEN op.rp ELSE @]
        /\ held' = [held EXCEPT !.perms = permsOf(held)]
        /\ Deliver("ok")
    BY <1>2 DEF AnswerCommand
  <2>2. Returned /\ GrantHonoured'
    BY <2>1, Delivered, NotRefused
  <2>3. /\ held.perms \subseteq grant.perms => permsOf(held) \subseteq permsOf(grant)
        /\ permsOf(held) \subseteq held.perms
    OBVIOUS
  <2> HIDE DEF permsOf, used
  <2>4. /\ grant'.id = grant.id /\ grant'.protocol = grant.protocol /\ grant'.perms = permsOf(grant)
        /\ held'.id = held.id /\ held'.len = held.len /\ held'.perms = permsOf(held)
    BY <1>0, <2>1 DEF Types, Grants, Tokens
  <2>5. Usable(info, held.perms) => Usable(info, permsOf(held))
    BY <2>3 DEF Usable
  <2>6. Current'
    BY <1>0, <2>3, <2>4, <2>5 DEF Current
  <2> QED BY <1>1, <2>2, <2>6, ReturnedTokens
<1>3. CASE ~Authorises
  <2>1. Deliver("unauthorised") /\ grant' = grant /\ held' = held
    BY <1>3 DEF AnswerCommand
  <2>2. ~(op.covered /\ ~raced)
    BY <1>0, <1>3 DEF Covered
  <2>3. last' = Accepted
    BY <2>1, <2>2 DEF Deliver, Return
  <2>4. Current'
    BY <1>0, <2>1, CurrentKept
  <2>5. Returned
    BY <2>1, Delivered
  <2>6. GrantHonoured'
    BY <2>3, NotRefused
  <2> QED BY <1>1, <2>4, <2>5, <2>6, ReturnedTokens
<1> QED BY <1>2, <1>3

\* Another platform may revoke the token; the call it interferes with claims
\* nothing.
LEMMA OtherPlatformHonoured ==
    ASSUME IInv, TInv, OtherPlatform
    PROVE  TInv'
<1>1. /\ info' = info /\ held' = held /\ pc' = pc /\ op' = op /\ req' = req /\ last' = last
      /\ raced' = (pc # "idle")
  BY DEF OtherPlatform
<1>2. Coherent(info)' /\ GrantHonoured'
  BY <1>1 DEF TInv, GrantHonoured
<1>3. Honest'
  BY <1>1 DEF TInv, Honest, flowProtocol
<1>4. Covered'
  BY <1>1 DEF Covered
<1>5. Current'
  <2>1. CASE grant' = grant
    BY <1>1, <2>1, CurrentKept DEF TInv
  <2>2. CASE grant' = [NoGrant EXCEPT !.id = grant.id + 1]
    <3>1. grant'.id = grant.id + 1 /\ Types
      BY <2>2 DEF NoGrant, IInv
    <3> QED BY <1>1, <3>1, Superseded
  <2> QED BY <2>1, <2>2 DEF OtherPlatform
<1> QED BY <1>2, <1>3, <1>4, <1>5 DEF TInv

\* The Device gives out a token only for what it can then do with it, for every
\* authenticator whose information is coherent.
THEOREM TokensHonoured ==
    ASSUME \A i \in Infos : Coherent(i)
    PROVE  Spec => []GrantHonoured
<1>1. Init => TInv
  <2> SUFFICES ASSUME Init PROVE TInv
    OBVIOUS
  <2>1. Coherent(info)
    BY DEF Init
  <2>2. Honest /\ Covered
    BY DEF Init, Honest, Covered
  <2>3. Current
    BY DEF Init, Current, NoToken
  <2>4. GrantHonoured
    BY DEF Init, Accepted, GrantHonoured
  <2> QED BY <2>1, <2>2, <2>3, <2>4 DEF TInv
<1>2. IInv /\ TInv /\ [Next]_vars => TInv'
  <2> SUFFICES ASSUME IInv, TInv, [Next]_vars PROVE TInv'
    OBVIOUS
  <2>0. Coherent(info) /\ Current
    BY DEF TInv
  <2>1. CASE Refused
    <3>1. Current' /\ GrantHonoured'
      BY <2>0, <2>1, CurrentKept, NotRefused DEF Refused
    <3>2. Coherent(info') /\ Returned
      BY <2>0, <2>1 DEF Refused, Returned
    <3> QED BY <3>1, <3>2, ReturnedTokens
  <2>2. ASSUME NEW o, Asks(o) PROVE TInv'
    <3>1. Honest'
      BY <2>0, <2>2, AskHonest
    <3>2. Current' /\ GrantHonoured'
      BY <2>0, <2>2, CurrentKept, NotRefused DEF Asks
    <3>3. Coherent(info)' /\ Covered'
      BY <2>0, <2>2 DEF Asks, Covered
    <3> QED BY <3>1, <3>2, <3>3 DEF TInv
  <2>3. ASSUME NEW c, NEW t \in {held, NoToken}, NEW rp \in RPs, Supported(c, t), Send(c, t, rp)
        PROVE  TInv'
    <3>0. info' = info /\ grant' = grant /\ held' = held
      BY <2>3 DEF Send
    <3>1. Current' /\ GrantHonoured'
      BY <2>0, <2>3, <3>0, CurrentKept, SendHonoured
    <3>2. Coherent(info')
      BY <2>0, <3>0
    <3>3. CASE Returned
      BY <3>1, <3>2, <3>3, ReturnedTokens
    <3>4. CASE Sent(c, t, rp)
      <4>1. Covered'
        BY <2>0, <2>3, <3>4, SentCovered
      <4>2. op'.method \notin TokenMethods
        BY <2>3, <3>4 DEF Sent, Supported, TokenMethods, CommandMethods, BioMethods,
                         ReadCredMethods, WriteCredMethods, ConfigMethods
      <4>3. Honest'
        BY <4>2 DEF Honest
      <4>4. Coherent(info)'
        BY <3>2
      <4> QED BY <3>1, <4>1, <4>3, <4>4 DEF TInv
    <3> QED BY <2>3, <3>3, <3>4, SendStep
  <2>4. CASE DeviceCall
    BY <2>1, <2>2, <2>3, <2>4, DeviceCalls
  <2>5. CASE SendClientPIN
    <3>1. /\ info' = info /\ held' = held /\ grant' = grant /\ op' = op /\ last' = last
          /\ pc = "keyed" /\ op.method \in ClientPINMethods
      BY <2>5 DEF SendClientPIN, IInv, InCall
    <3>2. op.method \notin CommandMethods
      BY <3>1 DEF ClientPINMethods, CommandMethods, BioMethods, ReadCredMethods,
                  WriteCredMethods, ConfigMethods
    <3>3. Covered'
      BY <3>1, <3>2 DEF Covered
    <3>4. Coherent(info)' /\ GrantHonoured'
      BY <3>1 DEF TInv, GrantHonoured
    <3>5. Honest'
      BY <3>1 DEF TInv, Honest, flowProtocol
    <3>6. Current'
      BY <2>0, <3>1, CurrentKept
    <3> QED BY <3>3, <3>4, <3>5, <3>6 DEF TInv
  <2>6. CASE Authenticator
    BY <2>6, AnswerTokenHonoured, AnswerPINHonoured, AnswerCommandHonoured DEF Authenticator
  <2>7. CASE Fail
    <3>1. Current' /\ GrantHonoured'
      BY <2>0, <2>7, CurrentKept, NotRefused DEF Fail
    <3>2. Coherent(info') /\ Returned
      BY <2>0, <2>7 DEF Fail, Return, Returned
    <3> QED BY <3>1, <3>2, ReturnedTokens
  <2>8. CASE UNCHANGED vars
    <3>1. /\ info' = info /\ held' = held /\ grant' = grant /\ op' = op /\ last' = last
          /\ pc' = pc /\ req' = req /\ raced' = raced
      BY <2>8 DEF vars
    <3>2. Coherent(info)' /\ GrantHonoured'
      BY <3>1 DEF TInv, GrantHonoured
    <3>3. Honest' /\ Covered'
      BY <3>1 DEF TInv, Honest, Covered, Authorises, ForRP, flowProtocol
    <3>4. Current'
      BY <2>0, <3>1, CurrentKept
    <3> QED BY <3>2, <3>3, <3>4 DEF TInv
  <2> QED BY <2>4, <2>5, <2>6, <2>7, <2>8, OtherPlatformHonoured DEF Next
<1>3. Spec => []TInv
  BY <1>1, <1>2, Invariance, PTL DEF Spec
<1>4. TInv => GrantHonoured
  BY DEF TInv
<1> QED BY <1>3, <1>4, PTL
=============================================================================
