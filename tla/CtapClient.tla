------------------------------ MODULE CtapClient ------------------------------
(***************************************************************************)
(* client/commands.go: the request each client method sends, and what it   *)
(* authenticates with a pinUvAuthToken or a shared secret.                 *)
(*                                                                         *)
(* A request has a command, a subcommand, its parameters and the           *)
(* pinUvAuthParam.  A CBOR map is the set of its members (<<name, value>>, *)
(* a zero value left out), and the bytes of a message are the sequence of  *)
(* its parts, so a message is distinguished from another as the bytes      *)
(* would.  Encryption is symbolic: a ciphertext opens with its secret.     *)
(***************************************************************************)
EXTENDS Naturals, Sequences

\* crypto.Authenticate with a protocol and a key, and the parameter left out.
Authenticate(n, key, message) == [protocol |-> n, key |-> key, message |-> message]
NoParam == [protocol |-> 0, key |-> 0, message |-> <<>>]

Byte(b) == <<"byte", b>>
Map(members) == <<"map", members>>
Hash(data) == <<"sha256", data>>
Padding == <<"padding", 32>>

\* A structure marshalled with omitzero: nothing if no member is set.
OmitZero(members) == IF members = {} THEN <<>> ELSE <<Map(members)>>
NonZero(name, number) == IF number = 0 THEN {} ELSE {<<name, number>>}

Request(command, sub, params, param) ==
    [command |-> command, sub |-> sub, params |-> params, param |-> param]

-----------------------------------------------------------------------------
(* authenticatorClientPIN.  Encapsulate agrees on a secret with the key    *)
(* the authenticator had when it was asked for it.                         *)

Encapsulate(n, key) == [protocol |-> n, agreed |-> key]
Encrypt(secret, plain) == <<"enc", secret, plain>>

ClientPIN(sub, params, param) == Request("clientPIN", sub, params, param)

GetPINRetries(n)   == ClientPIN("getPINRetries", NonZero("protocol", n), NoParam)
GetUVRetries(n)    == ClientPIN("getUVRetries", NonZero("protocol", n), NoParam)
GetKeyAgreement(n) == ClientPIN("getKeyAgreement", {<<"protocol", n>>}, NoParam)

encryptNewPIN(secret, pin) == Encrypt(secret, <<"padded", pin>>)
encryptPINHash(secret, pin) == Encrypt(secret, <<"hash16", pin>>)

SetPIN(n, key, pin) ==
    LET secret == Encapsulate(n, key)
        newPinEnc == encryptNewPIN(secret, pin)
    IN  ClientPIN("setPIN", {<<"keyAgreement", secret>>, <<"newPinEnc", newPinEnc>>},
                  Authenticate(n, secret, <<newPinEnc>>))

ChangePIN(n, key, currentPin, newPin) ==
    LET secret == Encapsulate(n, key)
        newPinEnc == encryptNewPIN(secret, newPin)
        pinHashEnc == encryptPINHash(secret, currentPin)
    IN  ClientPIN("changePIN", {<<"keyAgreement", secret>>, <<"newPinEnc", newPinEnc>>,
                                <<"pinHashEnc", pinHashEnc>>},
                  Authenticate(n, secret, <<newPinEnc, pinHashEnc>>))

GetPinToken(n, key, pin) ==
    LET secret == Encapsulate(n, key)
    IN  ClientPIN("getPinToken",
                  {<<"keyAgreement", secret>>, <<"pinHashEnc", encryptPINHash(secret, pin)>>}, NoParam)

GetPinUvAuthTokenUsingPinWithPermissions(n, key, pin, permissions, rpID) ==
    LET secret == Encapsulate(n, key)
    IN  ClientPIN("getTokenUsingPinWithPermissions",
                  {<<"keyAgreement", secret>>, <<"pinHashEnc", encryptPINHash(secret, pin)>>,
                   <<"permissions", permissions>>, <<"rpId", rpID>>}, NoParam)

getPinUvAuthTokenUsingUv(n, key, permissions, rpID) ==
    ClientPIN("getTokenUsingUvWithPermissions",
              {<<"keyAgreement", Encapsulate(n, key)>>, <<"permissions", permissions>>,
               <<"rpId", rpID>>}, NoParam)

\* The preview form uses protocol 1, no permissions and no RP ID.
GetPinUvAuthTokenUsingUv(key, noRP) == getPinUvAuthTokenUsingUv(1, key, {}, noRP)

GetPinUvAuthTokenUsingUvWithPermissions(n, key, permissions, rpID) ==
    getPinUvAuthTokenUsingUv(n, key, permissions, rpID)

-----------------------------------------------------------------------------
(* authenticatorMakeCredential and authenticatorGetAssertion. *)

MakeCredential(n, token, clientDataHash, rk) ==
    Request("makeCredential", "", {<<"clientDataHash", clientDataHash>>, <<"rk", rk>>},
            IF n = 0 THEN NoParam ELSE Authenticate(n, token, <<clientDataHash>>))

GetAssertion(n, token, clientDataHash) ==
    Request("getAssertion", "", {<<"clientDataHash", clientDataHash>>},
            IF n = 0 THEN NoParam ELSE Authenticate(n, token, <<clientDataHash>>))

-----------------------------------------------------------------------------
(* authenticatorBioEnrollment: modality || subcommand || parameters. *)

BioCommand(preview) == IF preview THEN "prototypeBioEnrollment" ELSE "bioEnrollment"

BioRequest(preview, sub, params, n, token, authenticated) ==
    Request(BioCommand(preview), sub, params,
            IF n = 0 THEN NoParam
            ELSE Authenticate(n, token, <<Byte("fingerprint"), Byte(sub)>> \o authenticated))

GetBioModality(preview) == BioRequest(preview, "getModality", <<>>, 0, 0, <<>>)
GetFingerprintSensorInfo(preview) ==
    BioRequest(preview, "getFingerprintSensorInfo", <<>>, 0, 0, <<>>)
CancelCurrentEnrollment(preview) ==
    BioRequest(preview, "cancelCurrentEnrollment", <<>>, 0, 0, <<>>)

\* Mutant: the parameters are authenticated although none is sent.
EnrollBeginEmptyMap(preview, n, token, timeout) ==
    LET params == NonZero("timeout", timeout)
    IN  BioRequest(preview, "enrollBegin", OmitZero(params), n, token, <<Map(params)>>)

EnrollBegin(preview, n, token, timeout) ==
    LET params == NonZero("timeout", timeout)
    IN  BioRequest(preview, "enrollBegin", OmitZero(params), n, token,
                   IF timeout = 0 THEN <<>> ELSE <<Map(params)>>)

EnrollCaptureNextSample(preview, n, token, templateID, timeout) ==
    LET params == {<<"templateId", templateID>>} \union NonZero("timeout", timeout)
    IN  BioRequest(preview, "enrollCaptureNextSample", OmitZero(params), n, token, <<Map(params)>>)

EnumerateEnrollments(preview, n, token) ==
    BioRequest(preview, "enumerateEnrollments", <<>>, n, token, <<>>)

\* The name is a pointer: an empty name is sent too.
SetFriendlyName(preview, n, token, templateID, name) ==
    LET params == {<<"templateId", templateID>>, <<"friendlyName", name>>}
    IN  BioRequest(preview, "setFriendlyName", OmitZero(params), n, token, <<Map(params)>>)

RemoveEnrollment(preview, n, token, templateID) ==
    LET params == {<<"templateId", templateID>>}
    IN  BioRequest(preview, "removeEnrollment", OmitZero(params), n, token, <<Map(params)>>)

-----------------------------------------------------------------------------
(* authenticatorCredentialManagement: subcommand || parameters.            *)
(* The requests for the next item of an enumeration carry nothing.         *)

CredentialCommand(preview) ==
    IF preview THEN "prototypeCredentialManagement" ELSE "credentialManagement"

CredentialRequest(preview, sub, params, n, token, authenticated) ==
    Request(CredentialCommand(preview), sub, params,
            IF n = 0 THEN NoParam ELSE Authenticate(n, token, <<Byte(sub)>> \o authenticated))

GetCredsMetadata(preview, n, token) ==
    CredentialRequest(preview, "getCredsMetadata", <<>>, n, token, <<>>)

EnumerateRPsBegin(preview, n, token) ==
    CredentialRequest(preview, "enumerateRPsBegin", <<>>, n, token, <<>>)

EnumerateCredentialsBegin(preview, n, token, rpIDHash) ==
    LET params == {<<"rpIDHash", rpIDHash>>}
    IN  CredentialRequest(preview, "enumerateCredentialsBegin", OmitZero(params), n, token,
                          <<Map(params)>>)

DeleteCredential(preview, n, token, credentialID) ==
    LET params == {<<"credentialID", credentialID>>}
    IN  CredentialRequest(preview, "deleteCredential", OmitZero(params), n, token, <<Map(params)>>)

UpdateUserInformation(preview, n, token, credentialID, user) ==
    LET params == {<<"credentialID", credentialID>>, <<"user", user>>}
    IN  CredentialRequest(preview, "updateUserInformation", OmitZero(params), n, token,
                          <<Map(params)>>)

-----------------------------------------------------------------------------
(* authenticatorLargeBlobs: padding || 0x0c00 || offset || SHA-256(set).   *)

LargeBlobs(n, token, get, set, offset, length) ==
    Request("largeBlobs", "",
            (IF set = <<>> \/ get # 0 THEN {<<"get", get>>} ELSE {})
               \union (IF set = <<>> THEN {} ELSE {<<"set", set>>})
               \union {<<"offset", offset>>} \union NonZero("length", length),
            IF n = 0 THEN NoParam
            ELSE Authenticate(n, token, <<Padding, Byte("0c00"), <<"uint32", offset>>, Hash(set)>>))

-----------------------------------------------------------------------------
(* authenticatorConfig: padding || 0x0d || subcommand || parameters.       *)

ConfigRequest(sub, params, n, token) ==
    Request("config", sub, params,
            IF n = 0 THEN NoParam
            ELSE Authenticate(n, token, <<Padding, Byte("0d"), Byte(sub)>> \o params))

EnableEnterpriseAttestation(n, token) == ConfigRequest("enableEnterpriseAttestation", <<>>, n, token)
ToggleAlwaysUV(n, token) == ConfigRequest("toggleAlwaysUv", <<>>, n, token)
EnableLongTouchForReset(n, token) == ConfigRequest("enableLongTouchForReset", <<>>, n, token)

\* The parameters are a pointer: an empty map is sent too.
SetMinPINLength(n, token, params) == ConfigRequest("setMinPINLength", <<Map(params)>>, n, token)

-----------------------------------------------------------------------------
Reset == Request("reset", "", <<>>, NoParam)
Selection == Request("selection", "", <<>>, NoParam)
GetInfo == Request("getInfo", "", <<>>, NoParam)
=============================================================================
