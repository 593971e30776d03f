------------------------------ MODULE Preflight ------------------------------
(***************************************************************************)
(* authenticator/preflight.go: what Device decides on the authenticator's  *)
(* information before it sends a command.                                  *)
(*                                                                         *)
(* Information is a record: the versions, the options the authenticator    *)
(* reports (a function on the names it reports, because an option that is  *)
(* absent and one that is false mean different things), the PIN/UV auth    *)
(* protocols in its order of preference, and the authenticatorConfig       *)
(* subcommands it lists.  Permissions are sets of names, NoRP the empty RP *)
(* ID.  A check that only refuses is a predicate; which error it returns   *)
(* is left out, except ErrPinUvAuthTokenRequired, which asks the caller to *)
(* come back with a token.                                                 *)
(***************************************************************************)
EXTENDS Naturals, Sequences

CONSTANT NoRP

Reports(i, o) == o \in DOMAIN i.options
On(i, o) == Reports(i, o) /\ i.options[o]

McGa == {"mc", "ga"}

isFIDO20Only(i) ==
    "FIDO_2_0" \in i.versions /\ i.versions \subseteq {"FIDO_2_0", "U2F_V2"}

IsPreviewOnly(i) ==
    /\ {"FIDO_2_0", "FIDO_2_1_PRE"} \subseteq i.versions
    /\ i.versions \intersect {"FIDO_2_1", "FIDO_2_3"} = {}

hasConfiguredUserVerification(i) == On(i, "clientPin") \/ On(i, "uv")

alwaysUVEnabled(i) == ~isFIDO20Only(i) /\ On(i, "alwaysUv")

-----------------------------------------------------------------------------
(* PIN/UV auth protocols and token lengths.  FIPS is the FIPS 140 policy,  *)
(* which leaves only protocol 2.                                           *)

CONSTANT FIPS
ASSUME FIPSAssumption == FIPS \in BOOLEAN

ValidateFIPS140UvAuthProtocol(n) == ~FIPS \/ n = 2

ValidateUvAuthToken(n, len) ==
    /\ ValidateFIPS140UvAuthProtocol(n)
    /\ \/ n = 1 /\ len > 0 /\ len % 16 = 0
       \/ n = 2 /\ len = 32

\* The first protocol of the list the library supports; an early preview
\* authenticator with uvToken may leave the list out and means protocol 1.
\* 0 stands for the error.
requirePinUvAuthProtocol(i) ==
    LET usable(n) == n \in {1, 2} /\ ValidateFIPS140UvAuthProtocol(n)
        first == {k \in DOMAIN i.protocols : /\ usable(i.protocols[k])
                                             /\ \A j \in 1..(k - 1) : ~usable(i.protocols[j])}
    IN  IF first # {} THEN i.protocols[CHOOSE k \in first : TRUE]
        ELSE IF /\ i.protocols = <<>>
                /\ IsPreviewOnly(i) /\ On(i, "uvToken")
                /\ ValidateFIPS140UvAuthProtocol(1)
             THEN 1
             ELSE 0

\* The protocol of a request that carries a token of this length, 0 if the
\* token is refused.  CTAP 2.1 narrowed the lengths of protocol 1.
pinUvAuthProtocolForRequest(i, len) ==
    LET n == requirePinUvAuthProtocol(i)
    IN  IF /\ n # 0
           /\ ~isFIDO20Only(i) /\ ~IsPreviewOnly(i) /\ n = 1 => len \in {16, 32}
           /\ ValidateUvAuthToken(n, len)
        THEN n ELSE 0

-----------------------------------------------------------------------------
(* MakeCredential and GetAssertion.  A request is authorised by nothing,   *)
(* by a token, or by built-in user verification.                           *)

Auths == {"none", "token", "uv"}

validateUserVerificationRequest(i, by) == by = "uv" => On(i, "uv")

validateMakeCredentialAuthorization(i, by, rk) ==
    LET configured == hasConfiguredUserVerification(i)
        requiresUV == IF isFIDO20Only(i) THEN configured
                      ELSE alwaysUVEnabled(i) \/ (configured /\ (~On(i, "makeCredUvNotRqd") \/ rk))
    IN  IF ~validateUserVerificationRequest(i, by) THEN "refused"
        ELSE IF requiresUV /\ by = "none" /\ ~(alwaysUVEnabled(i) /\ On(i, "uv"))
             THEN "tokenRequired"
             ELSE "ok"

\* rk: the option is given, with whatever value.
validateGetAssertionAuthorization(i, by, up, rk) ==
    IF ~validateUserVerificationRequest(i, by) \/ rk THEN "refused"
    ELSE IF ~alwaysUVEnabled(i) \/ ~up \/ by # "none" \/ On(i, "uv") THEN "ok"
    ELSE IF On(i, "clientPin") /\ ~On(i, "noMcGaPermissionsWithClientPin") THEN "tokenRequired"
    ELSE "refused"

-----------------------------------------------------------------------------
(* Commands that exist in a preview and a final form: the mode, or none.   *)

bioEnrollmentMode(i) ==
    IF IsPreviewOnly(i)
    THEN IF Reports(i, "userVerificationMgmtPreview") THEN "preview" ELSE "none"
    ELSE IF Reports(i, "bioEnroll") THEN "final" ELSE "none"

credentialManagementMode(i) ==
    IF IsPreviewOnly(i)
    THEN IF On(i, "credentialMgmtPreview") THEN "preview" ELSE "none"
    ELSE IF On(i, "credMgmt") THEN "final" ELSE "none"

largeBlobsAuthorizationRequired(i) == hasConfiguredUserVerification(i) \/ alwaysUVEnabled(i)

configAuthorizationRequired(i, sub) ==
    /\ hasConfiguredUserVerification(i) \/ alwaysUVEnabled(i)
    /\ ~(sub = "toggleAlwaysUv" /\ ~hasConfiguredUserVerification(i) /\ alwaysUVEnabled(i))

validateAuthenticatorConfigCommand(i, sub) ==
    /\ On(i, "authnrCfg")
    /\ "FIDO_2_3" \in i.versions => sub \in i.configCommands

-----------------------------------------------------------------------------
(* Token flows. *)

validatePinUvAuthTokenPermissionSet(perms) ==
    perms # {} /\ ("pcmr" \in perms => perms = {"pcmr"})

validatePinUvAuthTokenPermissionRPID(perms, rp) ==
    perms \intersect McGa # {} => rp # NoRP

permissionedPinUvAuthTokensSupported(i) == ~isFIDO20Only(i) /\ On(i, "pinUvAuthToken")

\* Mutant: a legacy token is taken for any permission.
selectPinTokenFlowAnyLegacy(i, perms, rp) ==
    IF On(i, "clientPin") /\ perms # {}
    THEN IF permissionedPinUvAuthTokensSupported(i) THEN "permissions" ELSE "legacy"
    ELSE "refused"

\* The permissions of the commands that have a preview form are legacy
\* permissions of an authenticator that has only that form.
selectPinTokenFlowUsingPIN(i, perms, rp) ==
    LET previewPermissions == IF IsPreviewOnly(i) THEN perms \intersect {"cm", "be"} ELSE {}
        supported ==
            /\ ~isFIDO20Only(i) \/ perms # {} => validatePinUvAuthTokenPermissionSet(perms)
            /\ On(i, "clientPin")
            /\ On(i, "noMcGaPermissionsWithClientPin") => perms \intersect McGa = {}
            /\ "cm" \in perms => IF IsPreviewOnly(i) THEN credentialManagementMode(i) # "none"
                                 ELSE On(i, "credMgmt")
            /\ "be" \in perms => IF IsPreviewOnly(i) THEN bioEnrollmentMode(i) # "none"
                                 ELSE Reports(i, "bioEnroll")
            /\ "lbw" \in perms => On(i, "largeBlobs")
            /\ "acfg" \in perms => On(i, "authnrCfg")
            /\ "pcmr" \in perms => On(i, "perCredMgmtRO")
    IN  IF ~supported THEN "refused"
        ELSE IF ~permissionedPinUvAuthTokensSupported(i) \/ previewPermissions # {}
             THEN IF perms \subseteq McGa \union previewPermissions THEN "legacy" ELSE "refused"
             ELSE IF validatePinUvAuthTokenPermissionRPID(perms, rp) THEN "permissions"
             ELSE "refused"

selectPinUvAuthTokenFlowUsingUV(i, perms, rp) ==
    LET legacyPermissions ==
            McGa \union (IF credentialManagementMode(i) # "none" THEN {"cm"} ELSE {})
                 \union (IF bioEnrollmentMode(i) # "none" THEN {"be"} ELSE {})
        preview == IsPreviewOnly(i) /\ On(i, "uvToken")
        supported ==
            /\ permissionedPinUvAuthTokensSupported(i)
            /\ "cm" \in perms => On(i, "credMgmt")
            /\ "be" \in perms => Reports(i, "bioEnroll") /\ On(i, "uvBioEnroll")
            /\ "lbw" \in perms => On(i, "largeBlobs")
            /\ "acfg" \in perms => On(i, "authnrCfg") /\ On(i, "uvAcfg")
            /\ "pcmr" \in perms => On(i, "perCredMgmtRO")
            /\ validatePinUvAuthTokenPermissionRPID(perms, rp)
    IN  IF ~validatePinUvAuthTokenPermissionSet(perms) \/ ~On(i, "uv") THEN "refused"
        ELSE IF preview
             THEN IF /\ i.protocols = <<>> \/ 1 \in {i.protocols[k] : k \in DOMAIN i.protocols}
                     /\ perms \subseteq legacyPermissions
                  THEN "previewUv" ELSE "refused"
             ELSE IF supported THEN "uvPermissions" ELSE "refused"
=============================================================================
