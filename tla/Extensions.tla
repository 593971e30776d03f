------------------------------ MODULE Extensions ------------------------------
(***************************************************************************)
(* The extensions of authenticator.Device: what MakeCredential and         *)
(* GetAssertion send for the extensions the caller asks for, and which     *)
(* answers of the authenticator they accept (prf.go, large_blob.go,        *)
(* preview_sign.go, extension_validation.go).                              *)
(*                                                                         *)
(* Information has two fields more than in Preflight: the extensions the   *)
(* authenticator lists and maxCredBlob.  The caller's inputs x are a       *)
(* record: ask, the names of the extensions asked for, and one field for   *)
(* each that has parameters; maps names the parameters by credential that  *)
(* are given at all, if only as an empty map.  An answer o is a record too: outs, the names *)
(* of the outputs it has, and their values.  Every error is the same       *)
(* error, so a validation is a predicate, or a record with ok.             *)
(***************************************************************************)
EXTENDS Preflight, FiniteSets

CONSTANTS NoInput,   \* a PRF input that is absent
          Approved   \* the algorithms FIPS 140 approves

Lists(i, name) == name \in i.extensions
Asks(x, name) == name \in x.ask
Include(condition, names) == IF condition THEN names ELSE {}

userVerificationWillBePerformed(i, by) ==
    by \in {"token", "uv"} \/ (alwaysUVEnabled(i) /\ On(i, "uv"))

-----------------------------------------------------------------------------
(* PRF.  Values are [first, second]; x.prf is [eval, by], by a function    *)
(* from credentials to values.  A base64url key that is not a credential   *)
(* ID is one that is not in the allow list.                                *)

NoValues == [first |-> NoInput, second |-> NoInput]

prfCapabilities(i) == Lists(i, "hmac-secret-mc") => Lists(i, "hmac-secret")

validateOptionalPRFValues(v) == v.first = NoInput => v.second = NoInput

validateGetPRFInputs(p, allow) ==
    /\ validateOptionalPRFValues(p.eval)
    /\ DOMAIN p.by # {} => allow # {}
    /\ \A c \in DOMAIN p.by : c \in allow /\ p.by[c].first # NoInput

selectPRFEvaluationForCredential(p, c) ==
    IF c \in DOMAIN p.by THEN p.by[c]
    ELSE IF p.eval.first # NoInput THEN p.eval ELSE NoValues

\* Mutant: the values of some allowed credential are used for all.
selectPRFEvaluationOfAny(p, allow) ==
    [ok |-> validateGetPRFInputs(p, allow),
     values |-> IF DOMAIN p.by = {} THEN selectPRFEvaluationForCredential(p, NoInput)
                ELSE selectPRFEvaluationForCredential(p, CHOOSE c \in DOMAIN p.by : TRUE)]

\* One request carries one evaluation: every credential the authenticator may
\* choose from the allow list must have the same.
selectCTAPGetPRFEvaluation(p, allow) ==
    LET effective == {selectPRFEvaluationForCredential(p, c) : c \in allow}
    IN  [ok |-> /\ validateGetPRFInputs(p, allow)
                /\ DOMAIN p.by # {} => Cardinality(effective) = 1,
         values |-> IF DOMAIN p.by = {} \/ Cardinality(effective) # 1
                    THEN selectPRFEvaluationForCredential(p, NoInput)
                    ELSE CHOOSE v \in effective : TRUE]

validateHMACSecretUserPresence(up) == up

\* The evaluation MakeCredential asks for is optional: without user
\* verification it is left out.
validateCreatePRF(i, x, by) ==
    LET evaluate == /\ x.prf.eval.first # NoInput
                    /\ {"hmac-secret", "hmac-secret-mc"} \subseteq i.extensions
                    /\ userVerificationWillBePerformed(i, by)
    IN  [ok |-> Asks(x, "prf") => /\ "evalByCredential" \notin x.maps
                                  /\ validateOptionalPRFValues(x.prf.eval)
                                  /\ prfCapabilities(i),
         values |-> IF Asks(x, "prf") /\ evaluate THEN x.prf.eval ELSE NoValues]

validateGetPRF(i, x, by, up, allow) ==
    LET selected == selectCTAPGetPRFEvaluation(x.prf, allow)
        evaluate == /\ Asks(x, "prf") /\ Lists(i, "hmac-secret")
                    /\ selected.values # NoValues
    IN  [ok |-> /\ Asks(x, "prf") => selected.ok /\ prfCapabilities(i)
                /\ evaluate => /\ validateHMACSecretUserPresence(up)
                               /\ userVerificationWillBePerformed(i, by),
         values |-> IF evaluate THEN selected.values ELSE NoValues]

hashPRFInput(input) == <<"WebAuthn PRF", input>>

prfSalts(v) == IF v = NoValues THEN <<>>
               ELSE IF v.second = NoInput THEN <<hashPRFInput(v.first)>>
               ELSE <<hashPRFInput(v.first), hashPRFInput(v.second)>>

validatePRFResultLength(v, secrets) == Len(secrets) = Len(prfSalts(v))

\* The salts go out encrypted and authenticated with the shared secret of the
\* protocol; the request names the protocol unless it is protocol 1.
newHMACSecretInput(n, salts) ==
    [protocol |-> IF n = 1 THEN 0 ELSE n, salts |-> salts]

validateHMACGetSecretSalts(salts) == Len(salts) \in {1, 2}

-----------------------------------------------------------------------------
(* Large blobs: an authenticator has none, keeps them itself (direct), or  *)
(* gives out keys for an array the platform reads and writes (legacy).     *)

largeBlobExclusive(i) ==
    Lists(i, "largeBlob") => ~Lists(i, "largeBlobKey") /\ ~On(i, "largeBlobs")

largeBlobBackendForInfo(i) ==
    IF Lists(i, "largeBlob") THEN "direct"
    ELSE IF Lists(i, "largeBlobKey") /\ On(i, "largeBlobs") THEN "legacy"
    ELSE "none"

validateCreateLargeBlob(i, x, rk) ==
    LET backend == largeBlobBackendForInfo(i)
    IN  IF ~Asks(x, "largeBlob") THEN [ok |-> TRUE, backend |-> "none", key |-> FALSE]
        ELSE [ok |-> /\ x.blob \in {"preferred", "required"}
                     /\ largeBlobExclusive(i)
                     /\ x.blob = "required" => \/ backend = "direct"
                                               \/ backend = "legacy" /\ rk,
              backend |-> backend,
              key |-> backend = "legacy" /\ rk]

createLargeBlobOutput(x, lb, o) ==
    LET supported == \/ lb.backend = "direct" /\ "largeBlob" \in o.outs
                     \/ lb.key
    IN  [ok |-> /\ "largeBlob" \in o.outs =>
                      Asks(x, "largeBlob") /\ lb.backend = "direct" /\ o.supported
                /\ "largeBlobKey" \in o.outs <=> lb.key
                /\ Asks(x, "largeBlob") /\ x.blob = "required" => supported,
         supported |-> supported]

\* Reading with read = false is no request at all.
validateGetLargeBlob(i, x, allow) ==
    IF ~Asks(x, "largeBlob") \/ x.blob = "dontRead" THEN [ok |-> TRUE, backend |-> "none"]
    ELSE [ok |-> /\ x.blob \in {"read", "write"}
                 /\ x.blob = "write" => Cardinality(allow) = 1
                 /\ largeBlobExclusive(i)
                 /\ largeBlobBackendForInfo(i) # "none",
          backend |-> largeBlobBackendForInfo(i)]

\* The output of the direct backend has a blob, or says whether it was
\* written, or neither; a blob comes with its size.
getLargeBlobOutput(x, backend, o) ==
    /\ "largeBlob" \in o.outs => backend = "direct"
    /\ "largeBlobKey" \in o.outs => backend = "legacy"
    /\ backend = "direct" =>
          IF x.blob = "read" THEN "largeBlob" \in o.outs => o.blob \in {"empty", "blob"}
          ELSE "largeBlob" \in o.outs /\ o.blob = "written"

-----------------------------------------------------------------------------
(* previewSign. *)

FilterPreviewSignAlgorithms(algorithms) ==
    IF FIPS THEN algorithms \intersect Approved ELSE algorithms

validateCreatePreviewSign(i, x) ==
    /\ "signByCredential" \notin x.maps
    /\ FilterPreviewSignAlgorithms(x.algorithms) # {}
    /\ Lists(i, "previewSign")

\* The arguments are a CBOR map with an algorithm, or absent.
validatePreviewSignSignInputs(s) == s.key # NoInput /\ s.tbs # NoInput /\ s.args # "malformed"

\* As for PRF, one request has the arguments of one credential.
validateGetPreviewSign(i, x, allow) ==
    /\ x.algorithms = {}
    /\ Lists(i, "previewSign")
    /\ allow # {} /\ DOMAIN x.sign = allow
    /\ \A c \in allow : validatePreviewSignSignInputs(x.sign[c])
    /\ \A c, d \in allow : x.sign[c] = x.sign[d]

\* inner: the attestation of the signing key is complete and agrees with the
\* outer authenticator data.
createPreviewSignOutput(x, o) ==
    IF Asks(x, "previewSign")
    THEN /\ "previewSign" \in o.outs
         /\ o.algorithm \in FilterPreviewSignAlgorithms(x.algorithms)
         /\ o.inner
    ELSE "previewSign" \notin o.outs

getPreviewSignOutput(x, o) == Asks(x, "previewSign") <=> "previewSign" \in o.outs

-----------------------------------------------------------------------------
(* The requests and the answers. *)

validateCredentialBlobSupport(i) ==
    Lists(i, "credBlob") /\ Lists(i, "credProtect") /\ i.maxCredBlob >= 32

validateHMACSecretMCSupport(i) ==
    Lists(i, "hmac-secret-mc") /\ Lists(i, "hmac-secret")

\* The extensions that are a Boolean in the request.
Flags == {"hmac-secret", "minPinLength", "pinComplexityPolicy", "thirdPartyPayment"}

\* What is checked before the key agreement of a request with salts is ok,
\* what is checked after it is rest.  A credential blob that is too long is
\* left out.
createExtensions(i, x, by, rk) ==
    LET prf == validateCreatePRF(i, x, by)
        lb == validateCreateLargeBlob(i, x, rk)
        salts == IF Asks(x, "hmac-secret-mc") THEN x.salts ELSE prfSalts(prf.values)
        enforced == Asks(x, "credProtect") /\ x.enforce /\ x.level # 1
    IN  [ok |-> /\ ~({"hmac-secret-mc", "prf"} \subseteq x.ask)
                /\ prf.ok /\ lb.ok
                /\ Asks(x, "hmac-secret") => Lists(i, "hmac-secret")
                /\ Asks(x, "hmac-secret-mc") => /\ validateHMACSecretMCSupport(i)
                                                /\ validateHMACGetSecretSalts(x.salts)
                /\ salts # <<>> => requirePinUvAuthProtocol(i) # 0,
         rest |-> /\ enforced => Lists(i, "credProtect")
                  /\ Asks(x, "credBlob") => validateCredentialBlobSupport(i)
                  /\ x.ask \intersect Flags \subseteq i.extensions
                  /\ Asks(x, "previewSign") => validateCreatePreviewSign(i, x),
         sent |-> (x.ask \intersect (Flags \union {"credProtect", "previewSign"}))
                  \union Include(salts # <<>>, {"hmac-secret", "hmac-secret-mc"})
                  \union Include(Asks(x, "prf") /\ Lists(i, "hmac-secret"), {"hmac-secret"})
                  \union Include(Asks(x, "credBlob") /\ x.blobLength <= i.maxCredBlob, {"credBlob"})
                  \union Include(lb.backend = "direct", {"largeBlob"})
                  \union Include(lb.key, {"largeBlobKey"}),
         hmac |-> newHMACSecretInput(requirePinUvAuthProtocol(i), salts),
         largeBlob |-> lb,
         values |-> prf.values]

\* Mutant: an output nobody asked for is accepted.
validateMakeCredentialOutputsPresent(r, x, o) ==
    {"credBlob", "hmac-secret", "hmac-secret-mc"} \intersect r.sent \subseteq o.outs

validateMakeCredentialExtensionOutputs(r, x, o) ==
    LET checked == {"credProtect", "credBlob", "minPinLength", "pinComplexityPolicy",
                    "hmac-secret", "hmac-secret-mc"}
    IN  /\ o.outs \intersect checked \subseteq r.sent
        /\ {"credBlob", "hmac-secret", "hmac-secret-mc"} \intersect r.sent \subseteq o.outs
        /\ Asks(x, "credProtect") /\ x.enforce /\ x.level # 1 =>
              "credProtect" \in o.outs /\ o.level >= x.level

\* What MakeCredential returns for the answer o, if it accepts it.
createOutputs(x, r, o) ==
    LET lb == createLargeBlobOutput(x, r.largeBlob, o)
        results == "hmac-secret-mc" \in o.outs
    IN  [ok |-> /\ lb.ok
                /\ validateMakeCredentialExtensionOutputs(r, x, o)
                /\ createPreviewSignOutput(x, o)
                /\ results => /\ Asks(x, "prf") => o.uv /\ "hmac-secret" \in o.outs /\ o.enabled
                              /\ r.hmac.salts # <<>>
                              /\ r.values # NoValues => validatePRFResultLength(r.values, o.secrets)
                              /\ Len(o.secrets) \in {1, 2},
         outs |-> Include(Asks(x, "largeBlob"), {"largeBlob"})
                  \union Include(Asks(x, "prf"), {"prf"})
                  \union (o.outs \intersect {"credBlob", "previewSign"})
                  \union Include("hmac-secret" \in o.outs /\ Asks(x, "hmac-secret"), {"hmac-secret"})
                  \union Include(results /\ ~Asks(x, "prf"), {"hmac-secret-mc"}),
         supported |-> lb.supported,
         secrets |-> IF results THEN o.secrets ELSE <<>>]

getExtensions(i, x, by, up, allow) ==
    LET prf == validateGetPRF(i, x, by, up, allow)
        lb == validateGetLargeBlob(i, x, allow)
        salts == IF Asks(x, "hmac-secret") THEN x.salts ELSE prfSalts(prf.values)
    IN  [ok |-> /\ ~({"hmac-secret", "prf"} \subseteq x.ask)
                /\ prf.ok /\ lb.ok
                /\ Asks(x, "hmac-secret") => /\ validateHMACSecretUserPresence(up)
                                             /\ Lists(i, "hmac-secret")
                                             /\ validateHMACGetSecretSalts(x.salts)
                /\ salts # <<>> => requirePinUvAuthProtocol(i) # 0,
         rest |-> /\ Asks(x, "credBlob") => validateCredentialBlobSupport(i)
                  /\ Asks(x, "thirdPartyPayment") => Lists(i, "thirdPartyPayment")
                  /\ Asks(x, "previewSign") => validateGetPreviewSign(i, x, allow),
         sent |-> (x.ask \intersect {"credBlob", "thirdPartyPayment", "previewSign"})
                  \union Include(salts # <<>>, {"hmac-secret"})
                  \union Include(lb.backend = "direct", {"largeBlob"})
                  \union Include(lb.backend = "legacy", {"largeBlobKey"}),
         hmac |-> newHMACSecretInput(requirePinUvAuthProtocol(i), salts),
         largeBlob |-> lb,
         values |-> prf.values]

validateGetAssertionExtensionOutputs(r, o) ==
    LET checked == {"credBlob", "hmac-secret", "thirdPartyPayment"}
    IN  /\ o.outs \intersect checked \subseteq r.sent
        /\ {"credBlob", "thirdPartyPayment"} \intersect r.sent \subseteq o.outs

\* What GetAssertion yields for the assertion o, if it accepts it.
getOutputs(x, r, o) ==
    LET results == "hmac-secret" \in o.outs
    IN  [ok |-> /\ getLargeBlobOutput(x, r.largeBlob.backend, o)
                /\ validateGetAssertionExtensionOutputs(r, o)
                /\ getPreviewSignOutput(x, o)
                /\ results => /\ Asks(x, "prf") => o.uv
                              /\ r.hmac.salts # <<>>
                              /\ r.values # NoValues => validatePRFResultLength(r.values, o.secrets)
                              /\ Len(o.secrets) \in {1, 2},
         outs |-> (o.outs \intersect {"credBlob", "previewSign"})
                  \union Include(Asks(x, "prf"), {"prf"})
                  \union Include(r.largeBlob.backend # "none", {"largeBlob"})
                  \union Include(results /\ Asks(x, "hmac-secret"), {"hmac-secret"}),
         secrets |-> IF results THEN o.secrets ELSE <<>>]
=============================================================================
