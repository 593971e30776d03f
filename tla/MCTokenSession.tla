---- MODULE MCTokenSession ----
EXTENDS TokenSession, FiniteSets

CONSTANTS PreviewProtocols \* the protocol lists of authenticators with uvToken

ProtocolOne == {<<>>, <<1>>}
TwoThenOne == {<<2, 1>>}

\* Options that are absent, or present with a value.
Absent == "absent"
Options(f) == [o \in {n \in DOMAIN f : f[n] # Absent} |-> f[o] = "on"]

Info(versions, options, protocols, config) ==
    [versions |-> versions, options |-> Options(options), protocols |-> protocols,
     configCommands |-> config, forcePINChange |-> FALSE, minPINLength |-> 4, maxPINLength |-> 6]

Tri == {Absent, "off", "on"}
Two == {Absent, "on"}

CTAP20 == {Info({"FIDO_2_0", "U2F_V2"}, [clientPin |-> c, uv |-> u], <<1>>, {}) :
              c \in Tri, u \in Two}

PreviewInfo(v, uvToken, permissioned, bio, protocols) ==
    Info({"FIDO_2_0", "FIDO_2_1_PRE"},
         [clientPin |-> v[1], uv |-> v[2], uvToken |-> uvToken, pinUvAuthToken |-> permissioned,
          credentialMgmtPreview |-> "on", userVerificationMgmtPreview |-> bio], protocols, {})

\* With a PIN, a fingerprint or both.
Configured == (Two \X Two) \ {<<Absent, Absent>>}

Preview == {PreviewInfo(v, "on", Absent, "off", n) : v \in Configured, n \in PreviewProtocols}
    \union {PreviewInfo(v, Absent, "on", "off", <<1>>) : v \in Configured}
    \union {PreviewInfo(v, Absent, Absent, Absent, <<1>>) : v \in Configured}

\* The features are all there but those missing.
Feature(f, missing) == IF f \in missing THEN Absent ELSE "on"

CTAP21(v, permissioned, always, noMcGa, missing, protocols, config) ==
    {Info({"FIDO_2_0", v},
          [clientPin |-> u[1], uv |-> u[2], pinUvAuthToken |-> p, alwaysUv |-> a,
           noMcGaPermissionsWithClientPin |-> g, makeCredUvNotRqd |-> "on",
           credMgmt |-> Feature("cm", missing), bioEnroll |-> Feature("be", missing),
           uvBioEnroll |-> Feature("uvbe", missing), largeBlobs |-> Feature("lbw", missing),
           authnrCfg |-> Feature("acfg", missing), uvAcfg |-> Feature("uvacfg", missing),
           perCredMgmtRO |-> Feature("pcmr", missing), ep |-> Feature("acfg", missing),
           setMinPINLength |-> Feature("acfg", missing),
           longTouchForReset |-> Feature("uvacfg", missing)],
          protocols, config) :
       u \in Configured, p \in permissioned, a \in always, g \in noMcGa}

AllOrNone == {"cm", "be", "lbw", "acfg", "pcmr"}

MCInfos == CTAP20 \union Preview
    \union CTAP21("FIDO_2_1", {"on"}, {"on"}, Two, AllOrNone, <<1>>, {})
    \union CTAP21("FIDO_2_1", Two, {"off"}, {Absent}, {"uvbe", "uvacfg", "pcmr"}, <<1>>, {})
    \union CTAP21("FIDO_2_3", {"on"}, {"off"}, {Absent}, {}, <<2, 1>>, {"toggleAlwaysUv"})

\* A PIN typed in two ways, and another.
MCPins == {[nfc |-> "p", typed |-> 1, points |-> 5, bytes |-> 6, endsInZero |-> FALSE],
           [nfc |-> "p", typed |-> 2, points |-> 5, bytes |-> 6, endsInZero |-> FALSE],
           [nfc |-> "q", typed |-> 1, points |-> 4, bytes |-> 4, endsInZero |-> FALSE]}

MCPermSets == {{}, {"ga"}, {"acfg"}, {"pcmr"}, {"mc", "cm"}, {"ga", "lbw"}, {"cm", "be"}}

====
