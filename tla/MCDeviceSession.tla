---- MODULE MCDeviceSession ----
EXTENDS DeviceSession, TLC

CONSTANTS c1, c2, k1, k2, k3, k4, in1, in2, old, new, other

\* CTAP 2.1, with a PIN: everything with the legacy or the direct large blobs,
\* only hmac-secret, or only legacy large blobs in an array of one blob.
Info(extensions, legacy, maxArray) ==
    [versions |-> {"FIDO_2_0", "FIDO_2_1"}, protocols |-> <<2, 1>>,
     options |-> [o \in {"clientPin", "credMgmt", "makeCredUvNotRqd"} \union (IF legacy THEN {"largeBlobs"} ELSE {}) |->
                     TRUE],
     configCommands |-> {}, forcePINChange |-> FALSE, minPINLength |-> 4, maxPINLength |-> 63,
     extensions |-> extensions, maxCredBlob |-> 32, maxArray |-> maxArray]

MCInfos == {Info(AllOuts \ {"largeBlob"}, TRUE, 4), Info(AllOuts \ {"largeBlobKey"}, FALSE, 0),
            Info({"hmac-secret"}, FALSE, 0), Info({"largeBlobKey"}, TRUE, 2)}

Blob(cred, content) == [cred |-> cred, content |-> content]
MCArrays == {<<>>, <<Blob(k2, other)>>, <<Blob(k1, old), Blob(k2, other)>>}
MCRPs == <<"rp1", "rp2">>
MCCredsOf == [rp1 |-> <<k1, k2>>, rp2 |-> <<k3, k4>>]

Eval(first, second) == [first |-> first, second |-> second]
PRFs == {[eval |-> e, by |-> b] :
            e \in {NoValues, Eval(in1, NoInput), Eval(in1, in2)},
            b \in {<<>>, [k \in {k1} |-> Eval(in2, NoInput)], [k \in {k1} |-> Eval(in1, NoInput)],
                   [k \in {k1, k2} |-> Eval(in2, in1)]}}

\* Two inputs for every credential, and others for one of them.
Both == [eval |-> Eval(in1, in2), by |-> [k \in {k1} |-> Eval(in2, NoInput)]]

Plain == [ask |-> {}, salts |-> <<>>, prf |-> [eval |-> NoValues, by |-> <<>>], level |-> 1,
          enforce |-> FALSE, blobLength |-> 0, blob |-> "read", content |-> new,
          algorithms |-> {}, sign |-> <<>>, maps |-> {}]

Ask(names) == [Plain EXCEPT !.ask = names]
PRF(p) == [Ask({"prf"}) EXCEPT !.prf = p,
                               !.maps = IF DOMAIN p.by = {} THEN {} ELSE {"evalByCredential"}]

Get(x, by, allow) == [op |-> "get", rp |-> "rp1", x |-> x, by |-> by, up |-> TRUE, rk |-> FALSE,
                      allow |-> allow]
Make(x, by, rk) == [op |-> "make", x |-> x, by |-> by, rk |-> rk]
Write(cred) == Get([Ask({"largeBlob"}) EXCEPT !.blob = "write"], "token", {cred})

Signing(key) == [key |-> key, tbs |-> in1, args |-> "none"]

GetCalls ==
    {Get(PRF(p), "token", allow) : p \in PRFs, allow \in {{}, {k1, k2}}}
    \union {Get(PRF(Both), by, {k1}) : by \in {"token", "none"}}
    \union {Get([Ask({"hmac-secret"}) EXCEPT !.salts = s], "token", {}) : s \in {<<in1>>, <<in1, in2>>}}
    \union {Get([Ask({"hmac-secret", "credBlob"}) EXCEPT !.salts = <<in1>>], "token", {})}
    \union {[Get(Plain, "token", {}) EXCEPT !.rk = TRUE]}
    \union {Get(Ask(n), "token", {k1, k2}) : n \in {{}, {"credBlob", "thirdPartyPayment"}}}
    \union {Get([Ask({"previewSign"}) EXCEPT !.sign = s, !.maps = {"signByCredential"}], "token", {k1, k2}) :
               s \in {[k \in {k1, k2} |-> Signing(in1)],
                      [k \in {k1, k2} |-> Signing(IF k = k1 THEN in1 ELSE in2)]}}
    \union {Get(Ask({"largeBlob"}), "token", allow) : allow \in {{}, {k1}}}
    \union {Write(k1), Write(k2)}

MakeCalls ==
    {Make([PRF([eval |-> Eval(in1, NoInput), by |-> <<>>]) EXCEPT !.maps = m], by, FALSE) :
        m \in {{}, {"evalByCredential"}}, by \in {"token", "none"}}
    \union {Make([Ask({"hmac-secret-mc"}) EXCEPT !.salts = <<in1>>], "token", TRUE)}
    \union {Make([Ask({"credProtect"}) EXCEPT !.level = 2, !.enforce = e], "token", TRUE) : e \in BOOLEAN}
    \union {Make([Ask({"credBlob"}) EXCEPT !.blobLength = n], "token", TRUE) : n \in {32, 33}}
    \union {Make([Ask({"largeBlob"}) EXCEPT !.blob = b], "token", rk) :
               b \in {"preferred", "required"}, rk \in BOOLEAN}
    \union {Make([Ask({"previewSign"}) EXCEPT !.algorithms = {"alg"}, !.maps = m], "token", TRUE) :
               m \in {{}, {"signByCredential"}}}
    \union {Make(Ask(Flags), "token", TRUE)}

Enumerate(rp) == {[op |-> o, rp |-> rp, by |-> "token"] : o \in {"rps", "creds"}}
Array == {[op |-> "read"], [op |-> "set", by |-> "token", blobs |-> <<Blob(k2, new)>>]}

\* One caller makes every call; the other those that share the enumeration and
\* the array with it.
MCCallsOf == c1 :> (GetCalls \union MakeCalls \union Enumerate("rp1") \union Array)
          @@ c2 :> (Enumerate("rp2") \union Array \union {Write(k1), Write(k2)})
====
