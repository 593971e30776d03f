----------------------------- MODULE DeviceSession -----------------------------
(***************************************************************************)
(* The calls of authenticator.Device that take several exchanges: the      *)
(* iterators EnumerateRPs, EnumerateCredentials and GetAssertion, which    *)
(* yield to their consumer with Device.mu held; GetLargeBlobs and          *)
(* SetLargeBlobs, which move the large-blob array in fragments; and        *)
(* GetAssertion with a legacy large blob, which reads or replaces a blob   *)
(* of that array after the last assertion, under the same lock.            *)
(* MakeCredential is here for its extensions.                              *)
(*                                                                         *)
(* The authenticator keeps one enumeration, for the platform that began it *)
(* and until any other command, and one unfinished array, which it commits *)
(* when it is complete and its checksum is right.  It may answer with one  *)
(* extension output too many, too few or with another value.  Other        *)
(* platforms use it at any moment.  Tokens are TokenSession's: here a      *)
(* token authorises what it is for.                                        *)
(***************************************************************************)
EXTENDS Extensions

CONSTANTS Callers, None,
          RPList,     \* the authenticator's RPs, in its order
          CredsOf,    \* and the credentials of each: [RPs -> sequences]
          CallsOf,    \* the calls of each caller: [Callers -> SUBSET calls]
          Infos,      \* what the authenticator may report
          Arrays,     \* arrays it may hold at first, and others may write
          Fragment,   \* units of the array in a message
          MaxOthers   \* bound: steps of other platforms

ASSUME SessionAssumption ==
    /\ Fragment \in Nat \ {0}   \* maxMsgSize is more than 64
    /\ MaxOthers \in Nat
    /\ None \notin Callers

VARIABLES
    info,    \* the authenticator's information
    mu,      \* the caller that holds Device.mu, or None
    at,      \* each caller's call, a record with the fields of Start
    cursor,  \* authenticator: its enumeration, [kind, items not yet returned]
    array,   \* authenticator: the large-blob array
    partial, \* authenticator: an array being written, [data, length]
    others,  \* bound: steps other platforms have taken
    past,    \* history of each call: [begun, seen, hurt], the items an enumeration
             \* began with, the arrays there were, whether it was disturbed
    wrote    \* history: <<cred, content>> confirmed as written, not replaced since

authenticator == <<cursor, array, partial>>
vars == <<info, mu, at, authenticator, others, past, wrote>>

NoCursor == [kind |-> "none", items |-> <<>>]
Nothing == [data |-> <<>>, length |-> 0]
Final == {"done", "broken", "failed", "refused"}

Start == [pc    |-> "idle",
          call  |-> [op |-> "none"],
          req   |-> [sent |-> {}],  \* the extensions of its request
          total |-> 0,              \* the number of items the authenticator announced
          got   |-> <<>>,           \* what was yielded or returned
          held  |-> <<>>,           \* assertions that wait for their legacy large blob
          buf   |-> <<>>,           \* the array: units read, or to be written
          off   |-> 0]              \* and the offset of the next fragment

Init == /\ info \in Infos
        /\ array \in Arrays
        /\ mu = None
        /\ at = [c \in Callers |-> Start]
        /\ cursor = NoCursor
        /\ partial = Nothing
        /\ others = 0
        /\ past = [c \in Callers |-> [begun |-> <<>>, seen |-> {}, hurt |-> FALSE]]
        /\ wrote = {}

-----------------------------------------------------------------------------
(* The large-blob array as it is transferred: its blobs and a checksum.    *)
(* A blob is [cred, content]: encrypted, it opens with the key of cred.    *)

Checksum(a) == [sha256 |-> a]
Serialized(a) == Append(a, Checksum(a))
Piece(s, o) == SubSeq(s, o + 1, IF o + Fragment < Len(s) THEN o + Fragment ELSE Len(s))
Blobs(s) == SubSeq(s, 1, Len(s) - 1)

\* Mutant: the checksum is not looked at.
WholeUnchecked(s) == s # <<>>

Whole(s) == s # <<>> /\ s[Len(s)] = Checksum(Blobs(s))

\* The first blob that opens with the key.
OpensAt(a, cred) == {k \in DOMAIN a : a[k].cred = cred}
First(positions) == CHOOSE k \in positions : \A m \in positions : k <= m
Opened(a, cred) == IF OpensAt(a, cred) = {} THEN None ELSE a[First(OpensAt(a, cred))].content

\* Mutant: the new blob is always added.
AddBlob(a, blob) == Append(a, blob)

\* The first blob of the credential is replaced, or the new one added.
ReplaceBlob(a, blob) ==
    IF OpensAt(a, blob.cred) = {} THEN Append(a, blob)
    ELSE [a EXCEPT ![First(OpensAt(a, blob.cred))] = blob]

\* pinUvAuthProtocolForRequest: there is a protocol for the token, if one is
\* given.
HasProtocol(by) == by = "token" => requirePinUvAuthProtocol(info) # 0

\* What setLargeBlobsLocked checks before it writes.
mayWrite(by, a) ==
    /\ On(info, "largeBlobs")
    /\ HasProtocol(by)
    /\ largeBlobsAuthorizationRequired(info) => by = "token"
    /\ Len(Serialized(a)) <= info.maxArray

-----------------------------------------------------------------------------
(* A call begins, with the lock, and ends without it. *)

\* Mutant: the lock is not taken.
LockNothing(c) == UNCHANGED mu

Lock(c) == mu = None /\ mu' = c
Unlock(c) == mu' = IF mu = c THEN None ELSE mu

\* The step of caller c that ends with one of the states rs: at the end of a
\* call what it got is left.
Step(c, rs) ==
    \E r \in rs :
       IF r.pc \in Final
       THEN /\ at' = [at EXCEPT ![c] = [Start EXCEPT !.pc = r.pc, !.call = r.call, !.got = r.got]]
            /\ Unlock(c)
       ELSE /\ at' = [at EXCEPT ![c] = r]
            /\ UNCHANGED mu

Request(k) ==
    CASE k.op = "make" -> createExtensions(info, k.x, k.by, k.rk)
      [] k.op = "get"  -> getExtensions(info, k.x, k.by, k.up, k.allow)
      [] OTHER -> Start.req

\* The checks of the extensions before the first exchange: without salts there
\* is no key agreement, and they are all of them.
Acceptable(k) == Request(k).ok /\ (Request(k).hmac.salts = <<>> => Request(k).rest)

Allowed(k) ==
    CASE k.op = "make" -> /\ Acceptable(k) /\ HasProtocol(k.by)
                          /\ validateMakeCredentialAuthorization(info, k.by, k.rk) = "ok"
      [] k.op = "get"  -> /\ Acceptable(k) /\ HasProtocol(k.by)
                          /\ validateGetAssertionAuthorization(info, k.by, k.up, k.rk) = "ok"
      [] k.op \in {"rps", "creds"} -> /\ credentialManagementMode(info) # "none"
                                      /\ k.by = "token" /\ HasProtocol(k.by)
      [] k.op = "read" -> On(info, "largeBlobs")
      [] k.op = "set"  -> mayWrite(k.by, k.blobs)

\* The key agreement precedes a request with salts.
FirstStep(k) ==
    CASE k.op \in {"rps", "creds"} -> "begin"
      [] k.op \in {"make", "get"} -> IF Request(k).hmac.salts # <<>> THEN "keys" ELSE "begin"
      [] k.op = "read" -> "read"
      [] k.op = "set"  -> "write"

Call(c, k) ==
    /\ at[c].pc = "idle"
    /\ past' = [past EXCEPT ![c] = [@ EXCEPT !.seen = {array}, !.hurt = FALSE]]
    /\ IF Allowed(k)
       THEN /\ Lock(c)
            /\ at' = [at EXCEPT ![c] =
                   [@ EXCEPT !.pc = FirstStep(k), !.call = k, !.req = Request(k),
                             !.buf = IF k.op = "set" THEN Serialized(k.blobs) ELSE <<>>]]
       ELSE /\ mu = None
            /\ at' = [at EXCEPT ![c].pc = "refused"]
            /\ UNCHANGED mu
    /\ UNCHANGED <<info, authenticator, others, wrote>>

\* pinUvAuthProtocolWithKeyAgreement, and the checks that come after it.  Any
\* command but the next of an enumeration ends the authenticator's enumeration.
KeyAgreement(c) ==
    /\ at[c].pc = "keys"
    /\ Step(c, {[at[c] EXCEPT !.pc = IF at[c].req.rest THEN "begin" ELSE "failed"]})
    /\ cursor' = NoCursor
    /\ UNCHANGED <<info, array, partial, others, past, wrote>>

-----------------------------------------------------------------------------
(* Answers with extensions. *)

AllOuts == {"hmac-secret", "hmac-secret-mc", "credProtect", "credBlob", "minPinLength",
            "pinComplexityPolicy", "thirdPartyPayment", "largeBlob", "largeBlobKey",
            "previewSign"}

\* The secrets of a credential for salts, with or without user verification.
Secrets(cred, uv, salts) == [k \in DOMAIN salts |-> <<cred, uv, salts[k]>>]

\* An answer, and the answers that differ from it in one thing.
Deviations(o) ==
    {o} \union {[o EXCEPT !.outs = IF n \in @ THEN @ \ {n} ELSE @ \union {n}] : n \in AllOuts}
        \union {[o EXCEPT !.secrets = IF Len(@) = 2 THEN <<@[1]>> ELSE @ \o @],
                [o EXCEPT !.uv = ~@], [o EXCEPT !.level = 1], [o EXCEPT !.enabled = FALSE],
                [o EXCEPT !.supported = FALSE], [o EXCEPT !.inner = FALSE],
                [o EXCEPT !.blob = "written"]}

Answer(cred, k, r) ==
    LET uv == userVerificationWillBePerformed(info, k.by)
    IN  [cred |-> cred, outs |-> r.sent, secrets |-> Secrets(cred, uv, r.hmac.salts), uv |-> uv,
         level |-> k.x.level, enabled |-> TRUE, supported |-> TRUE, inner |-> TRUE,
         algorithm |-> "alg", blob |-> IF k.x.blob = "write" THEN "written" ELSE "blob"]

MakeCredential(c) ==
    /\ at[c].pc = "begin" /\ at[c].call.op = "make"
    /\ LET k == at[c].call
           accept(o) ==
               LET w == createOutputs(k.x, at[c].req, o)
               IN  IF ~w.ok THEN [at[c] EXCEPT !.pc = "failed"]
                   ELSE [at[c] EXCEPT !.pc = "done",
                           !.got = <<[outs |-> w.outs, secrets |-> w.secrets,
                                      level |-> o.level, supported |-> w.supported]>>]
       IN  Step(c, {accept(o) : o \in Deviations(Answer("new", k, at[c].req))})
    /\ cursor' = NoCursor
    /\ UNCHANGED <<info, array, partial, others, past, wrote>>

-----------------------------------------------------------------------------
(* Enumerations.  An item is a name, or an assertion.                      *)

\* An allow list is answered with some of its credentials, in the
\* authenticator's order.
Chosen(creds, allow) ==
    {s \in UNION {[1..n -> allow] : n \in 0..Len(creds)} :
        \E place \in [DOMAIN s -> DOMAIN creds] :
            /\ \A i \in DOMAIN s : s[i] = creds[place[i]]
            /\ \A i, j \in DOMAIN s : i < j => place[i] < place[j]}

Items(k) ==
    CASE k.op = "rps"   -> {RPList, <<>>}
      [] k.op = "creds" -> {CredsOf[k.rp], <<>>}
      [] k.op = "get"   -> IF k.allow = {} THEN {CredsOf[k.rp]}
                           ELSE Chosen(CredsOf[k.rp], k.allow)

Enumerations == {"rps", "creds", "get"}
IsSeq(s) == s \in Seq({s[i] : i \in DOMAIN s})
BlobArray(a) == IsSeq(a) /\ \A n \in DOMAIN a : "cred" \in DOMAIN a[n]

ASSUME CallsAssumption ==
    /\ IsSeq(RPList)
    /\ \A a \in Arrays : BlobArray(a)
    /\ \A c \in Callers : \A k \in CallsOf[c] :
          /\ k.op \in Enumerations \union {"make", "read", "set"}
          /\ k.op \in {"creds", "get"} => IsSeq(CredsOf[k.rp])
          /\ k.op = "get" => IsFiniteSet(k.allow)
          /\ k.op = "make" => k.x.level \in Nat
          /\ k.op = "set" => BlobArray(k.blobs)

Legacy(r) == r.call.op = "get" /\ r.req.largeBlob.backend = "legacy"

\* Where a call goes once it has n items: the next one, the large blobs of
\* the assertions, or the end.
Continue(r, n) ==
    IF n < r.total THEN "next"
    ELSE IF ~Legacy(r) THEN "done"
    ELSE IF r.call.x.blob = "write" /\ ~r.held[1].key THEN "emit"
    ELSE "read"

\* The caller r has received an item.
Received(r, item) ==
    IF r.call.op # "get"
    THEN {[r EXCEPT !.pc = "yield", !.got = Append(@, [item |-> item])]}
    ELSE LET accept(o) ==
                 LET w == getOutputs(r.call.x, r.req, o)
                     a == [item |-> item, outs |-> w.outs, secrets |-> w.secrets, blob |-> None,
                           written |-> FALSE, key |-> "largeBlobKey" \in o.outs]
                     h == [r EXCEPT !.held = Append(@, a)]
                 IN  IF ~w.ok THEN [r EXCEPT !.pc = "failed"]
                     ELSE IF Legacy(r) THEN [h EXCEPT !.pc = Continue(h, Len(h.held))]
                     ELSE [r EXCEPT !.pc = "yield", !.got = Append(@, a)]
         IN  {accept(o) : o \in Deviations(Answer(item, r.call, r.req))}

Begin(c) ==
    /\ at[c].pc = "begin" /\ at[c].call.op # "make"
    /\ \E items \in Items(at[c].call) :
          IF items = <<>>
          THEN /\ Step(c, {[at[c] EXCEPT !.pc = "failed"]})
               /\ cursor' = NoCursor
               /\ UNCHANGED past
          ELSE /\ Step(c, Received([at[c] EXCEPT !.total = Len(items)], items[1]))
               /\ cursor' = [kind |-> at[c].call.op, items |-> Tail(items)]
               /\ past' = [past EXCEPT ![c].begun = items]
    /\ UNCHANGED <<info, array, partial, others, wrote>>

GetNext(c) ==
    /\ at[c].pc = "next"
    /\ IF cursor.kind = at[c].call.op /\ cursor.items # <<>>
       THEN /\ Step(c, Received(at[c], cursor.items[1]))
            /\ cursor' = [cursor EXCEPT !.items = Tail(@)]
       ELSE /\ Step(c, {[at[c] EXCEPT !.pc = "failed"]})
            /\ cursor' = NoCursor
    /\ UNCHANGED <<info, array, partial, others, past, wrote>>

\* The consumer of the iterator goes on, or breaks out of its loop.
Consume(c) ==
    /\ at[c].pc = "yield"
    /\ Step(c, {[at[c] EXCEPT !.pc = Continue(at[c], Len(at[c].got))],
                [at[c] EXCEPT !.pc = "broken"]})
    /\ UNCHANGED <<info, authenticator, others, past, wrote>>

\* The assertions that waited for their large blobs are yielded.
Emit(c) ==
    /\ at[c].pc = "emit"
    /\ LET r == [at[c] EXCEPT !.got = Append(@, at[c].held[1]), !.held = Tail(@)]
       IN  Step(c, {[r EXCEPT !.pc = IF r.held = <<>> THEN "done" ELSE "emit"],
                    [r EXCEPT !.pc = "broken"]})
    /\ UNCHANGED <<info, authenticator, others, past, wrote>>

-----------------------------------------------------------------------------
(* Large blobs. *)

\* A transfer failed: GetAssertion yields its assertions without the blobs.
Gave(r) == [r EXCEPT !.pc = IF r.call.op = "get" THEN "emit" ELSE "failed"]

\* The array s was read.
ReadArray(r, s) ==
    LET a == Blobs(s)
        next == ReplaceBlob(a, [cred |-> r.held[1].item, content |-> r.call.x.content])
    IN  IF ~Whole(s) THEN Gave(r)
        ELSE IF r.call.op = "read" THEN [r EXCEPT !.pc = "done", !.got = <<a>>]
        ELSE IF r.call.x.blob = "read"
        THEN [r EXCEPT !.pc = "emit",
                       !.held = [k \in DOMAIN @ |->
                          [@[k] EXCEPT !.blob = IF r.held[k].key THEN Opened(a, r.held[k].item)
                                                ELSE None]]]
        ELSE IF mayWrite(r.call.by, next)
        THEN [r EXCEPT !.pc = "write", !.buf = Serialized(next), !.off = 0]
        ELSE Gave(r)

\* resolveLegacyLargeBlobOutputs failed: a key of the wrong length, a blob that
\* opens but does not decompress, or one that cannot be encrypted.  Nothing is
\* yielded then.
Unresolved(r, s) ==
    IF Whole(s) /\ r.call.op = "get" /\ \E k \in DOMAIN r.held : r.held[k].key
    THEN {[r EXCEPT !.pc = "failed"]} ELSE {}

\* getLargeBlobsLocked: fragments until one is short.
ReadFragment(c) ==
    LET r == at[c]
        piece == Piece(Serialized(array), r.off)
        s == r.buf \o piece
    IN  /\ r.pc = "read"
        /\ IF r.off > Len(Serialized(array)) THEN Step(c, {Gave(r)})
           ELSE IF Len(piece) = Fragment
           THEN Step(c, {[r EXCEPT !.buf = s, !.off = @ + Len(piece)]})
           ELSE Step(c, {ReadArray(r, s)} \union Unresolved(r, s))
        /\ cursor' = NoCursor
        /\ UNCHANGED <<info, array, partial, others, past, wrote>>

\* The authenticator commits a complete array.  Arrays seen by each call.
Commit(a) ==
    /\ array' = a
    /\ partial' = Nothing
    /\ past' = [c \in Callers |-> [past[c] EXCEPT !.seen = @ \union {a}]]

\* The blob a call confirms.
Confirmed(r) == IF r.call.op = "get" THEN {<<r.held[1].item, r.call.x.content>>} ELSE {}

\* setLargeBlobsLocked: the length is in the first fragment only, and what
\* is not the continuation of it is refused.  A reply may be lost.
WriteFragment(c) ==
    LET r == at[c]
        piece == Piece(r.buf, r.off)
        p == IF r.off = 0 THEN [data |-> piece, length |-> Len(r.buf)]
             ELSE [partial EXCEPT !.data = @ \o piece]
        last == r.off + Len(piece) = Len(r.buf)
        replaced == {w \in wrote : r.call.op = "set" \/ w[1] = r.held[1].item}
        sent == [r EXCEPT !.off = @ + Len(piece), !.pc = IF last THEN "done" ELSE "write"]
        ok == IF last /\ r.call.op = "get"
              THEN [sent EXCEPT !.pc = "emit", !.held[1].written = TRUE] ELSE sent
    IN  /\ r.pc = "write"
        /\ IF r.off # 0 /\ (partial.length = 0 \/ Len(partial.data) # r.off)
           THEN Step(c, {Gave(r)}) /\ UNCHANGED <<array, partial, past, wrote>>
           ELSE IF Len(p.data) < p.length
           THEN /\ Step(c, {ok, Gave(r)})
                /\ partial' = p
                /\ UNCHANGED <<array, past, wrote>>
           ELSE IF Whole(p.data)
           THEN /\ Commit(Blobs(p.data))
                /\ \/ Step(c, {ok}) /\ wrote' = (wrote \ replaced) \union Confirmed(r)
                   \/ Step(c, {Gave(r)}) /\ wrote' = wrote \ replaced
           ELSE Step(c, {Gave(r)}) /\ partial' = Nothing /\ UNCHANGED <<array, past, wrote>>
        /\ cursor' = NoCursor
        /\ UNCHANGED <<info, others>>

-----------------------------------------------------------------------------
\* An exchange fails before the authenticator acts on it.
Fail(c) ==
    /\ at[c].pc \in {"keys", "begin", "next", "read", "write"}
    /\ Step(c, {IF at[c].pc \in {"read", "write"} THEN Gave(at[c])
                ELSE [at[c] EXCEPT !.pc = "failed"]})
    /\ past' = [past EXCEPT ![c].hurt = TRUE]
    /\ UNCHANGED <<info, authenticator, others, wrote>>

\* Another platform uses the authenticator: it sends some command, writes the
\* array, or begins to write it.  An enumeration it begins replaces the
\* Device's and goes on for that platform only: here it is none at all.
OtherPlatform ==
    LET disturbed == [c \in Callers |-> [past[c] EXCEPT !.hurt = TRUE]]
    IN  /\ others < MaxOthers
        /\ others' = others + 1
        /\ cursor' = NoCursor
        /\ \/ past' = disturbed /\ UNCHANGED <<array, partial, wrote>>
           \/ \E a \in Arrays :
                 /\ array' = a /\ partial' = Nothing
                 /\ past' = [c \in Callers |-> [disturbed[c] EXCEPT !.seen = @ \union {a}]]
                 /\ wrote' = {}
           \/ \E a \in Arrays :
                 /\ Len(Serialized(a)) > Fragment
                 /\ partial' = [data |-> Piece(Serialized(a), 0), length |-> Len(Serialized(a))]
                 /\ past' = disturbed
                 /\ UNCHANGED <<array, wrote>>
        /\ UNCHANGED <<info, mu, at>>

Terminated == (\A c \in Callers : at[c].pc \in Final) /\ UNCHANGED vars

CallerStep(c) ==
    \/ KeyAgreement(c) \/ MakeCredential(c)
    \/ Begin(c) \/ GetNext(c) \/ Consume(c) \/ Emit(c)
    \/ ReadFragment(c) \/ WriteFragment(c)
    \/ Fail(c)

Next == \/ \E c \in Callers : (\E k \in CallsOf[c] : Call(c, k)) \/ CallerStep(c)
        \/ OtherPlatform \/ Terminated

Spec == Init /\ [][Next]_vars
-----------------------------------------------------------------------------
\* Every iterator yields, in order and once each, the items of the one
\* enumeration the authenticator began for it, and all of them if it ends
\* without an error: no call of another goroutine or of an earlier consumer
\* that broke off mixes its items in, and no command of another platform makes
\* it lose some unnoticed (Device.mu held while yielding, the totals of the
\* first response).
EnumerationWhole ==
    \A c \in Callers : at[c].call.op \in Enumerations =>
        LET items == [k \in DOMAIN at[c].got |-> at[c].got[k].item]
        IN  /\ items = SubSeq(past[c].begun, 1, Len(items))
            /\ at[c].pc = "done" => items = past[c].begun

\* GetLargeBlobs, and GetAssertion for its blobs, see an array that was whole
\* at some moment of the call, also when another platform writes it between
\* two fragments; and a GetLargeBlobs that nothing disturbs succeeds, also when
\* the array is a multiple of the fragment length.
BlobReadWhole ==
    \A c \in Callers :
        /\ at[c].call.op = "read" => /\ at[c].pc = "done" => at[c].got[1] \in past[c].seen
                                     /\ at[c].pc = "failed" => past[c].hurt
        /\ at[c].call.op = "get" =>
              \E a \in past[c].seen : \A k \in DOMAIN at[c].got :
                  at[c].got[k].blob \in {None, Opened(a, at[c].got[k].item)}

\* A blob that GetAssertion reported as written is the one a reader finds for
\* that credential, until that credential's blob, or the whole array, is
\* written again: no other caller of the Device loses it, and a write that
\* fails half way leaves it as it is.
WrittenBlobStays == \A w \in wrote : Opened(array, w[1]) = w[2]

\* Whichever credential of the allow list the authenticator chooses, the PRF
\* results yielded with it are the user-verified ones of the inputs that are
\* meant for that credential (evalByCredential before eval), one for each.
PRFPerCredential ==
    \A c \in Callers : at[c].call.op = "get" =>
        \A k \in DOMAIN at[c].got :
            LET a == at[c].got[k]
                meant == prfSalts(selectPRFEvaluationForCredential(at[c].call.x.prf, a.item))
            IN  "prf" \in a.outs /\ a.secrets # <<>> => a.secrets = Secrets(a.item, TRUE, meant)

\* What MakeCredential and GetAssertion return was asked for, whatever the
\* authenticator adds to its answer; a credential that is returned has the
\* enforced protection and the required large-blob support, and its PRF results
\* are user-verified, one for each input.
OutputsAsAsked ==
    \A c \in Callers : at[c].call.op \in {"make", "get"} =>
        \A k \in DOMAIN at[c].got :
            LET a == at[c].got[k]
                x == at[c].call.x
            IN  /\ a.outs \subseteq x.ask
                /\ at[c].call.op = "make" =>
                      /\ "credProtect" \in x.ask /\ x.enforce => a.level >= x.level
                      /\ "largeBlob" \in x.ask /\ x.blob = "required" => a.supported
                      /\ "prf" \in x.ask /\ a.secrets # <<>> =>
                            a.secrets = Secrets("new", TRUE, prfSalts(x.prf.eval))
=============================================================================
