# TLA+ models of the CTAP library

This directory holds TLA+ specifications of the concurrent and stateful parts
of the library, TLC configurations that check them on small instances, and
TLAPS proofs about them. `PROJECT.json` lists the components, the runs, the
correspondence of definitions to source lines, the hazards, the findings and
the theorems.

## The system

The library talks CTAP2 to FIDO authenticators. From bottom to top:

| Component | State | Operations | Interacts by |
|---|---|---|---|
| HID backend (`backend/hid`, `backend/tcp`, `backend/hidproxy`) | an OS handle | read and write of 64-byte reports | called by the report channel |
| Report channel (`transport/ctaphid/channel_device.go`) | channel id, queue, terminal error, one-slot wake channel, reader goroutine | `Read`, `Write`, `setCID`, `stop`, `Close` | goroutine and caller share the queue under a mutex and meet on the wake channel |
| CTAPHID transport (`transport/ctaphid/transport.go`, `commands.go`, `encoding.go`, `decoding.go`) | `mu`, `writeMu`, `activeCBOR` | `Open`, `CBOR`, `Ping`, `Wink`, `Lock`, `Vendor`, `Cancel`, `Close` | callers are serialised by `mu`; `Cancel` and `Close` run beside them |
| BLE, ISO 7816 and Token2 transports (`transport/ctapble`, `iso7816`, `token2`) | command mutex, close-once, BLE reader goroutine | `CBOR`, `Ping`, `Close` | as above |
| CTAP client (`client`) | none | one function per command, iterators | encodes commands for a transport, authenticates them with a token or a shared secret |
| Authenticator device (`authenticator`) | command mutex, cached GetInfo response and its validity | one method per command, with checks on the cached response; token flows; extensions; enumerations and large blobs, which take several exchanges | calls the client; several goroutines may share a device, and other platforms the authenticator |
| Selection (`authenticator/select.go`) | devices, results channel | `Select` | one goroutine per device |
| Cryptography, COSE, attestation, extensions, diagnostics | none | functions | called by the above |

Hard behaviours: a shared endpoint that delivers other applications' reports; a
reader goroutine that must lose neither reports nor wake-ups; cancellation in
the middle of an exchange, which has to be told to the authenticator and whose
answer still arrives; `Close` against running exchanges; busy answers and
retries; a cache of the authenticator's state that is trusted by the checks;
tokens that are obtained by one method and used by another, over four versions
of the protocol and dozens of options; enumerations and transfers that another
goroutine or platform can cut in two; an authenticator that answers with more or
less than it was asked for; several authenticators asked at once.

What makes each part correct:

* report channel: reports of the bound channel are returned once and in order,
  a waiting `Read` is always woken, every shutdown path ends and leaves the
  device to its owner;
* CTAPHID transport: a call returns the answer to its own request, leaves the
  channel clean, never mixes its packets with a CANCEL, and returns when it is
  canceled or the transport is closed;
* BLE and ISO 7816 transports: a call returns the answer to its own request,
  the connection is idle or given up between calls, and `Close` never waits
  for a call that does not end;
* authenticator device: nothing is decided on outdated information; a token is
  good for what it was asked for, whatever the authenticator reports; an
  enumeration or transfer is whole or fails; a blob reported as written stays;
* client: the authenticator can verify every request from what it receives;
* extensions: what is returned was asked for, and belongs to the credential it
  is returned with;
* selection: exactly the touched device survives, and nothing hangs.

## Modules

| Module | Models | Role |
|---|---|---|
| `ReportChannel` | the promise of the report channel: a FIFO with a terminal error | abstract specification |
| `ChannelDevice` | `channel_device.go` | detailed specification; `ImplementsChannel` maps it to `ReportChannel` |
| `ChannelDeviceProofs`, `CtapHidTransportProofs`, `CtapBleProofs`, `Iso7816Proofs`, `AuthenticatorDeviceProofs`, `SelectProofs`, `TokenSessionProofs`, `DeviceSessionProofs` | | theorems about the module each is named after |
| `CtapHidTransport` | `transport.go`, the loops of `commands.go`, reassembly of `decoding.go` | uses the channel as the FIFO that `ReportChannel` promises |
| `AuthenticatorDevice` | `authenticator.go`: the cache and the checks made on it | |
| `Preflight` | `preflight.go`, protocol choice of `authenticator.go`, token lengths of `internal/pin` | operators over the information; used by the three below |
| `CtapClient` | `client/commands.go` | operators that build requests; instantiated by `TokenSession` |
| `TokenSession` | PIN and token methods of `authenticator.go`, and the commands that use a token | composes `Preflight` and `CtapClient` with an authenticator |
| `Extensions` | `prf.go`, `large_blob.go`, `preview_sign.go`, `extension_validation.go` | operators over inputs and answers |
| `DeviceSession` | iterators, large-blob transfer and extensions of `authenticator.go`, iterators of `client` | composes `Extensions` with two callers and an authenticator |
| `Select` | `select.go` | |
| `CtapBle` | `transport/ctapble/transport.go`, reassembly of `framing.go` | |
| `Iso7816` | `transport/iso7816/iso7816.go` | |
| `MC...` | | instances for TLC |

Operators introduced by a comment that begins with "Mutant" are faulty variants
of the definition after them. They are not part of any specification; they show
that the property named with them in `PROJECT.json` notices the fault.

### ChannelDevice

`reader` is the control point of `readReports`, `caller` that of the one
goroutine in `Read` (the transport's mutex allows only one), `closer[p]` that of
each caller of `Close`, `owner` that of `Open`. Critical sections of
`channelDevice.mu` (`Enqueue`, `Finish`, `NextReport`, `SetCID`) are one step;
`Notify` is a step of its own, as in the code. `wake` is the one slot of the
wake channel. `wire` and `got` are history: what the endpoint delivered and what
`Read` returned. The HID device and `ghid.WithContext` are external: a device
may fail at any time, may deliver a report after its context was canceled, and a
read whose context is canceled eventually returns.

### CtapHidTransport

A message is a sequence of packets, and `n`, the attempt it belongs to, stands
for its contents. CBOR requests take two packets (so that something could come
between them), other requests one; responses take any number in `RespLens`.
`msg[p]` is the message `ReadFrom` is assembling. `pc` "wait" is
`channelDevice.Read` in its `select`: a report and the end of the context may
both be there, and either is taken. `drain` is the second `readCBORResponse` of
`cancelAndDrainCBOR`. `half` is a request that is only partly written.
`abandoned` is history: an exchange ended with its response still due, which the
code allows for commands other than CBOR and, as the run `hid_torn_drain` shows,
also lets happen to a CBOR response of three packets or more. The authenticator
is the environment: it handles requests in order, sends keepalives, answers with
a response or an error, and heeds a CANCEL only while it works on a CBOR request.

### AuthenticatorDevice

Each method is an action between `EnsureInfo` (`ensureInfoLocked`) and the
exchange; `Operation` holds what they share. The authenticator's state and the
part of it that GetInfo reports are separate, so that a cache can be outdated.
The authenticator modelled supports every option the methods look at, CTAP 2.1,
and may refuse any command. Extensions, PIN normalisation and the exchanges that
only obtain keys are left out: they change neither side's state, and are what
`TokenSession` and `DeviceSession` are about. An exchange
can fail before the command is executed (`Fail`) or after it (`ReplyLost`); the
code keeps the cache in both cases, and `unknown` records the latter. Whether
the answer to enrollCaptureNextSample carries a template id is the constant
`CaptureReportsTemplate`. `Requires`, which `ChecksCurrent` holds a command on the
wire against, says what the authenticator demands then: `Verified` admits a request
that names no verification under `alwaysUv` only if the authenticator can verify
the user by itself.

### Preflight and CtapClient

`Preflight` has one operator per function of `preflight.go`, over a record of
what GetInfo reports; an option that is absent and one that is false are
different. Which error a check returns is left out, except
`ErrPinUvAuthTokenRequired`. `CtapClient` has one operator per client method. A
CBOR map is the set of its members without the zero ones, and a message is the
sequence of its parts, so two messages are equal when their bytes are. A
ciphertext carries the secret it opens with. Calls that leave a required
parameter empty (a template or credential ID, say) are not among the instances:
the code sends them and leaves it to the authenticator to refuse them.

### TokenSession

One caller, its PIN or fingerprint, and the authenticator. `KeyAgreement` is the
first exchange of a PIN or token call, `SendClientPIN` the second, `Send` the
validation and the request of every other method; `Calls` says for each method
which permission it needs, whether the authenticator has it and whether a token
is required. `held.perms` is what the caller asked the token for. The
authenticator verifies the parameter against the message it rebuilds from the
request (`Authenticated`), spends a retry and changes its key on a wrong PIN,
and revokes the token when it issues another. A token that is bound to an RP serves credentials of that RP only, but large blobs,
biometric enrollment and configuration whatever its RP (`ForRP`). `OtherPlatform` enters a wrong PIN
or obtains a token at any moment; `raced` exempts the call it falls into. Unicode
normalisation is the field `nfc` of a PIN, and `typed` tells apart two spellings
of the same PIN. `last` remembers a call only while it can violate something.

Two things the model makes visible, which no property forbids: for a preview
authenticator without `uvToken`, `selectPinUvAuthTokenFlowUsingUV` looks for the
final `credMgmt` and `bioEnroll` options where the PIN flow looks for the
preview ones; and `validateMakeCredentialAuthorization` may ask for a token that
`noMcGaPermissionsWithClientPin` makes impossible to obtain with a PIN.

### Extensions and DeviceSession

`createExtensions` and `getExtensions` are the extension part of the requests
of `MakeCredential` and `GetAssertion`, `createOutputs` and `getOutputs` what
becomes of the answer. In `DeviceSession` each caller makes one call. `at[c]` is
its progress: "keys" is the key agreement for the PRF and hmac-secret salts,
"begin" and "next" the exchanges of an iterator, "yield" the consumer's loop body
(from which it may also break), "read" and "write" the fragments of the
large-blob array, "emit" the assertions that waited for their blob. `Device.mu`
is held from `Call` to the end. The authenticator has one enumeration, which
every command but its own continuation ends, and one unfinished array. An allow
list is answered with any of its credentials, in the authenticator's order
(`Chosen`). Its
answers may deviate in one extension from what was asked (`Deviations`): an output
too many or missing, another protection level, one secret instead of two, no user
verification. `Fail` is an exchange that fails before the command is executed,
and a large-blob write may also lose its reply. `OtherPlatform` sends any
command, writes the array or leaves half of one.

An enumeration continues only for the platform that began it: the other
platform's commands end the authenticator's enumeration, and one it begins itself
does not answer this Device's continuations. `EnumerationWhole` rests on that,
because the code could not tell foreign items from its own. A field of an input
says whether `evalByCredential` or `signByCredential` was given at all, which an
empty map is. A request with salts is checked in two parts, `ok` before the key
agreement and `rest` after it, as in the code. The blobs of a `GetAssertion` may
fail to resolve (`Unresolved`), and then nothing is yielded. Of
`pinUvAuthProtocolForRequest` only that there is a protocol for the token is
checked here (`HasProtocol`); lengths and the choice are `TokenSession`'s.

Left out: `credProps`, which the platform answers by itself, and base64url keys
that are not well formed (they are keys outside the allow list). When `MakeCredential` refuses an output, the credential exists
on the authenticator all the same: the code cannot undo it, and `OutputsAsAsked`
speaks of what is returned. A loop body that calls the Device again blocks, as
the comments on the iterators say; a caller of the model makes one call at a time.

### Select

The enumerator yields, for each candidate, an error, a transport that `New`
rejects, or one it accepts. `SelectionReturns` is `Device.Selection`: it may
take for ever, and after its transport is closed it may also surface a
KEEPALIVE_CANCEL, which `normalizeSelectionError` takes for success. The model
assumes that an authenticator sends that status only in answer to a CANCEL: one
that sent it by itself on an open transport would be selected without a touch,
since the code cannot tell the two apart.

### CtapBle

The same questions as for `CtapHidTransport`, on a different design: one
`commandMu` for a whole call, a write gate that a waiter can leave when its
context ends, a reader goroutine per exchange (`reader`, `frame`, and `answer`,
its one-slot result channel), and a drain bounded by `cancelDrainTimeout`.
`writeRequest` has three users, told apart by `pc`: the request ("gate",
"write"), the CANCEL of a canceled call ("cgate", "cwrite") and that of `Close`
("xgate", "xwrite"). `Close` may run in its own goroutine or inside an exchange;
`once` is `closeOnce`. A timeout may fire at any time. A failed write may have
been delivered. A write over a live connection may stall for ever, and the
authenticator may never answer. What a response contains is left out: an empty
MSG response and a CTAP status other than OK are errors of the call that change
nothing here.

### Iso7816

`pc` "send" transmits the APDUs of the command, "status" awaits the answer to
the last one, "poll" is the NFCCTAP_GETRESPONSE loop, "cancel" is
`cancelPolling`. The card keeps an open chain (`chain`) and the command it works
on (`working`), both as the set of calls whose APDUs they hold; it appends to an
open chain whatever command APDU comes next, and a new command replaces one it
was still working on. `abandoned` is history: `CBOR` returned while the card held
a command, or part of one, that nobody canceled, which the code does when the
context ends before polling begins and on a malformed answer. The constant
`Malformed` admits cards that send such answers.

## Runs

| Run | Instance | Shows |
|---|---|---|
| `hid_channel` | 2 channels, 2 closers, 3 reports | all properties of the report channel, refinement and liveness included |
| `hid_transport` | 1 caller and a closer, CBOR and other commands, responses of 1 and 3 packets, 2 calls, 1 busy answer | safety of the transport; canceled calls return, `Close` returns and unblocks the caller |
| `hid_torn_drain` | 1 caller, responses of 3 packets | *violation*: the drain stops in the middle of a response |
| `authenticator` | 2 callers, 5 calls, 1 credential slot, 1 fingerprint | the cache is current when it is trusted |
| `enroll_capture` | as above, 3 calls, no template id in capture responses | *violation*: the cache outlives the enrollment |
| `select` | 3 authenticators | one survivor, touched; no hang, no leaked goroutine |
| `ble_transport` | 1 caller with its readers and a closer, MSG and PING, responses of 1 and 2 fragments, 2 calls, 1 busy answer | safety, and that canceled commands and `Close` return |
| `iso7816` | 2 callers and a closer, commands of 1 and 2 APDUs, 3 calls, malformed answers | responses are not mixed up, the card is idle between calls, `Close` never waits for the lock |
| `iso7816_chain` | 2 callers, 2 calls, well-behaved card | *violation*: an abandoned chain is completed by the next command |
| `tokens` | 33 kinds of information over four versions, 3 PINs (two spellings of one), 7 permission sets, 2 retries, 2 tokens, 2 changes of key | tokens are good for what they were asked for, requests verify, the right PIN costs nothing |
| `preview_uv_token` | the same, preview authenticators with `uvToken` that list protocols 2 and 1 | *violation*: the token of one protocol is used with another |
| `sessions` | 2 callers, 4 kinds of information, 2 RPs of 2 credentials, arrays of up to 2 blobs in fragments of 2 units, 1 step of another platform | enumerations and blob transfers stay whole, results are those asked for |

Why the bounds are enough: three reports allow one queued, one held and one on
its way around `setCID`, and two closers the race for `closeOnce`. Two calls are
what it takes for the second to meet what the first left behind, three packets
are the shortest response whose tail survives a torn drain, and one busy answer
reaches the retry. Five commands allow a change, a refresh and three dependent
commands. Three authenticators allow a winner, a loser that fails and one that
never answers. In `hid_transport` and `ble_transport` one caller is enough because
`mu` and `commandMu` are held from the first line of a call to its last: a second
caller can only wait, and what one call leaves to the next is the same whoever
makes it. (The four invariants of `hid_transport` also hold with
`Callers = {c1, c2}` under `Spec`, 1.5 million states; the temporal properties are
too slow there.) Two APDUs are the shortest
chain, and the third call meets what two callers left behind. Two tokens are what
it takes for one to be revoked, two keys and two retries for a PIN to be entered
after a wrong one. In `sessions` each of two callers makes one call, so that a second call
could come between any two exchanges of the first; arrays of one, two and three
units with their checksum are shorter than, equal to and longer than a fragment;
one step of another platform falls between any two exchanges; and one of the
authenticators has no room for a second blob. Two credentials per RP make the first and the last item differ, and the PRF
inputs include one, two and credential-specific ones that agree and that do not.

`CHECK_DEADLOCK FALSE` is used where an instance makes a bounded number of calls
and then rests. `tokens`, `preview_uv_token` and `sessions` check for deadlock:
in `sessions` only the state in which every call has returned may rest.

### Fairness

Goroutines that can run do run, mutexes are granted, timers fire (weak fairness
of the host's steps). Nothing is assumed of users, callers or authenticators,
except where a property names it: a device read or write returns once its
context is canceled or the device closed (that is what the HID package offers);
in `hid_transport` a device accepts packets in finite time and an authenticator
answers a request it was told to cancel. `CtapBle` and `Iso7816` use weak fairness only: timers
fire, and a write or transmission ends when its context is done or its connection
gone. Strong fairness is used for a caller of `CtapHidTransport`
that reads keepalives: they come 100 ms apart, so it does get to wait, and Go's
`select` chooses at random among ready cases, so it does see its context.

## Findings

* `hid_torn_drain`: the context is canceled after the first packet of a long
  CBOR response. The drain begins a new message, meets a continuation packet,
  and its framing error is discarded. The rest of the response stays on the
  channel; the comment on `CBOR` promises that it is drained.
* `enroll_capture`: `EnrollCaptureNextSample` invalidates the cache only if the
  response names a template, which this response does not.
* `iso7816_chain`: the context ends between two chained APDUs. `closeOnIOError`
  keeps the transport open for the caller's own cancellation, so the card still
  has an open chain, and the next command is executed as its continuation.
  `cancelPolling` closes the transport for just that reason, but it is only
  reached once polling has begun.
* `preview_uv_token`: `GetPinUvAuthTokenUsingUV` obtains a preview token with
  protocol 1, because that is the only one the uvToken flow has. The preview
  commands choose the protocol again, as the first one the authenticator lists.
  If that is protocol 2, the Device refuses its own 16-byte token, or
  authenticates a 32-byte one with the wrong protocol.

One more observation has no run: `CtapHidTransport` assumes for `CloseUnblocks`
that a device accepts packets in finite time. `Close` calls `Cancel`, which locks
`writeMu` before it looks at its 250 ms context, so a write that never ends keeps
`Close` from closing the device that would end it.

## Proofs

`ChannelDeviceProofs` proves, for any set of channels and closers and any number
of reports: type correctness, `NoLostWakeup`, `Ownership`,
`CloseIsNotCancellation`, `TerminalErrorIsFinal`, `InOrderOnce`, and that `Spec`
implements `ReportChannel!Spec`. The assumptions are those of `ChannelDevice`: the
broadcast channel is a channel, the bound is a natural number and `None` is
neither a report nor an error.

The inductive invariant `IInv` adds to `TypeOK` and `NoLostWakeup` three facts
that connect control points and data. `ReaderControl`: a reader about to enqueue
holds a report, and the terminal error is set exactly from the end of `finish`
on; with it, nothing can be queued after the error, the error is written once,
and what is appended to the queue is a report. `CauseControl`: while `Open` is at
work the context is active, on an open transport it can only have been canceled
with the closed-pipe cause, and a read ends with a bare context error only if it
was canceled; so `finish` always restores the closed-pipe error there.
`CloseControl`: `closeOnce` is untouched until the transport exists, a closer
that waits for the reader has closed the device, and the once is done only with
the device closed and the reader gone. `Ownership` and `CloseIsNotCancellation`
follow from `CauseControl` and `CloseControl`; neither they nor `NoLostWakeup`
are inductive alone, because what they say depends on how far the reader is.
`InOrderOnce` needs one fact more (`Order`): the reader holds a report only between
its read and `enqueue`. `Selected` is a recursive function so that the prover can
unfold it; `SelectsExists`, `SelectsUnique` and `SelectedAppend` show, by a least
counterexample, that it is well defined and how one report more changes it.

In each of the other proof modules `Invariance` states that `IInv` is an
invariant of `Spec`; the properties follow from it. None of them is inductive
alone: each says something of a moment (a call has returned, nobody holds the
lock) that depends on what every control point before it established. The `IInv`
were checked with TLC on the instances of the runs before they were proved.

`CtapHidTransportProofs` (`CBORNotInterleaved`, `OwnResponse`,
`CleanBetweenCalls`, `CancelOnlyCanceled`). `Holder` and `Serialised` tie the two
mutexes to the control points of their holders. `Exchange` is the heart: while a
caller waits for its response, or drains it, `Stage` accounts for every packet of
the answer. So many were read, so many are in the channel behind at most one
keepalive, and the authenticator is still to send the others; or it has only the
request. From that a complete message is the answer to the last attempt, and
nothing is left when it is complete (`CleanStart`). Like the properties, `Stage`
is claimed until an exchange is abandoned; the run `hid_torn_drain` shows that
the drain can do that.

`CtapBleProofs` (`FrameIntact`, `OwnResponse`, `CleanBetweenCalls`,
`InvalidatedIsClosed`). The same account of an exchange, here without an
exception, because a drain that does not end closes the connection; the answer
may also be in the result channel of the reader. `Gated` says who holds the write
gate and that a half-written frame is being assembled, `Once` what `closeOnce`
has done at each control point of `Close`.

`Iso7816Proofs` (`OwnResponse`, `IdleBetweenCalls`, `SessionEndsIdle`). `Quiet`
says what the card holds at each control point of the command that has the lock,
`Closing` that only the goroutine of `Close` that won `TryLock` ends the session.

`AuthenticatorDeviceProofs` (`InfoFresh`, `ChecksCurrent`). `Checked` says that a
command on the wire passed its checks on information that is still valid, and
`Current` that the valid information differs from the authenticator only while
the response that will invalidate it is on its way. Both theorems assume
`CaptureReportsTemplate`; the run `enroll_capture` shows that they are false
without it.

`SelectProofs` (`OneSurvivor`, `SelectedWasTouched`). `Counted` equates the
results taken and queued with the goroutines that are done, `Opened` lists the
open transports of each control point, `Confirmed` says that until the first
device is closed every success is a touch.

`TokenSessionProofs` (`AuthParamVerifies`, `CorrectPINSpendsNoRetry`,
`GrantHonoured`). A lemma per kind of request shows that its parameter verifies
(`BuildProper` for all commands), one per flow which permissions it gives out.
`DeviceCalls` reduces the calls of the Device to three: refused, asking for the
key, or sending a command. `FreshKey` (a call uses the authenticator's key unless
another platform interfered) gives `CorrectPINSpendsNoRetry`. For `GrantHonoured`
a second invariant, `TInv`, follows the token from the flow (`Honest`) to the
caller (`Current`: what it may expect of the token is granted, usable, and the
token's length is accepted with the protocol it was issued for) and to the
request (`Covered`). `TokensHonoured` assumes that the information an
authenticator may report is coherent (`Coherent`): `perCredMgmtRO` comes with
credential management; a preview authenticator does not report `credMgmt` or
`bioEnroll`; and one with `uvToken` makes the library choose protocol 1. The
instance of `tokens` satisfies it, and `preview_uv_token` shows what happens
without the last part. `RequestVerifies` and `RightPINSpendsNoRetry` assume
nothing of the information.

`DeviceSessionProofs` (`EnumerationWhole`, `PRFPerCredential`, `OutputsAsAsked`,
`BlobReadWhole`, `WrittenBlobStays`), for any callers, calls, credentials, arrays and fragment length. `IInv` has
`Exclusive` (a call under way holds `Device.mu`) and, for each call, `Fits`: what
it yielded and what it holds back for a legacy large blob are the first items of
the enumeration that began for it, and the authenticator's cursor, unless some
command ended it, is the rest. A lemma per operator on a call's record
(`ReceivedFits`, `ConsumeFits`, `EmitFits`, `ReadArrayFits`, ...) says how it moves
along that account, and `ActiveStep` lifts it to a step of the Device: because the
lock is held while the consumer runs, no other call of the Device can touch the
cursor. The second invariant, `Asked`, says that the request of a call under way
is the one its checks allowed, that an assertion that was accepted is `Right` for
its credential and a credential `Made` as asked; `AssertionRight` and
`CredentialRight` show it for every answer of `Deviations`, `SelectedIsMeant` that
the salts sent for a credential of the allow list are those meant for it.

The third invariant, `Stored`, is about the large-blob array. Every array the
authenticator had during a call is among those the call has seen. A reader's units
are blobs, or checksums of arrays it has seen, and as long as nothing disturbs it
they are the first units of the present array (`Reading`); so what passes the
checksum is an array that was there, although its fragments may be of different
ones. A writer has a whole array to send, in which `GetAssertion` has put the new
blob and kept the confirmed ones of the other credentials (`Writing`,
`ReplaceFacts`). `CommitFacts` is the step that matters: what the authenticator
commits ends with the checksum its writer sent last, and a checksum that fits
determines the array, so a write that another platform mixed with its own commits
what the caller meant or nothing. `WrittenBlobStays` is a part of `Stored`.

The assumption `CallsAssumption` says what Go's types do: lists are finite
sequences, an allow list is finite, a protection level is a number, an array is a
sequence of blobs.

The assumptions on constants are those the modules state: bounds are natural
numbers, sets of commands and lengths are what the code knows, and `None` is none
of the values it stands for the absence of. The bounds on calls, retries, tokens
and keys are arbitrary, so the theorems hold of every finite behaviour.

Every safety property that a passing run checks is stated by a theorem. Only
model-checked is liveness (`ReadReturns`, `ShutdownCompletes`,
`CanceledCallReturns`, `CancelReturns`, `CloseUnblocks`, `CanceledSelectReturns`,
`TouchReturns`, `NoGoroutineLeak`, and the fairness part of `ImplementsChannel`),
which the prover does not handle.

## Not modelled

Cryptography, COSE and ARKG (numeric algorithms; `CtapClient` treats encryption
and authentication symbolically), attestation and credential parsing (pure
functions on bytes), diagnostics (formatting of log records), OS backends (I/O),
and, until the plan below is carried out, the INIT exchange of CTAPHID, message
sizes, the Token2 tunnel and the GATT set-up of BLE. In
`CtapBle` the authenticator sends well-formed frames: a lost notification would
end the reader with a framing error, after which the connection is kept and the
rest of the response is left to the next command.

## Plan

1. `CtapHidOpen`: the INIT exchange on the broadcast channel with several
   clients, nonces, foreign errors and busy retries; composed with the hand-over
   in `ChannelDevice`.
2. `CtapHidMessage`: fragmentation and reassembly with sizes and sequence
   numbers, checked against a reference over all short lengths around the
   boundaries.
3. `CtapBleFraming`: fragment sizes and the seven-bit sequence number, with lost,
   repeated and swapped fragments; together with `CtapHidMessage` in one run.
4. `Token2`, and an abstract promise of a transport that the four share.
5. Theorems about the modules of 1 to 4.
