-------------------------- MODULE CtapHidTransport ---------------------------
(***************************************************************************)
(* transport/ctaphid/transport.go with the exchange loops of commands.go   *)
(* and the reassembly of decoding.go: goroutines that share one CTAPHID    *)
(* channel, the two mutexes and the activeCBOR flag, cancellation by       *)
(* CTAPHID_CANCEL and drain, the busy retry, and Close running against     *)
(* them.  The channel is the FIFO of ReportChannel; the authenticator and  *)
(* the HID device are the environment.                                     *)
(*                                                                         *)
(* A message is its packets; a packet carries the attempt it belongs to,   *)
(* which stands for its payload.  A CBOR request takes two packets, every  *)
(* other request one.                                                      *)
(***************************************************************************)
EXTENDS Naturals, Sequences, FiniteSets

CONSTANTS Callers,     \* goroutines that issue commands
          Closer,      \* the goroutine that calls Close
          Kinds,       \* commands they issue: subset of {"CBOR", "OTHER"}
          RespLens,    \* packets of a response: subset of 1..3
          MaxCalls,    \* bound: calls made
          MaxBusy,     \* bound: ERR_CHANNEL_BUSY answers
          None

ASSUME TransportAssumption ==
    /\ Closer \notin Callers
    /\ None \notin Callers /\ None # Closer /\ None \notin {"closed", "io"}
    /\ Kinds \subseteq {"CBOR", "OTHER"}
    /\ RespLens \subseteq (Nat \ {0})
    /\ MaxCalls \in Nat /\ MaxBusy \in Nat

Procs == Callers \union {Closer}

VARIABLES
    mu,         \* Transport.mu: its holder or None
    writeMu,    \* Transport.writeMu: its holder or None
    activeCBOR, \* Transport.activeCBOR
    pc,         \* control point of each goroutine
    kind,       \* the command each caller runs
    ctxDone,    \* the context of each goroutine's call is done
    attempt,    \* the attempt each caller last sent, 0 if none in this call
    msg,        \* ReadFrom: the message each caller is assembling, or None
    result,     \* how each caller's last call ended
    half,       \* writer of a request whose second packet is not written yet
    pending,    \* the channel: reports not read yet
    failure,    \* the channel: terminal read error
    open,       \* the HID device is open
    inbox,      \* authenticator: requests received, the head being processed
    sending,    \* authenticator: packets of the response it still has to send
    canceling,  \* authenticator: a CTAPHID_CANCEL reached the request
    attempts,   \* request messages sent so far, retries included
    calls,      \* calls made so far
    busy,       \* ERR_CHANNEL_BUSY answers so far
    abandoned   \* history: some exchange left the channel with a response due

hostVars == <<mu, writeMu, activeCBOR, pc, kind, ctxDone, attempt, msg, result>>
devVars  == <<inbox, sending, canceling, busy>>
vars == <<hostVars, devVars, half, pending, failure, open, attempts, calls, abandoned>>

Commands == {"CBOR", "OTHER", "KEEPALIVE", "ERROR", "BUSY"}

\* seq 0 is an initialization packet, seq k the k-th continuation packet.
Packets == [n : Nat, cmd : Commands, seq : Nat, last : BOOLEAN]
Packet(n, c, k, l) == [n |-> n, cmd |-> c, seq |-> k, last |-> k = l - 1]

\* The packets of a response of l packets to attempt n.
Response(n, c, l) == [i \in 1..l |-> Packet(n, c, i - 1, l)]

\* A request, and a message of which ReadFrom has read the packets before next.
Requests == [n : Nat, cmd : Kinds]
Messages == [n : Nat, cmd : Commands, next : Nat]

ASSUME NoneAssumption == None \notin Messages

\* How a call ended: with a response, whose attempt is kept, or with an error.
Outcomes == {"none", "response", "ctx", "invalidated", "framing", "error"}
Ended(e) == [end |-> e, n |-> 0]
Results == [end : Outcomes, n : Nat]

-----------------------------------------------------------------------------
\* Open or NewTransport returned.
Init == /\ mu = None /\ writeMu = None /\ activeCBOR = FALSE
        /\ pc = [p \in Procs |-> "idle"]
        /\ kind \in [Callers -> Kinds]
        /\ ctxDone = [p \in Procs |-> FALSE]
        /\ attempt = [p \in Callers |-> 0]
        /\ msg = [p \in Callers |-> None]
        /\ result = [p \in Callers |-> Ended("none")]
        /\ half = None
        /\ pending = <<>> /\ failure = None /\ open = TRUE
        /\ inbox = <<>> /\ sending = <<>> /\ canceling = FALSE
        /\ attempts = 0 /\ calls = 0 /\ busy = 0 /\ abandoned = FALSE

Goto(p, l) == pc' = [pc EXCEPT ![p] = l]

\* The deferred activeCBOR.Store(false) and mu.Unlock, and the call's result.
Return(p, r) ==
    /\ Goto(p, "idle")
    /\ mu' = None
    /\ activeCBOR' = FALSE
    /\ result' = [result EXCEPT ![p] = r]
    /\ msg' = [msg EXCEPT ![p] = None]

\* Mutant: closing the device does not end a read that is blocked on it.
CloseDeviceOnly == open' = FALSE /\ UNCHANGED failure

\* device.Close() of the channel: a read that finds the queue empty fails.
CloseDevice ==
    /\ open' = FALSE
    /\ failure' = IF failure = None THEN "closed" ELSE failure

\* ReadFrom was cut between two packets of a message, or gives up on it.
Torn(p) == msg[p] # None

-----------------------------------------------------------------------------
(* Entry of CBOR and of Ping, Wink, Lock and Vendor. *)

Call(p, k) ==
    /\ pc[p] = "idle"
    /\ calls < MaxCalls
    /\ calls' = calls + 1
    /\ kind' = [kind EXCEPT ![p] = k]
    /\ ctxDone' = [ctxDone EXCEPT ![p] = FALSE]
    /\ attempt' = [attempt EXCEPT ![p] = 0]
    /\ result' = [result EXCEPT ![p] = Ended("none")]
    /\ Goto(p, "lock")
    /\ UNCHANGED <<mu, writeMu, activeCBOR, msg, half, pending, failure, open>>
    /\ UNCHANGED <<devVars, attempts, abandoned>>

\* The context of a call is canceled, or its deadline passes.
ContextDone(p) ==
    /\ pc[p] \notin {"idle", "closed"}
    /\ ~ctxDone[p]
    /\ ctxDone' = [ctxDone EXCEPT ![p] = TRUE]
    /\ UNCHANGED <<mu, writeMu, activeCBOR, pc, kind, attempt, msg, result>>
    /\ UNCHANGED <<devVars, half, pending, failure, open, attempts, calls, abandoned>>

\* mu.Lock, then ctx.Err, then activeCBOR.Store(true) in CBOR.
LockMu(p) ==
    /\ pc[p] = "lock"
    /\ mu = None
    /\ IF ctxDone[p]
       THEN Return(p, Ended("ctx"))
       ELSE /\ mu' = p
            /\ activeCBOR' = (kind[p] = "CBOR")
            /\ Goto(p, IF kind[p] = "CBOR" THEN "writeLock" ELSE "write")
            /\ UNCHANGED <<result, msg>>
    /\ UNCHANGED <<writeMu, kind, ctxDone, attempt, half, pending, failure, open>>
    /\ UNCHANGED <<devVars, attempts, calls, abandoned>>

\* writeCBOR: writeMu.Lock, then ctx.Err.
LockWriteMu(p) ==
    /\ pc[p] = "writeLock"
    /\ writeMu = None
    /\ IF ctxDone[p]
       THEN Return(p, Ended("ctx")) /\ UNCHANGED writeMu
       ELSE writeMu' = p /\ Goto(p, "write") /\ UNCHANGED <<mu, activeCBOR, result, msg>>
    /\ UNCHANGED <<kind, ctxDone, attempt, half, pending, failure, open>>
    /\ UNCHANGED <<devVars, attempts, calls, abandoned>>

\* Message.WriteTo: one packet reaches the device.  The request is received
\* with its last packet, after which writeCBOR unlocks writeMu.
WritePacket(p) ==
    /\ pc[p] = "write"
    /\ open
    /\ IF kind[p] = "CBOR" /\ half = None
       THEN /\ half' = p
            /\ UNCHANGED <<writeMu, pc, attempt, inbox, attempts>>
       ELSE /\ half' = None
            /\ writeMu' = IF writeMu = p THEN None ELSE writeMu
            /\ attempts' = attempts + 1
            /\ attempt' = [attempt EXCEPT ![p] = attempts']
            /\ inbox' = Append(inbox, [n |-> attempts', cmd |-> kind[p]])
            /\ Goto(p, "read")
    /\ UNCHANGED <<mu, activeCBOR, kind, ctxDone, msg, result, pending, failure, open>>
    /\ UNCHANGED <<sending, canceling, busy, calls, abandoned>>

\* The device fails the write: it is closed or gone, or the context is done.
\* closeOnIOError closes the device and the call reports it invalidated.
WriteFails(p) ==
    /\ pc[p] = "write"
    /\ ~open \/ failure # None \/ ctxDone[p]
    /\ CloseDevice
    /\ half' = IF half = p THEN None ELSE half
    /\ writeMu' = IF writeMu = p THEN None ELSE writeMu
    /\ Return(p, Ended("invalidated"))
    /\ UNCHANGED <<kind, ctxDone, attempt, pending, devVars, attempts, calls, abandoned>>

-----------------------------------------------------------------------------
(* readCBORResponse and its siblings, reading with the call's context (pc  *)
(* "read", "wait") or draining without it (pc "drain").                    *)

Reading(p) == pc[p] \in {"read", "wait", "drain"}

\* The next packet of the exchange is to be read.
ReadOn(p) == Goto(p, IF pc[p] = "drain" THEN "drain" ELSE "read")

\* channelDevice.Read found nothing and waits, for a report or its context.
Wait(p) ==
    /\ pc[p] = "read"
    /\ pending = <<>> /\ failure = None
    /\ Goto(p, "wait")
    /\ UNCHANGED <<mu, writeMu, activeCBOR, kind, ctxDone, attempt, msg, result>>
    /\ UNCHANGED <<devVars, half, pending, failure, open, attempts, calls, abandoned>>

\* Mutant: the drain is content with a keepalive.
CompleteOnKeepalive(p, r) ==
    CASE pc[p] = "drain" -> Return(p, Ended("ctx"))
      [] r.cmd = "KEEPALIVE" /\ pc[p] # "drain" ->
            /\ msg' = [msg EXCEPT ![p] = None]
            /\ ReadOn(p)
            /\ UNCHANGED <<mu, activeCBOR, result>>
      [] r.cmd = "BUSY" /\ pc[p] # "drain" ->
            /\ Goto(p, "retry")
            /\ msg' = [msg EXCEPT ![p] = None]
            /\ UNCHANGED <<mu, activeCBOR, result>>
      [] OTHER -> Return(p, IF r.cmd = "ERROR" THEN Ended("error")
                            ELSE [end |-> "response", n |-> r.n])

\* The message r is complete (r.cmd is its command).
Complete(p, r) ==
    CASE r.cmd = "KEEPALIVE" ->                     \* continue read
            /\ msg' = [msg EXCEPT ![p] = None]
            /\ ReadOn(p)
            /\ UNCHANGED <<mu, activeCBOR, result>>
      [] pc[p] = "drain" /\ r.cmd # "KEEPALIVE" ->  \* whatever it was, it is drained
            Return(p, Ended("ctx"))
      [] pc[p] # "drain" /\ r.cmd = "BUSY" ->        \* ERR_CHANNEL_BUSY: retryChannelBusy
            /\ Goto(p, "retry")
            /\ msg' = [msg EXCEPT ![p] = None]
            /\ UNCHANGED <<mu, activeCBOR, result>>
      [] pc[p] # "drain" /\ r.cmd = "ERROR" ->
            Return(p, Ended("error"))
      [] pc[p] # "drain" /\ r.cmd = kind[p] ->
            Return(p, [end |-> "response", n |-> r.n])
      [] OTHER ->                                   \* ErrUnexpectedCommand
            Return(p, Ended("framing"))

\* ErrInvalidResponseMessage: the caller gets it, or the drain swallows it.
Invalid(p) == Return(p, Ended(IF pc[p] = "drain" THEN "ctx" ELSE "framing"))

\* ReadFrom takes the next report of the channel.
ReadPacket(p) ==
    /\ Reading(p)
    /\ pending # <<>>
    /\ pending' = Tail(pending)
    /\ LET r == Head(pending) IN
       IF (r.seq = 0) = Torn(p) \/ (Torn(p) /\ r.seq # msg[p].next)
       THEN Invalid(p)
       ELSE LET m == IF r.seq = 0 THEN r ELSE msg[p] IN
            IF r.last
            THEN Complete(p, m)
            ELSE /\ msg' = [msg EXCEPT ![p] = [n |-> m.n, cmd |-> m.cmd, next |-> r.seq + 1]]
                 /\ ReadOn(p)
                 /\ UNCHANGED <<mu, activeCBOR, result>>
    /\ UNCHANGED <<writeMu, kind, ctxDone, attempt, half, failure, open>>
    /\ UNCHANGED <<devVars, attempts, calls, abandoned>>

\* The channel failed: closeOnIOError, and the call reports it invalidated.
ReadFails(p) ==
    /\ Reading(p)
    /\ pending = <<>>
    /\ failure # None
    /\ CloseDevice
    /\ Return(p, Ended("invalidated"))
    /\ UNCHANGED <<writeMu, kind, ctxDone, attempt, half, pending, devVars, attempts, calls, abandoned>>

\* Mutant: a wake-up without a report is taken for the end of the context.
ReadCanceledSpuriously(p) ==
    /\ pc[p] = "wait"
    /\ Goto(p, "cancelLock")
    /\ msg' = [msg EXCEPT ![p] = None]
    /\ abandoned' = (abandoned \/ Torn(p))
    /\ UNCHANGED <<mu, activeCBOR, result, writeMu, kind, ctxDone, attempt, half, pending, failure, open>>
    /\ UNCHANGED <<devVars, attempts, calls>>

\* Mutant: the response is awaited without a CTAPHID_CANCEL.
ReadCanceledDrain(p) ==
    /\ pc[p] = "wait"
    /\ ctxDone[p]
    /\ Goto(p, "drain")
    /\ msg' = [msg EXCEPT ![p] = None]
    /\ UNCHANGED <<mu, activeCBOR, result, writeMu, kind, ctxDone, attempt, half, pending, failure, open>>
    /\ UNCHANGED <<devVars, attempts, calls, abandoned>>

\* The wait ends with the call's own context error, even if a report has
\* arrived meanwhile: select picks either.  CBOR goes on to cancel and drain;
\* the other commands return at once.
ReadCanceled(p) ==
    /\ pc[p] = "wait"
    /\ ctxDone[p]
    /\ IF kind[p] = "CBOR"
       THEN /\ Goto(p, "cancelLock")
            /\ msg' = [msg EXCEPT ![p] = None]
            /\ abandoned' = (abandoned \/ Torn(p))
            /\ UNCHANGED <<mu, activeCBOR, result>>
       ELSE Return(p, Ended("ctx")) /\ abandoned' = TRUE
    /\ UNCHANGED <<writeMu, kind, ctxDone, attempt, half, pending, failure, open>>
    /\ UNCHANGED <<devVars, attempts, calls>>

\* retryChannelBusy: the timer fires first.
Retry(p) ==
    /\ pc[p] = "retry"
    /\ Goto(p, IF kind[p] = "CBOR" THEN "writeLock" ELSE "write")
    /\ UNCHANGED <<mu, writeMu, activeCBOR, kind, ctxDone, attempt, msg, result>>
    /\ UNCHANGED <<devVars, half, pending, failure, open, attempts, calls, abandoned>>

\* retryChannelBusy: the context is done first.
RetryCanceled(p) ==
    /\ pc[p] = "retry"
    /\ ctxDone[p]
    /\ Return(p, Ended("ctx"))
    /\ UNCHANGED <<writeMu, kind, ctxDone, attempt, half, pending, failure, open>>
    /\ UNCHANGED <<devVars, attempts, calls, abandoned>>

-----------------------------------------------------------------------------
(* Cancel, from cancelAndDrainCBOR (a caller) and from Close. *)

\* Close: activeCBOR.Load decides whether to cancel first.
CloseCall ==
    /\ pc[Closer] = "idle"
    /\ Goto(Closer, IF activeCBOR THEN "cancelLock" ELSE "close")
    /\ UNCHANGED <<mu, writeMu, activeCBOR, kind, ctxDone, attempt, msg, result>>
    /\ UNCHANGED <<devVars, half, pending, failure, open, attempts, calls, abandoned>>

\* Mutant: Cancel does not take writeMu.
LockCancelUnserialised(p) ==
    /\ pc[p] = "cancelLock"
    /\ Goto(p, "cancelWrite")
    /\ UNCHANGED <<mu, writeMu, activeCBOR, kind, ctxDone, attempt, msg, result>>
    /\ UNCHANGED <<devVars, half, pending, failure, open, attempts, calls, abandoned>>

\* writeMu.Lock, then ctx.Err: the drain's context is never done, that of
\* Close is after closeCancelTimeout.
LockCancel(p) ==
    /\ pc[p] = "cancelLock"
    /\ writeMu = None
    /\ IF p = Closer /\ ctxDone[p]
       THEN Goto(p, "close") /\ UNCHANGED writeMu
       ELSE Goto(p, "cancelWrite") /\ writeMu' = p
    /\ UNCHANGED <<mu, activeCBOR, kind, ctxDone, attempt, msg, result>>
    /\ UNCHANGED <<devVars, half, pending, failure, open, attempts, calls, abandoned>>

\* Mutant: the canceled call returns without draining the response.
WriteCancelWithoutDrain(p) ==
    /\ pc[p] = "cancelWrite"
    /\ open
    /\ writeMu' = None
    /\ IF p = Closer
       THEN Goto(p, "close") /\ UNCHANGED <<mu, activeCBOR, result, msg>>
       ELSE Return(p, Ended("ctx"))
    /\ canceling' = (canceling \/ (sending = <<>> /\ inbox # <<>> /\ Head(inbox).cmd = "CBOR"))
    /\ UNCHANGED <<kind, ctxDone, attempt, inbox, sending, busy, half, pending, failure, open>>
    /\ UNCHANGED <<attempts, calls, abandoned>>

\* The CANCEL packet reaches the authenticator, which heeds it only while it
\* has a CBOR request it has not begun to answer.
WriteCancel(p) ==
    /\ pc[p] = "cancelWrite"
    /\ open
    /\ writeMu' = None
    /\ Goto(p, IF p = Closer THEN "close" ELSE "drain")
    /\ canceling' = (canceling \/ (sending = <<>> /\ inbox # <<>> /\ Head(inbox).cmd = "CBOR"))
    /\ UNCHANGED <<mu, activeCBOR, kind, ctxDone, attempt, msg, result>>
    /\ UNCHANGED <<inbox, sending, busy, half, pending, failure, open, attempts, calls, abandoned>>

\* The CANCEL cannot be written: closeOnIOError.  cancelAndDrainCBOR then
\* reports the call invalidated, Close goes on to close.
WriteCancelFails(p) ==
    /\ pc[p] = "cancelWrite"
    /\ ~open \/ failure # None \/ (p = Closer /\ ctxDone[p])
    /\ CloseDevice
    /\ writeMu' = None
    /\ IF p = Closer
       THEN Goto(p, "close") /\ UNCHANGED <<mu, activeCBOR, result, msg>>
       ELSE Return(p, Ended("invalidated"))
    /\ UNCHANGED <<kind, ctxDone, attempt, half, pending, devVars, attempts, calls, abandoned>>

\* Close: device.Close().
CloseTransport ==
    /\ pc[Closer] = "close"
    /\ CloseDevice
    /\ Goto(Closer, "closed")
    /\ UNCHANGED <<mu, writeMu, activeCBOR, kind, ctxDone, attempt, msg, result>>
    /\ UNCHANGED <<devVars, half, pending, attempts, calls, abandoned>>

-----------------------------------------------------------------------------
(* The authenticator and the HID device: environment. *)

Deliver(pkt) == pending' = IF failure = None THEN Append(pending, pkt) ELSE pending

\* It is still working on the request (at most one keepalive is unread).
Keepalive ==
    /\ inbox # <<>> /\ sending = <<>> /\ failure = None
    /\ Head(inbox).cmd = "CBOR"
    /\ \A i \in 1..Len(pending) : pending[i].cmd # "KEEPALIVE"
    /\ Deliver(Packet(Head(inbox).n, "KEEPALIVE", 0, 1))
    /\ UNCHANGED <<hostVars, devVars, half, failure, open, attempts, calls, abandoned>>

\* It begins to answer the request: with the command's own response (a CTAP
\* status included), or with a CTAPHID error.
Answer(c, l) ==
    /\ inbox # <<>> /\ sending = <<>>
    /\ c = Head(inbox).cmd \/ (l = 1 /\ c \in {"ERROR", "BUSY"})
    /\ c = "BUSY" => busy < MaxBusy
    /\ busy' = IF c = "BUSY" THEN busy + 1 ELSE busy
    /\ sending' = Response(Head(inbox).n, c, l)
    /\ inbox' = Tail(inbox)
    /\ canceling' = FALSE
    /\ UNCHANGED <<hostVars, half, pending, failure, open, attempts, calls, abandoned>>

\* One more packet of the response arrives.
SendPacket ==
    /\ sending # <<>>
    /\ Deliver(Head(sending))
    /\ sending' = Tail(sending)
    /\ UNCHANGED <<hostVars, inbox, canceling, busy, half, failure, open, attempts, calls, abandoned>>

\* A canceled request is answered with CTAP2_ERR_KEEPALIVE_CANCEL.
AnswerCanceled == canceling /\ Answer("CBOR", 1)

\* The device is unplugged.
Unplug ==
    /\ failure = None
    /\ failure' = "io"
    /\ inbox' = <<>> /\ sending' = <<>> /\ canceling' = FALSE
    /\ UNCHANGED <<hostVars, busy, half, pending, open, attempts, calls, abandoned>>

-----------------------------------------------------------------------------
HostStep(p) ==
    \/ LockCancel(p) \/ WriteCancelFails(p)
    \/ /\ p \in Callers
       /\ \/ LockMu(p) \/ LockWriteMu(p) \/ WriteFails(p) \/ Wait(p)
          \/ ReadPacket(p) \/ ReadFails(p) \/ ReadCanceled(p)
          \/ Retry(p) \/ RetryCanceled(p)

\* The device accepts a packet.
WriteStep(p) == WriteCancel(p) \/ (p \in Callers /\ WritePacket(p))

Next == \/ \E p \in Callers, k \in Kinds : Call(p, k)
        \/ \E p \in Procs : ContextDone(p) \/ HostStep(p) \/ WriteStep(p)
        \/ CloseCall \/ CloseTransport
        \/ Keepalive \/ SendPacket \/ Unplug \/ AnswerCanceled
        \/ \E c \in Commands, l \in RespLens : Answer(c, l)

Spec == Init /\ [][Next]_vars
\* Goroutines run, timers fire and mutexes are granted.  A write to a device
\* that is closed or whose context is done returns.  Keepalives come 100 ms
\* apart, so a caller that reads them does get to wait; and a wait that they
\* end again and again still sees its context done at last: select picks at
\* random among the cases that are ready.
HostFairness ==
    /\ \A p \in Procs : WF_vars(HostStep(p))
    /\ \A p \in Callers : SF_vars(Wait(p)) /\ SF_vars(ReadCanceled(p))
    /\ WF_vars(ContextDone(Closer))
    /\ WF_vars(CloseTransport)

\* The device accepts packets in finite time.
WriteFairness == \A p \in Procs : WF_vars(WriteStep(p))

\* The authenticator answers a request it was told to cancel, and finishes the
\* responses it begins.
AuthenticatorFairness == WF_vars(AnswerCanceled) /\ WF_vars(SendPacket)

FairSpec == Spec /\ HostFairness /\ WriteFairness /\ AuthenticatorFairness

-----------------------------------------------------------------------------
\* The variables keep their types (struct Transport, readCBORResponse, ReadFrom).
TypeOK ==
    /\ mu \in Callers \union {None}
    /\ writeMu \in Procs \union {None}
    /\ half \in Callers \union {None}
    /\ pc \in [Procs -> {"idle", "lock", "writeLock", "write", "read", "wait", "retry", "drain",
                         "cancelLock", "cancelWrite", "close", "closed"}]
    /\ failure \in {None, "closed", "io"}
    /\ activeCBOR \in BOOLEAN /\ open \in BOOLEAN
    /\ canceling \in BOOLEAN /\ abandoned \in BOOLEAN
    /\ kind \in [Callers -> Kinds]
    /\ ctxDone \in [Procs -> BOOLEAN]
    /\ attempt \in [Callers -> Nat]
    /\ msg \in [Callers -> Messages \union {None}]
    /\ result \in [Callers -> Results]
    /\ inbox \in Seq(Requests)
    /\ sending \in Seq(Packets) /\ pending \in Seq(Packets)
    /\ attempts \in Nat /\ calls \in 0..MaxCalls /\ busy \in 0..MaxBusy

\* The comment on Transport.writeMu: while a CBOR request is half written no
\* other goroutine is allowed to put a packet, a CANCEL in particular, between
\* its packets.
CBORNotInterleaved == half # None => writeMu = half /\ pc[half] = "write"

\* As long as no exchange was abandoned, a call that returns a response
\* returns the response to the request it sent last, whatever was canceled,
\* retried or closed before it.
OwnResponse ==
    ~abandoned => \A p \in Callers :
                      /\ result[p].end # "framing"
                      /\ result[p].end = "response" => result[p].n = attempt[p]

\* A channel nobody holds is clean: no response is due, on its way or unread.
ChannelClean ==
    mu = None /\ failure = None => inbox = <<>> /\ sending = <<>> /\ pending = <<>>

\* What a call leaves behind: as long as no exchange was abandoned, the channel
\* is clean between calls; and a call that reports DeviceInvalidatedError, after
\* an error in any phase of an exchange or of its drain, has closed the device.
CleanBetweenCalls ==
    /\ ~abandoned => ChannelClean
    /\ (\E p \in Callers : result[p].end = "invalidated") => ~open

\* As long as no exchange was abandoned, a request is canceled only if its own
\* context is done, or by a Close whose next step closes the device: its CANCEL,
\* sent on a reading of activeCBOR that may be outdated, meets no call that is
\* left to continue on an open device.
CancelOnlyCanceled ==
    canceling /\ ~abandoned /\ failure = None =>
        \/ pc[Closer] = "close"
        \/ \E p \in Callers : attempt[p] = Head(inbox).n /\ ctxDone[p] /\ pc[p] = "drain"

\* The comment on CBOR, "drains the command's terminal response before
\* returning": after a canceled CBOR call the channel is clean.
CanceledCBORDrained ==
    (\E p \in Callers : result[p].end = "ctx" /\ kind[p] = "CBOR") => ChannelClean

\* The caller that owns the exchange and cancels its context gets control back.
CanceledCallReturns ==
    \A p \in Callers : (mu = p /\ ctxDone[p]) ~> (mu # p \/ abandoned)

\* Close returns and unblocks every exchange, and every call that waits for its
\* turn.
CloseUnblocks ==
    pc[Closer] # "idle" ~> (pc[Closer] = "closed" /\ \A p \in Callers : pc[p] = "idle")
=============================================================================
