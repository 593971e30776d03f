------------------------------- MODULE CtapBle -------------------------------
(***************************************************************************)
(* transport/ctapble/transport.go: goroutines that share one BLE           *)
(* connection, the command mutex, the write gate and the activeMSG flag,   *)
(* the reader goroutine of each exchange, cancellation by CANCEL and a     *)
(* bounded drain, the busy retry, and Close running against them.  The     *)
(* authenticator and the BLE stack are the environment.                    *)
(*                                                                         *)
(* A frame is its fragments; a fragment carries the attempt it belongs to, *)
(* which stands for its payload.  An MSG request takes two fragments, a    *)
(* PING one.                                                               *)
(***************************************************************************)
EXTENDS Naturals, Sequences, FiniteSets

CONSTANTS Callers,     \* goroutines that issue commands
          Closer,      \* the goroutine that calls Close
          Kinds,       \* commands they issue: subset of {"MSG", "PING"}
          RespLens,    \* fragments of a response
          MaxCalls,    \* bound: calls made
          MaxBusy,     \* bound: ERR_BUSY answers
          None

ASSUME BleAssumption ==
    /\ Closer \notin Callers
    /\ None \notin Callers /\ None # Closer
    /\ Kinds \subseteq {"MSG", "PING"} /\ Kinds # {}
    /\ RespLens \subseteq (Nat \ {0})
    /\ MaxCalls \in Nat /\ MaxBusy \in Nat

Procs == Callers \union {Closer}

VARIABLES
    mu,          \* commandMu: its holder or None
    gate,        \* fidoControlPointWriteGate: its holder or None
    activeMSG,   \* activeMSG
    pc,          \* control point of each goroutine
    kind,        \* the command each caller runs
    ctxDone,     \* the context of each caller's call is done
    sent,        \* fragments of its request each caller has written
    attempt,     \* the attempt each caller last sent, 0 if none in this call
    result,      \* how each caller's last call ended
    reader,      \* the reader goroutine of each caller's exchange runs
    frame,       \* responseFrameAssembler of that reader: a frame, or None
    answer,      \* the result channel of that exchange: its element, or None
    once,        \* closeOnce: "new", "running" or "done"
    closed,      \* the channel closed is closed
    closeCancel, \* cancelErr of Close: "none", "sent" or "failed"
    sub,         \* the subscription is open
    peripheral,  \* the peripheral connection is open
    link,        \* the peripheral is in range
    half,        \* authenticator: writer of the frame it is assembling, or None
    inbox,       \* authenticator: requests received, the head being processed
    sending,     \* authenticator: fragments of the response still to send
    canceling,   \* authenticator: a CANCEL reached the request
    notes,       \* notifications not read yet
    attempts, calls, busy   \* bounded counters

callVars  == <<mu, activeMSG, kind, ctxDone, sent, attempt, result>>
readVars  == <<reader, frame, answer>>
closeVars == <<once, closed, closeCancel, sub, peripheral>>
devVars   == <<half, inbox, sending, canceling, notes, busy>>
vars == <<callVars, gate, pc, readVars, closeVars, devVars, link, attempts, calls>>

\* seq 0 is an initialization fragment, seq k the k-th continuation fragment.
Fragment(n, c, k, l) == [n |-> n, cmd |-> c, seq |-> k, last |-> k = l - 1]

Response(n, c, l) == [i \in 1..l |-> Fragment(n, c, i - 1, l)]

Fragments(k) == IF k = "MSG" THEN 2 ELSE 1

\* How an exchange or a call ended; n is the attempt of the response.
Ended(e) == [end |-> e, n |-> 0]
Outcomes == {"none", "response", "busy", "error", "framing", "io", "ctx", "invalidated"}

\* Notifications and requests on the connection, a frame being assembled, and
\* how an exchange (Verdicts) and a call (Results) may end.
Answers == {"MSG", "PING", "KEEPALIVE", "BUSY", "ERROR"}
Notifications == [n : Nat, cmd : Answers, seq : Nat, last : BOOLEAN]
Requests == [n : Nat, cmd : Kinds]
Frames == [n : Nat, cmd : Answers, next : Nat]
Verdicts == [end : Outcomes \ {"none", "ctx", "invalidated"}, n : Nat]
Results == [end : Outcomes \ {"busy", "io"}, n : Nat]

ASSUME NoneAssumption == None \notin Frames /\ None \notin Verdicts

Connected == link /\ peripheral
Goto(p, l) == pc' = [pc EXCEPT ![p] = l]

\* Open returned.
Init == /\ mu = None /\ gate = None /\ activeMSG = FALSE
        /\ pc = [p \in Procs |-> "idle"]
        /\ kind = [p \in Callers |-> CHOOSE k \in Kinds : TRUE]
        /\ ctxDone = [p \in Callers |-> FALSE]
        /\ sent = [p \in Callers |-> 0]
        /\ attempt = [p \in Callers |-> 0]
        /\ result = [p \in Callers |-> Ended("none")]
        /\ reader = [p \in Callers |-> FALSE]
        /\ frame = [p \in Callers |-> None]
        /\ answer = [p \in Callers |-> None]
        /\ once = "new" /\ closed = FALSE /\ closeCancel = "none"
        /\ sub = TRUE /\ peripheral = TRUE /\ link = TRUE
        /\ half = None /\ inbox = <<>> /\ sending = <<>> /\ canceling = FALSE
        /\ notes = <<>>
        /\ attempts = 0 /\ calls = 0 /\ busy = 0

-----------------------------------------------------------------------------
(* Entry and exit of CBOR and Ping. *)

Call(p, k) ==
    /\ pc[p] = "idle"
    /\ calls < MaxCalls
    /\ calls' = calls + 1
    /\ kind' = [kind EXCEPT ![p] = k]
    /\ ctxDone' = [ctxDone EXCEPT ![p] = FALSE]
    /\ attempt' = [attempt EXCEPT ![p] = 0]
    /\ result' = [result EXCEPT ![p] = Ended("none")]
    /\ Goto(p, "lock")
    /\ UNCHANGED <<mu, gate, activeMSG, sent, readVars, closeVars, devVars, link, attempts>>

\* The context of a call is canceled, or its deadline passes.
ContextDone(p) ==
    /\ pc[p] # "idle"
    /\ ~ctxDone[p]
    /\ ctxDone' = [ctxDone EXCEPT ![p] = TRUE]
    /\ UNCHANGED <<mu, activeMSG, kind, sent, attempt, result, gate, pc, readVars>>
    /\ UNCHANGED <<closeVars, devVars, link, attempts, calls>>

\* The deferred activeMSG.Store(false) and commandMu.Unlock, and the result.
Return(p, r) ==
    /\ Goto(p, "idle")
    /\ mu' = None
    /\ activeMSG' = FALSE
    /\ result' = [result EXCEPT ![p] = r]

\* The call goes on at label l.
Continue(p, l) == Goto(p, l) /\ UNCHANGED <<mu, activeMSG, result>>

\* commandMu.Lock, ctx.Err, and activeMSG.Store(true) in CBOR.
Lock(p) ==
    /\ pc[p] = "lock"
    /\ mu = None
    /\ IF ctxDone[p]
       THEN Return(p, Ended("ctx"))
       ELSE /\ mu' = p
            /\ activeMSG' = (kind[p] = "MSG")
            /\ Goto(p, "gate")
            /\ UNCHANGED result
    /\ sent' = [sent EXCEPT ![p] = 0]
    /\ UNCHANGED <<kind, ctxDone, attempt, gate, readVars, closeVars, devVars, link, attempts, calls>>

-----------------------------------------------------------------------------
(* writeRequest, for the request ("gate", "write"), for the CANCEL of a    *)
(* canceled call ("cgate", "cwrite") and for that of Close ("xgate",       *)
(* "xwrite").                                                              *)

GateOf == [gate |-> "write", cgate |-> "cwrite", xgate |-> "xwrite"]

\* Mutant: a CANCEL does not take the write gate.
AcquireUngated(p) ==
    /\ pc[p] \in DOMAIN GateOf
    /\ gate = None \/ pc[p] # "gate"
    /\ gate' = p
    /\ Goto(p, GateOf[pc[p]])
    /\ UNCHANGED <<callVars, readVars, closeVars, devVars, link, attempts, calls>>

Acquire(p) ==
    /\ pc[p] \in DOMAIN GateOf
    /\ gate = None
    /\ gate' = p
    /\ Goto(p, GateOf[pc[p]])
    /\ UNCHANGED <<callVars, readVars, closeVars, devVars, link, attempts, calls>>

Release(p) == gate' = IF gate = p THEN None ELSE gate

\* A fragment of p's request reaches the authenticator; the last one completes
\* the request unless another frame came between.
Receive(p) ==
    IF sent[p] + 1 < Fragments(kind[p])
    THEN half' = p /\ UNCHANGED <<inbox, attempt, attempts>>
    ELSE /\ half' = None
         /\ attempts' = attempts + 1
         /\ attempt' = [attempt EXCEPT ![p] = attempts']
         /\ inbox' = IF sent[p] > 0 /\ half # p THEN inbox
                     ELSE Append(inbox, [n |-> attempts', cmd |-> kind[p]])

\* A fragment is written; with the last one the gate is released and the
\* reader goroutine starts.
WriteFragment(p) ==
    /\ pc[p] = "write"
    /\ Connected
    /\ Receive(p)
    /\ IF sent[p] + 1 < Fragments(kind[p])
       THEN /\ sent' = [sent EXCEPT ![p] = @ + 1]
            /\ UNCHANGED <<pc, gate, readVars>>
       ELSE /\ Goto(p, "await")
            /\ Release(p)
            /\ sent' = [sent EXCEPT ![p] = 0]
            /\ reader' = [reader EXCEPT ![p] = TRUE]
            /\ frame' = [frame EXCEPT ![p] = None]
            /\ answer' = [answer EXCEPT ![p] = None]
    /\ UNCHANGED <<mu, activeMSG, kind, ctxDone, result, closeVars>>
    /\ UNCHANGED <<sending, canceling, notes, busy, link, calls>>

\* The wait for the gate ends with the context, or Write reports an error, the
\* fragment having reached the authenticator (delivered) or not; closeOnIOError.
WriteFails(p, delivered) ==
    /\ pc[p] = "write" \/ (pc[p] = "gate" /\ ctxDone[p])
    /\ IF delivered
       THEN pc[p] = "write" /\ Connected /\ Receive(p)
       ELSE UNCHANGED <<half, inbox, attempt, attempts>>
    /\ Release(p)
    /\ sent' = [sent EXCEPT ![p] = 0]
    /\ Goto(p, "close")
    /\ UNCHANGED <<mu, activeMSG, kind, ctxDone, result, readVars, closeVars>>
    /\ UNCHANGED <<sending, canceling, notes, busy, link, calls>>

\* The authenticator receives CANCEL: it interrupts a frame in the making and
\* is ignored when no MSG is being processed.
ReceiveCancel ==
    /\ half' = None
    /\ canceling' = (canceling \/ (inbox # <<>> /\ Head(inbox).cmd = "MSG"))

\* Mutant: a canceled call returns without draining its response.
CancelWrittenUndrained(p) ==
    /\ pc[p] \in {"cwrite", "xwrite"}
    /\ Connected
    /\ ReceiveCancel
    /\ Release(p)
    /\ IF pc[p] = "cwrite"
       THEN Return(p, Ended("ctx")) /\ UNCHANGED closeCancel
       ELSE Continue(p, "shut") /\ closeCancel' = "sent"
    /\ UNCHANGED <<kind, ctxDone, sent, attempt, readVars, once, closed, sub, peripheral>>
    /\ UNCHANGED <<inbox, sending, notes, busy, link, attempts, calls>>

\* cancel succeeded.
CancelWritten(p) ==
    /\ pc[p] \in {"cwrite", "xwrite"}
    /\ Connected
    /\ ReceiveCancel
    /\ Release(p)
    /\ IF pc[p] = "cwrite"
       THEN Goto(p, "drain") /\ UNCHANGED closeCancel
       ELSE Goto(p, "shut") /\ closeCancel' = "sent"
    /\ UNCHANGED <<callVars, readVars, once, closed, sub, peripheral>>
    /\ UNCHANGED <<inbox, sending, notes, busy, link, attempts, calls>>

\* Mutant: Close waits for the write gate without a timeout.
CancelFailsGated(p) ==
    /\ pc[p] \in {"cgate", "cwrite", "xwrite"}
    /\ Release(p)
    /\ IF pc[p] \in {"cgate", "cwrite"}
       THEN Goto(p, "close") /\ UNCHANGED closeCancel
       ELSE Goto(p, "shut") /\ closeCancel' = "failed"
    /\ UNCHANGED <<callVars, readVars, once, closed, sub, peripheral, devVars, link, attempts, calls>>

\* cancel failed: cancelDrainTimeout or closeCancelTimeout passed, or the write
\* reported an error.
CancelFails(p) ==
    /\ pc[p] \in {"cgate", "cwrite", "xgate", "xwrite"}
    /\ Release(p)
    /\ IF pc[p] \in {"cgate", "cwrite"}
       THEN Goto(p, "close") /\ UNCHANGED closeCancel
       ELSE Goto(p, "shut") /\ closeCancel' = "failed"
    /\ UNCHANGED <<callVars, readVars, once, closed, sub, peripheral, devVars, link, attempts, calls>>

-----------------------------------------------------------------------------
(* The reader goroutine: readResponse, fidoStatusNotification, addFragment. *)

\* The result channel has room for one; nobody looks at it once the exchange
\* is over.
Answer(p, r) ==
    /\ reader' = [reader EXCEPT ![p] = FALSE]
    /\ frame' = [frame EXCEPT ![p] = None]
    /\ answer' = IF pc[p] \in {"await", "cgate", "cwrite", "drain"}
                 THEN [answer EXCEPT ![p] = r] ELSE answer

\* The frame f is complete.
Assembled(p, f) ==
    IF f.cmd = "KEEPALIVE"
    THEN frame' = [frame EXCEPT ![p] = None] /\ UNCHANGED <<reader, answer>>
    ELSE Answer(p, CASE f.cmd = "BUSY"  -> Ended("busy")
                     [] f.cmd = "ERROR" -> Ended("error")
                     [] f.cmd = kind[p] -> [end |-> "response", n |-> f.n]
                     [] OTHER           -> Ended("framing"))

ReadFragment(p) ==
    /\ reader[p]
    /\ notes # <<>>
    /\ notes' = Tail(notes)
    /\ LET f == Head(notes)
           assembling == frame[p] # None
       IN IF (f.seq = 0) = assembling \/ (assembling /\ f.seq # frame[p].next)
          THEN Answer(p, Ended("framing"))
          ELSE LET g == IF assembling THEN frame[p] ELSE f IN
               IF f.last
               THEN Assembled(p, g)
               ELSE /\ frame' = [frame EXCEPT ![p] =
                                    [n |-> g.n, cmd |-> g.cmd, next |-> f.seq + 1]]
                    /\ UNCHANGED <<reader, answer>>
    /\ UNCHANGED <<callVars, gate, pc, closeVars, half, inbox, sending, canceling>>
    /\ UNCHANGED <<busy, link, attempts, calls>>

\* The transport is closed, or the stack has closed the notification channel.
ReadFails(p) ==
    /\ reader[p]
    /\ closed \/ (notes = <<>> /\ ~(Connected /\ sub))
    /\ Answer(p, Ended("io"))
    /\ sub' = (sub /\ closed)
    /\ UNCHANGED <<callVars, gate, pc, once, closed, closeCancel, peripheral, devVars, link, attempts, calls>>

-----------------------------------------------------------------------------
(* exchange, retryBusy and cancelAndDrain. *)

\* The select of exchange takes the result.
TakeAnswer(p) ==
    /\ pc[p] = "await"
    /\ answer[p] # None
    /\ CASE answer[p].end = "busy" -> Continue(p, "retry")
         [] answer[p].end = "io"   -> Continue(p, "close")
         [] OTHER                  -> Return(p, answer[p])
    /\ answer' = [answer EXCEPT ![p] = None]
    /\ UNCHANGED <<kind, ctxDone, sent, attempt, gate, reader, frame, closeVars, devVars, link, attempts, calls>>

\* Mutant: a canceled Ping is reported invalidated but nothing is closed.
AwaitCanceledUnclosed(p) ==
    /\ pc[p] = "await"
    /\ ctxDone[p]
    /\ IF kind[p] = "MSG" THEN Continue(p, "cgate") ELSE Return(p, Ended("invalidated"))
    /\ UNCHANGED <<kind, ctxDone, sent, attempt, gate, readVars, closeVars, devVars, link, attempts, calls>>

\* The select of exchange takes ctx.Done, even if the result is there: MSG is
\* canceled and drained, any other command gives up the connection.
AwaitCanceled(p) ==
    /\ pc[p] = "await"
    /\ ctxDone[p]
    /\ Goto(p, IF kind[p] = "MSG" THEN "cgate" ELSE "close")
    /\ UNCHANGED <<callVars, gate, readVars, closeVars, devVars, link, attempts, calls>>

\* retryBusy: the timer fires.
Retry(p) ==
    /\ pc[p] = "retry"
    /\ Goto(p, "gate")
    /\ UNCHANGED <<callVars, gate, readVars, closeVars, devVars, link, attempts, calls>>

\* retryBusy: the context is done.
RetryCanceled(p) ==
    /\ pc[p] = "retry"
    /\ ctxDone[p]
    /\ Return(p, Ended("ctx"))
    /\ UNCHANGED <<kind, ctxDone, sent, attempt, gate, readVars, closeVars, devVars, link, attempts, calls>>

\* cancelAndDrain takes the result: whatever the authenticator said, it is
\* drained; only a device I/O error gives up the connection.
Drained(p) ==
    /\ pc[p] = "drain"
    /\ answer[p] # None
    /\ IF answer[p].end = "io" THEN Continue(p, "close") ELSE Return(p, Ended("ctx"))
    /\ answer' = [answer EXCEPT ![p] = None]
    /\ UNCHANGED <<kind, ctxDone, sent, attempt, gate, reader, frame, closeVars, devVars, link, attempts, calls>>

\* Mutant: an expired drain returns the context error and keeps the connection.
DrainExpiresOpen(p) ==
    /\ pc[p] = "drain"
    /\ Return(p, Ended("ctx"))
    /\ UNCHANGED <<kind, ctxDone, sent, attempt, gate, readVars, closeVars, devVars, link, attempts, calls>>

\* Mutant: the drain has no timeout.
DrainNeverExpires(p) ==
    /\ pc[p] = "drain" /\ closed
    /\ Goto(p, "close")
    /\ UNCHANGED <<callVars, gate, readVars, closeVars, devVars, link, attempts, calls>>

\* cancelDrainTimeout passes.
DrainExpires(p) ==
    /\ pc[p] = "drain"
    /\ Goto(p, "close")
    /\ UNCHANGED <<callVars, gate, readVars, closeVars, devVars, link, attempts, calls>>

-----------------------------------------------------------------------------
(* Close, called by Closer and by the callers (pc "close"). *)

CallClose ==
    /\ pc[Closer] = "idle"
    /\ Goto(Closer, "close")
    /\ UNCHANGED <<callVars, gate, readVars, closeVars, devVars, link, attempts, calls>>

\* closeOnce.Do enters its function: activeMSG.Load.
BeginClose(p) ==
    /\ pc[p] = "close"
    /\ once = "new"
    /\ once' = "running"
    /\ Goto(p, IF activeMSG THEN "xgate" ELSE "shut")
    /\ UNCHANGED <<callVars, gate, readVars, closed, closeCancel, sub, peripheral>>
    /\ UNCHANGED <<devVars, link, attempts, calls>>

\* close(t.closed).
Shut(p) ==
    /\ pc[p] = "shut"
    /\ closed' = TRUE
    /\ Goto(p, "release")
    /\ UNCHANGED <<callVars, gate, readVars, once, closeCancel, sub, peripheral>>
    /\ UNCHANGED <<devVars, link, attempts, calls>>

\* The subscription and the peripheral are closed, the peripheral first if
\* the CANCEL failed; closeOnce.Do is done after the second.
ReleaseFirst(p) ==
    /\ pc[p] = "release" /\ sub /\ peripheral
    /\ IF closeCancel = "failed"
       THEN peripheral' = FALSE /\ UNCHANGED sub
       ELSE sub' = FALSE /\ UNCHANGED peripheral
    /\ UNCHANGED <<callVars, gate, pc, readVars, once, closed, closeCancel>>
    /\ UNCHANGED <<devVars, link, attempts, calls>>

ReleaseSecond(p) ==
    /\ pc[p] = "release" /\ ~(sub /\ peripheral)
    /\ sub' = FALSE /\ peripheral' = FALSE
    /\ once' = "done"
    /\ Goto(p, "close")
    /\ UNCHANGED <<callVars, gate, readVars, closed, closeCancel>>
    /\ UNCHANGED <<devVars, link, attempts, calls>>

\* Close returns, to every goroutine that called it.
CloseReturns(p) ==
    /\ pc[p] = "close"
    /\ once = "done"
    /\ IF p = Closer THEN Continue(p, "closed") ELSE Return(p, Ended("invalidated"))
    /\ UNCHANGED <<kind, ctxDone, sent, attempt, gate, readVars, closeVars, devVars, link, attempts, calls>>

-----------------------------------------------------------------------------
(* The authenticator and the BLE stack. *)

Idle == UNCHANGED <<callVars, gate, pc, readVars, closeVars, attempts, calls, half>>

\* A keepalive while the head request is processed; one at a time is enough.
KeepAlive ==
    /\ Connected /\ inbox # <<>> /\ sending = <<>> /\ notes = <<>>
    /\ notes' = <<Fragment(Head(inbox).n, "KEEPALIVE", 0, 1)>>
    /\ Idle /\ UNCHANGED <<inbox, sending, canceling, busy, link>>

\* The terminal answer to the head request is ready.
Respond(c, l) ==
    /\ Connected /\ inbox # <<>> /\ sending = <<>>
    /\ c = "BUSY" => busy < MaxBusy
    /\ sending' = Response(Head(inbox).n, c, l)
    /\ busy' = IF c = "BUSY" THEN busy + 1 ELSE busy
    /\ Idle /\ UNCHANGED <<inbox, canceling, notes, link>>

\* A notification is sent; with the last one the request is over.
Notify ==
    /\ Connected /\ sending # <<>>
    /\ sending' = Tail(sending)
    /\ notes' = Append(notes, Head(sending))
    /\ IF Len(sending) = 1
       THEN inbox' = Tail(inbox) /\ canceling' = FALSE
       ELSE UNCHANGED <<inbox, canceling>>
    /\ Idle /\ UNCHANGED <<busy, link>>

\* The peripheral goes out of range.
Disconnect ==
    /\ link
    /\ link' = FALSE
    /\ Idle /\ UNCHANGED <<inbox, sending, canceling, notes, busy>>

-----------------------------------------------------------------------------
CallerStep(p) ==
    \/ \E k \in Kinds : Call(p, k)
    \/ ContextDone(p)
    \/ Lock(p)
    \/ WriteFragment(p) \/ \E d \in BOOLEAN : WriteFails(p, d)
    \/ ReadFragment(p) \/ ReadFails(p)
    \/ TakeAnswer(p) \/ AwaitCanceled(p)
    \/ Retry(p) \/ RetryCanceled(p)
    \/ Drained(p) \/ DrainExpires(p)

CloseStep(p) ==
    \/ Acquire(p) \/ CancelWritten(p) \/ CancelFails(p)
    \/ BeginClose(p) \/ Shut(p) \/ ReleaseFirst(p) \/ ReleaseSecond(p) \/ CloseReturns(p)

Environment ==
    \/ KeepAlive \/ Notify \/ Disconnect
    \/ inbox # <<>> /\ \E l \in RespLens : Respond(Head(inbox).cmd, l)
    \/ \E c \in {"BUSY", "ERROR"} : Respond(c, 1)

Next ==
    \/ \E p \in Callers : CallerStep(p)
    \/ \E p \in Procs : CloseStep(p)
    \/ CallClose
    \/ Environment

Spec == Init /\ [][Next]_vars

\* Goroutines run, timers fire, a write ends when its context is done or its
\* connection gone, and a mutex is not withheld from a waiter for ever.  Neither
\* the authenticator nor a write over a live connection need ever make progress.
Fairness ==
    /\ \A p \in Callers :
        /\ WF_vars(Lock(p))
        /\ WF_vars((ctxDone[p] \/ ~Connected) /\ WriteFails(p, FALSE))
        /\ WF_vars(ReadFragment(p) \/ ReadFails(p))
        /\ WF_vars(TakeAnswer(p) \/ AwaitCanceled(p))
        /\ WF_vars(Retry(p) \/ RetryCanceled(p))
        /\ WF_vars(Drained(p) \/ DrainExpires(p))
    /\ \A p \in Procs :
        /\ WF_vars(Acquire(p))
        /\ WF_vars(CancelFails(p))
        /\ WF_vars(BeginClose(p)) /\ WF_vars(CloseReturns(p))
        /\ WF_vars(Shut(p) \/ ReleaseFirst(p) \/ ReleaseSecond(p))

FairSpec == Spec /\ Fairness

-----------------------------------------------------------------------------
(* Properties. *)

\* The variables keep their types (struct Transport, exchange, the assembler).
TypeOK ==
    /\ mu \in Callers \union {None} /\ gate \in Procs \union {None}
    /\ half \in Callers \union {None}
    /\ activeMSG \in BOOLEAN /\ closed \in BOOLEAN /\ sub \in BOOLEAN
    /\ peripheral \in BOOLEAN /\ link \in BOOLEAN /\ canceling \in BOOLEAN
    /\ pc \in [Procs -> {"idle", "lock", "gate", "write", "await", "retry", "cgate", "cwrite",
                         "drain", "close", "xgate", "xwrite", "shut", "release", "closed"}]
    /\ kind \in [Callers -> Kinds]
    /\ ctxDone \in [Callers -> BOOLEAN] /\ reader \in [Callers -> BOOLEAN]
    /\ sent \in [Callers -> 0..1]
    /\ attempt \in [Callers -> 0..attempts]
    /\ result \in [Callers -> Results]
    /\ answer \in [Callers -> Verdicts \union {None}]
    /\ frame \in [Callers -> Frames \union {None}]
    /\ once \in {"new", "running", "done"}
    /\ closeCancel \in {"none", "sent", "failed"}
    /\ inbox \in Seq(Requests)
    /\ sending \in Seq(Notifications) /\ notes \in Seq(Notifications)
    /\ attempts \in Nat /\ calls \in 0..MaxCalls /\ busy \in 0..MaxBusy

\* A frame being written is not cut by another one: between the fragments of a
\* request no CANCEL, of this call or of Close, reaches the authenticator
\* (fidoControlPointWriteGate in writeRequest).
FrameIntact == \A p \in Callers : (pc[p] = "write" /\ sent[p] > 0) => half = p

\* A command that succeeds returns the answer to the request it sent last, never
\* one to an earlier, canceled or retried request (commandMu, cancelAndDrain and
\* the per-exchange reader).
OwnResponse ==
    \A p \in Callers : result[p].end = "response" => result[p].n = attempt[p]

\* When no command runs on a connection that is still open, no reader is left
\* behind and nothing of an earlier command is queued, due or being canceled:
\* the next command starts on a clean connection.
CleanBetweenCalls ==
    (mu = None /\ once = "new" /\ link) =>
        /\ inbox = <<>> /\ sending = <<>> /\ notes = <<>> /\ ~canceling
        /\ \A p \in Callers : ~reader[p]

\* A caller told that the device is invalidated finds it completely closed,
\* even when another goroutine was the one to close it (DeviceInvalidatedError
\* and closeOnce).
InvalidatedIsClosed ==
    \A p \in Callers : result[p].end = "invalidated" =>
        once = "done" /\ closed /\ ~sub /\ ~peripheral

\* Close returns although a write may be stuck and the authenticator silent, and
\* it ends every exchange in progress and every reader ("Close must be safe to
\* call concurrently with CBOR and should unblock any in-flight exchange").
CloseUnblocks ==
    (pc[Closer] = "close") ~>
        (pc[Closer] = "closed" /\ \A p \in Callers : pc[p] = "idle" /\ ~reader[p])

\* A canceled command that has the connection returns although the
\* authenticator may never answer (cancelDrainTimeout, closeCancelTimeout).
CancelReturns ==
    \A p \in Callers : (mu = p /\ ctxDone[p]) ~> (pc[p] = "idle")
=============================================================================
