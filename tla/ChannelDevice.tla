---------------------------- MODULE ChannelDevice ----------------------------
(***************************************************************************)
(* transport/ctaphid/channel_device.go: the goroutine that drains a shared *)
(* HID endpoint, the queue it fills with the reports of one channel, the   *)
(* Read loop that sleeps on a one-slot wake channel, and the shutdown      *)
(* paths Close (the owner of the device) and stop (a failed Open).         *)
(*                                                                         *)
(* Critical sections of channelDevice.mu are one step each; every other    *)
(* interleaving of the reader goroutine, the caller of Read and the        *)
(* callers of Close is explored.                                           *)
(***************************************************************************)
EXTENDS Naturals, Sequences

CONSTANTS Channels,      \* channel identifiers on the shared endpoint
          BROADCAST_CID, \* the channel INIT is exchanged on
          Closers,       \* goroutines that call Close
          MaxReports,    \* bound: input reports the endpoint delivers
          None           \* nil

ASSUME ChannelsAssumption == BROADCAST_CID \in Channels
ASSUME ReportsAssumption  == MaxReports \in Nat

VARIABLES
    cid,      \* channelDevice.cid
    pending,  \* channelDevice.pending
    readErr,  \* channelDevice.readErr
    wake,     \* the slot of the wake channel is full
    cause,    \* context.Cause(channelDevice.ctx), None while it is active
    open,     \* the underlying HID device has not been closed
    reader,   \* control point of readReports
    report,   \* readReports: the report it holds
    failed,   \* readReports: the error its read ended with
    caller,   \* control point of the one caller of Read
    ctxDone,  \* the context of that Read is done
    owner,    \* progress of Open: "init", "open", "stopping", "failed"
    once,     \* closeOnce: "free", "running", "done"
    closer,   \* control point of each caller of Close
    sent,     \* reports the endpoint has delivered
    wire,     \* history: reports read from the endpoint since cid was set
    got       \* history: reports Read returned since cid was set

vars == <<cid, pending, readErr, wake, cause, open, reader, report, failed,
          caller, ctxDone, owner, once, closer, sent, wire, got>>

readerVars == <<reader, report, failed, sent, wire>>
callerVars == <<caller, ctxDone, got>>
ownerVars  == <<cid, owner>>
closerVars == <<open, once, closer>>

Reports == [cid : Channels, n : 1..MaxReports]

\* Terminal read errors.  "closed" is the IOError around io.ErrClosedPipe,
\* "io" any other IOError of the device, "canceled" a bare context.Canceled.
Errors == {"canceled", "closed", "io"}

ASSUME NoneAssumption == None \notin Errors /\ None \notin Reports

-----------------------------------------------------------------------------
\* newChannelDevice, from Open (broadcast channel) or NewTransport.
Init == /\ cid \in Channels
        /\ pending = <<>>
        /\ readErr = None
        /\ wake = FALSE
        /\ cause = None
        /\ open = TRUE
        /\ reader = "read" /\ report = None /\ failed = None
        /\ caller = "idle" /\ ctxDone = FALSE
        /\ owner = IF cid = BROADCAST_CID THEN "init" ELSE "open"
        /\ once = "free"
        /\ closer = [p \in Closers |-> "idle"]
        /\ sent = 0
        /\ wire = <<>>
        /\ got = <<>>

-----------------------------------------------------------------------------
(* The reader goroutine. *)

\* io.ReadFull returned one report.  The device may still hand one over after
\* the context was canceled; it cannot once it is closed.
ReadReport(c) ==
    /\ reader = "read"
    /\ open
    /\ sent < MaxReports
    /\ report' = [cid |-> c, n |-> sent + 1]
    /\ wire' = Append(wire, report')
    /\ sent' = sent + 1
    /\ reader' = "enqueue"
    /\ UNCHANGED <<failed, cid, pending, readErr, wake, cause, owner>>
    /\ UNCHANGED <<callerVars, closerVars>>

\* Mutant: the read reports the context's cause instead of its error.
ReadFailsWithCause(e) ==
    /\ reader = "read"
    /\ e = "canceled" => cause # None
    /\ failed' = IF e = "canceled" THEN cause ELSE e
    /\ reader' = "finish"
    /\ UNCHANGED <<report, sent, wire, pending, readErr, wake, cause>>
    /\ UNCHANGED <<callerVars, ownerVars, closerVars>>

\* io.ReadFull returned an error: the context's, or the device's own (which
\* a device may report at any time, for instance when it is unplugged).
ReadFails(e) ==
    /\ reader = "read"
    /\ e = "canceled" => cause # None
    /\ failed' = e
    /\ reader' = "finish"
    /\ UNCHANGED <<report, sent, wire, pending, readErr, wake, cause>>
    /\ UNCHANGED <<callerVars, ownerVars, closerVars>>

\* Mutant: the channel filter is dropped.
EnqueueAll ==
    /\ reader = "enqueue"
    /\ report' = None
    /\ pending' = Append(pending, report)
    /\ reader' = "notify"
    /\ UNCHANGED <<failed, sent, wire, readErr, wake, cause>>
    /\ UNCHANGED <<callerVars, ownerVars, closerVars>>

\* enqueue: only reports of the current channel are kept.
Enqueue ==
    /\ reader = "enqueue"
    /\ report' = None
    /\ IF report.cid = cid
       THEN pending' = Append(pending, report) /\ reader' = "notify"
       ELSE reader' = "read" /\ UNCHANGED pending
    /\ UNCHANGED <<failed, sent, wire, readErr, wake, cause>>
    /\ UNCHANGED <<callerVars, ownerVars, closerVars>>

\* Mutant: the wake channel has no slot, so a wake-up is lost on a caller that
\* has not reached its select yet.
NotifyUnbuffered ==
    /\ reader \in {"notify", "finishNotify"}
    /\ wake' \in {FALSE, caller = "wait"}
    /\ reader' = IF reader = "notify" THEN "read" ELSE "exit"
    /\ UNCHANGED <<report, failed, sent, wire, pending, readErr, cause>>
    /\ UNCHANGED <<callerVars, ownerVars, closerVars>>

\* Mutant: the loop goes on reading after an error.
NotifyAndReadOn ==
    /\ reader \in {"notify", "finishNotify"}
    /\ wake' = TRUE
    /\ reader' = "read"
    /\ UNCHANGED <<report, failed, sent, wire, pending, readErr, cause>>
    /\ UNCHANGED <<callerVars, ownerVars, closerVars>>

\* notify: fill the slot, or leave it full.
Notify ==
    /\ reader \in {"notify", "finishNotify"}
    /\ wake' = TRUE
    /\ reader' = IF reader = "notify" THEN "read" ELSE "exit"
    /\ UNCHANGED <<report, failed, sent, wire, pending, readErr, cause>>
    /\ UNCHANGED <<callerVars, ownerVars, closerVars>>

\* Mutant: finish does not wake the caller of Read.
FinishSilently ==
    /\ reader = "finish"
    /\ readErr' = IF failed = "canceled" /\ cause = "closed" THEN "closed" ELSE failed
    /\ reader' = "exit"
    /\ UNCHANGED <<report, failed, sent, wire, pending, wake, cause>>
    /\ UNCHANGED <<callerVars, ownerVars, closerVars>>

\* Mutant: finish keeps the context error of a read that Close canceled.
FinishCanceled ==
    /\ reader = "finish"
    /\ readErr' = failed
    /\ reader' = "finishNotify"
    /\ UNCHANGED <<report, failed, sent, wire, pending, wake, cause>>
    /\ UNCHANGED <<callerVars, ownerVars, closerVars>>

\* finish: an error caused by Close is restored to the closed-pipe error.
Finish ==
    /\ reader = "finish"
    /\ readErr' = IF failed = "canceled" /\ cause = "closed" THEN "closed" ELSE failed
    /\ reader' = "finishNotify"
    /\ UNCHANGED <<report, failed, sent, wire, pending, wake, cause>>
    /\ UNCHANGED <<callerVars, ownerVars, closerVars>>

\* The deferred close(stopped).
CloseStopped ==
    /\ reader = "exit"
    /\ reader' = "stopped"
    /\ UNCHANGED <<report, failed, sent, wire, pending, readErr, wake, cause>>
    /\ UNCHANGED <<callerVars, ownerVars, closerVars>>

-----------------------------------------------------------------------------
(* Read, called by one goroutine at a time (Transport.mu, or Open alone). *)

ReadCall ==
    /\ caller = "idle"
    /\ owner \in {"init", "open"}
    /\ caller' = "next"
    /\ ctxDone' = FALSE
    /\ UNCHANGED <<got, pending, readErr, wake, cause>>
    /\ UNCHANGED <<readerVars, ownerVars, closerVars>>

ContextDone ==
    /\ caller # "idle"
    /\ ~ctxDone
    /\ ctxDone' = TRUE
    /\ UNCHANGED <<caller, got, pending, readErr, wake, cause>>
    /\ UNCHANGED <<readerVars, ownerVars, closerVars>>

\* nextReport: the oldest report, then the terminal error, else sleep.
NextReport ==
    /\ caller = "next"
    /\ IF pending # <<>>
       THEN /\ got' = Append(got, Head(pending))
            /\ pending' = Tail(pending)
            /\ caller' = "idle"
       ELSE /\ caller' = IF readErr # None THEN "idle" ELSE "wait"
            /\ UNCHANGED <<got, pending>>
    /\ UNCHANGED <<ctxDone, readErr, wake, cause>>
    /\ UNCHANGED <<readerVars, ownerVars, closerVars>>

\* select: case <-d.wake.
Woken ==
    /\ caller = "wait"
    /\ wake
    /\ wake' = FALSE
    /\ caller' = "next"
    /\ UNCHANGED <<ctxDone, got, pending, readErr, cause>>
    /\ UNCHANGED <<readerVars, ownerVars, closerVars>>

\* select: case <-ctx.Done().
ReadCanceled ==
    /\ caller = "wait"
    /\ ctxDone
    /\ caller' = "idle"
    /\ UNCHANGED <<ctxDone, got, pending, readErr, wake, cause>>
    /\ UNCHANGED <<readerVars, ownerVars, closerVars>>

-----------------------------------------------------------------------------
(* Open hands the channel over (setCID) or gives it up (stop). *)

\* Mutant: the reports of the broadcast channel stay queued.
SetCIDKeepingPending(c) ==
    /\ owner = "init" /\ caller = "idle"
    /\ c # BROADCAST_CID
    /\ cid' = c
    /\ owner' = "open"
    /\ wire' = IF report = None THEN <<>> ELSE <<report>>
    /\ got' = <<>>
    /\ UNCHANGED <<reader, report, failed, sent, caller, ctxDone, pending, readErr, wake, cause>>
    /\ UNCHANGED closerVars

SetCID(c) ==
    /\ owner = "init" /\ caller = "idle"
    /\ c # BROADCAST_CID
    /\ cid' = c
    /\ pending' = <<>>
    /\ owner' = "open"
    /\ wire' = IF report = None THEN <<>> ELSE <<report>>
    /\ got' = <<>>
    /\ UNCHANGED <<reader, report, failed, sent, caller, ctxDone, readErr, wake, cause>>
    /\ UNCHANGED closerVars

\* stop cancels the reader and leaves the device, which Open does not own, open.
Stop ==
    /\ owner = "init" /\ caller = "idle"
    /\ cause' = "canceled"
    /\ owner' = "stopping"
    /\ UNCHANGED <<cid, pending, readErr, wake>>
    /\ UNCHANGED <<readerVars, callerVars, closerVars>>

StopReturns ==
    /\ owner = "stopping"
    /\ reader = "stopped"
    /\ owner' = "failed"
    /\ UNCHANGED <<cid, pending, readErr, wake, cause>>
    /\ UNCHANGED <<readerVars, callerVars, closerVars>>

-----------------------------------------------------------------------------
(* Close, by any number of goroutines once the transport exists. *)

\* Mutant: Close relies on closing the device to interrupt the read.
CloseCallWithoutCancel(p) ==
    /\ owner = "open"
    /\ closer[p] = "idle"
    /\ once' = IF once = "free" THEN "running" ELSE once
    /\ closer' = [closer EXCEPT ![p] = IF once = "free" THEN "close" ELSE "waitOnce"]
    /\ UNCHANGED <<cause, open, pending, readErr, wake>>
    /\ UNCHANGED <<readerVars, callerVars, ownerVars>>

\* closeOnce.Do: the first caller cancels the reader, the others wait for it.
CloseCall(p) ==
    /\ owner = "open"
    /\ closer[p] = "idle"
    /\ IF once = "free"
       THEN /\ once' = "running"
            /\ cause' = "closed"
            /\ closer' = [closer EXCEPT ![p] = "close"]
       ELSE /\ closer' = [closer EXCEPT ![p] = "waitOnce"]
            /\ UNCHANGED <<once, cause>>
    /\ UNCHANGED <<open, pending, readErr, wake>>
    /\ UNCHANGED <<readerVars, callerVars, ownerVars>>

CloseDevice(p) ==
    /\ closer[p] = "close"
    /\ open' = FALSE
    /\ closer' = [closer EXCEPT ![p] = "waitStopped"]
    /\ UNCHANGED <<once, pending, readErr, wake, cause>>
    /\ UNCHANGED <<readerVars, callerVars, ownerVars>>

\* Mutant: Close does not wait for the reader goroutine.
CloseReturnsAtOnce(p) ==
    /\ closer[p] = "waitStopped" \/ (closer[p] = "waitOnce" /\ once = "done")
    /\ once' = "done"
    /\ closer' = [closer EXCEPT ![p] = "done"]
    /\ UNCHANGED <<open, pending, readErr, wake, cause>>
    /\ UNCHANGED <<readerVars, callerVars, ownerVars>>

CloseReturns(p) ==
    /\ \/ closer[p] = "waitStopped" /\ reader = "stopped"
       \/ closer[p] = "waitOnce" /\ once = "done"
    /\ once' = "done"
    /\ closer' = [closer EXCEPT ![p] = "done"]
    /\ UNCHANGED <<open, pending, readErr, wake, cause>>
    /\ UNCHANGED <<readerVars, callerVars, ownerVars>>

-----------------------------------------------------------------------------
ReaderStep == Enqueue \/ Notify \/ Finish \/ CloseStopped
CallerStep == NextReport \/ Woken \/ ReadCanceled
CloserStep(p) == CloseDevice(p) \/ CloseReturns(p)

Next == \/ \E c \in Channels : ReadReport(c) \/ SetCID(c)
        \/ \E e \in {"canceled", "io"} : ReadFails(e)
        \/ ReaderStep
        \/ ReadCall \/ ContextDone \/ CallerStep
        \/ Stop \/ StopReturns
        \/ \E p \in Closers : CloseCall(p) \/ CloserStep(p)

Spec == Init /\ [][Next]_vars

\* Goroutines that can run do run.  A device read whose context is canceled
\* returns; nothing else is assumed of the device, nor of the callers.
Fairness == /\ WF_vars(ReaderStep)
            /\ WF_vars(ReadFails("canceled"))
            /\ WF_vars(CallerStep)
            /\ WF_vars(StopReturns)
            /\ \A p \in Closers : WF_vars(CloserStep(p))

FairSpec == Spec /\ Fairness

-----------------------------------------------------------------------------
TypeOK ==
    /\ cid \in Channels
    /\ pending \in Seq(Reports)
    /\ readErr \in Errors \union {None}
    /\ wake \in BOOLEAN
    /\ cause \in {None, "closed", "canceled"}
    /\ open \in BOOLEAN
    /\ reader \in {"read", "enqueue", "notify", "finish", "finishNotify", "exit", "stopped"}
    /\ report \in Reports \union {None}
    /\ failed \in {None, "canceled", "io"}
    /\ caller \in {"idle", "next", "wait"}
    /\ ctxDone \in BOOLEAN
    /\ owner \in {"init", "open", "stopping", "failed"}
    /\ once \in {"free", "running", "done"}
    /\ closer \in [Closers -> {"idle", "close", "waitStopped", "waitOnce", "done"}]
    /\ sent \in 0..MaxReports
    /\ wire \in Seq(Reports)
    /\ got \in Seq(Reports)

\* A caller of Read never sleeps through news: while it waits in select with a
\* report queued or the terminal error set, its wake-up is in the slot or the
\* reader is about to put it there.  The one-slot channel drops wake-ups, so
\* this is what keeps Read from hanging.
NoLostWakeup ==
    caller = "wait" /\ (pending # <<>> \/ readErr # None)
        => wake \/ reader \in {"notify", "finishNotify"}

\* The queue q with the report r after it, if r is one of channel c.
Admit(q, r, c) == IF r.cid = c THEN Append(q, r) ELSE q

\* The reports of channel c in the sequence s.
Selected(s, c) ==
    LET F[n \in 0..Len(s)] == IF n = 0 THEN <<>> ELSE Admit(F[n - 1], s[n], c)
    IN  F[Len(s)]

\* Read hands out exactly the reports of its channel that the endpoint
\* delivered since the channel was bound, each once and in order: what was
\* returned, what is queued and what the reader still holds make up the wire.
InOrderOnce ==
    Selected(wire, cid) =
        got \o pending \o (IF report # None /\ report.cid = cid THEN <<report>> ELSE <<>>)

\* A failed Open leaves the device to its caller, and Close returns only after
\* the reader goroutine is gone from the device.
Ownership ==
    /\ owner # "open" => open
    /\ (\E p \in Closers : closer[p] = "done") => ~open /\ reader = "stopped"

\* A read that Close ended reports the closed pipe as an I/O error, never the
\* bare context error that a caller would take for its own cancellation.
CloseIsNotCancellation == owner = "open" => readErr # "canceled"

\* After the terminal error nothing is queued and the error stays.
TerminalErrorIsFinal ==
    [][readErr # None => readErr' = readErr /\ Len(pending') <= Len(pending)]_vars

\* A caller that waits in Read returns if something is there for it, and when
\* its context ends even if nothing ever arrives.
ReadReturns ==
    (caller # "idle" /\ (pending # <<>> \/ readErr # None \/ ctxDone)) ~> caller = "idle"

\* Close returns for every caller and interrupts a Read in flight; stop, on the
\* failure path of Open, returns.
ShutdownCompletes ==
    /\ \A p \in Closers : closer[p] # "idle" ~> closer[p] = "done"
    /\ once # "free" /\ caller # "idle" ~> caller = "idle"
    /\ owner = "stopping" ~> owner = "failed"

\* The abstract channel this one implements.
Abstract == INSTANCE ReportChannel WITH
                channel <- cid, queue <- pending, failure <- readErr,
                reading <- caller # "idle"

\* The queue, the goroutine and the wake channel behave as the abstract FIFO
\* channel, liveness included.
ImplementsChannel == Abstract!FairSpec
=============================================================================
