------------------------------- MODULE Iso7816 -------------------------------
(***************************************************************************)
(* transport/iso7816/iso7816.go: goroutines that share one smart card,     *)
(* command chaining, the polling of NFCCTAP_GETRESPONSE and its            *)
(* cancellation, the closing on I/O errors, and Close with TryLock.  The   *)
(* card and its reader are the environment: a transmission that reports an *)
(* error may have reached the card or not.                                 *)
(*                                                                         *)
(* An APDU is the call it belongs to; what the card executes is the set of *)
(* calls whose APDUs it put together.                                      *)
(***************************************************************************)
EXTENDS Naturals, Sequences, FiniteSets

CONSTANTS Callers,    \* goroutines that issue CBOR commands
          Closer,     \* the goroutine that calls Close
          Lengths,    \* APDUs a command is chained into
          Malformed,  \* whether the card may send malformed answers
          MaxCalls,   \* bound: calls made
          None

ASSUME IsoAssumption ==
    /\ Closer \notin Callers
    /\ Lengths \subseteq (Nat \ {0})
    /\ Malformed \in BOOLEAN
    /\ MaxCalls \in Nat
    /\ None \notin Callers /\ None # Closer

Procs == Callers \union {Closer}

VARIABLES
    mu,        \* Transport.mu: its holder or None
    pc,        \* control point of each goroutine
    ctxDone,   \* the context of each caller's call is done
    call,      \* the call each caller makes, a number, or 0
    left,      \* APDUs of its command each caller has not transmitted
    result,    \* how each caller's last call ended
    once,      \* closeOnce: "new", "running" or "done"
    card,      \* the connection to the card is open
    present,   \* the card is in the field
    chain,     \* card: calls whose APDUs the open command chain holds
    working,   \* card: the command being processed, or None
    session,   \* card: the FIDO applet is enabled
    calls,     \* calls made so far
    abandoned  \* history: CBOR gave up a command the card holds, without canceling it

cardVars == <<chain, working, session>>
vars == <<mu, pc, ctxDone, call, left, result, once, card, present, cardVars, calls, abandoned>>

\* How a call ended; of is what the card executed.
Ended(e) == [end |-> e, of |-> {}]
Goto(p, l) == pc' = [pc EXCEPT ![p] = l]
Reachable == card /\ present

\* New returned: the applet is selected.
Init == /\ mu = None
        /\ pc = [p \in Procs |-> "idle"]
        /\ ctxDone = [p \in Callers |-> FALSE]
        /\ call = [p \in Callers |-> 0]
        /\ left = [p \in Callers |-> 0]
        /\ result = [p \in Callers |-> Ended("none")]
        /\ once = "new" /\ card = TRUE /\ present = TRUE
        /\ chain = {} /\ working = None /\ session = TRUE
        /\ calls = 0 /\ abandoned = FALSE

-----------------------------------------------------------------------------
(* CBOR *)

Call(p, l) ==
    /\ pc[p] = "idle"
    /\ calls < MaxCalls
    /\ calls' = calls + 1
    /\ call' = [call EXCEPT ![p] = calls']
    /\ left' = [left EXCEPT ![p] = l]
    /\ ctxDone' = [ctxDone EXCEPT ![p] = FALSE]
    /\ result' = [result EXCEPT ![p] = Ended("none")]
    /\ Goto(p, "lock")
    /\ UNCHANGED <<mu, once, card, present, cardVars, abandoned>>

\* The context of a call is canceled, or its deadline passes.
ContextDone(p) ==
    /\ pc[p] # "idle"
    /\ ~ctxDone[p]
    /\ ctxDone' = [ctxDone EXCEPT ![p] = TRUE]
    /\ UNCHANGED <<mu, pc, call, left, result, once, card, present, cardVars, calls, abandoned>>

Return(p, r) ==
    /\ Goto(p, "idle")
    /\ mu' = None
    /\ result' = [result EXCEPT ![p] = r]

\* Mutant: commands are not serialised.
LockShared(p) ==
    /\ pc[p] = "lock"
    /\ IF ctxDone[p]
       THEN Return(p, Ended("ctx"))
       ELSE mu' = p /\ Goto(p, "send") /\ UNCHANGED result
    /\ UNCHANGED <<ctxDone, call, left, once, card, present, cardVars, calls, abandoned>>

\* mu.Lock, then ctx.Err.
Lock(p) ==
    /\ pc[p] = "lock"
    /\ mu = None
    /\ IF ctxDone[p]
       THEN Return(p, Ended("ctx"))
       ELSE mu' = p /\ Goto(p, "send") /\ UNCHANGED result
    /\ UNCHANGED <<ctxDone, call, left, once, card, present, cardVars, calls, abandoned>>

\* The card takes a command APDU: a chained one is kept, the last one makes the
\* command, which replaces whatever the card was still working on.
TakeAPDU(p) ==
    IF left[p] > 1
    THEN chain' = chain \union {call[p]} /\ UNCHANGED <<working, session>>
    ELSE /\ working' = chain \union {call[p]}
         /\ chain' = {}
         /\ UNCHANGED session

\* The card rejects an APDU and drops the chain.
Reject == chain' = {} /\ working' = None /\ UNCHANGED session

\* A chained APDU is acknowledged; the last one is answered by a status (0x9100)
\* or by the response.
Transmit(p) ==
    /\ pc[p] = "send"
    /\ Reachable
    /\ TakeAPDU(p)
    /\ left' = [left EXCEPT ![p] = @ - 1]
    /\ Goto(p, IF left[p] > 1 THEN "send" ELSE "status")
    /\ UNCHANGED <<mu, ctxDone, call, result, once, card, present, calls, abandoned>>

\* The status word of an APDU is an error, which CBOR returns.
TransmitRejected(p) ==
    /\ pc[p] \in {"send", "status", "poll"}
    /\ Reachable
    /\ Reject
    /\ Return(p, Ended("error"))
    /\ UNCHANGED <<ctxDone, call, left, once, card, present, calls, abandoned>>

\* The card acknowledges a chained APDU with data, or sends a status that is not
\* one byte: ErrInvalidResponse.
InvalidResponse(p) ==
    /\ Malformed
    /\ pc[p] \in {"status", "poll"} \/ (pc[p] = "send" /\ left[p] > 1)
    /\ Reachable
    /\ IF pc[p] = "send" THEN TakeAPDU(p) ELSE UNCHANGED cardVars
    /\ Return(p, Ended("error"))
    /\ abandoned' = TRUE
    /\ UNCHANGED <<ctxDone, call, left, once, card, present, calls>>

\* The card has the response: the loop ends and CBOR returns it.
Respond(p) ==
    /\ pc[p] \in {"status", "poll"}
    /\ Reachable
    /\ working # None
    /\ working' = None
    /\ Return(p, [end |-> "response", of |-> working])
    /\ UNCHANGED <<ctxDone, call, left, once, card, present, chain, session, calls, abandoned>>

\* Status 0x9100: poll again, or cancel if the context is done.
Status(p) ==
    /\ pc[p] \in {"status", "poll"}
    /\ Reachable
    /\ Goto(p, IF ctxDone[p] THEN "cancel" ELSE "poll")
    /\ UNCHANGED <<mu, ctxDone, call, left, result, once, card, present, cardVars, calls, abandoned>>

\* Transmit reports an error.  If it is the context's, polling goes on to
\* cancelPolling and a command that is still being sent, or whose first answer
\* is awaited, returns: closeOnIOError closes nothing.  Any other error closes
\* the card.  That the card got the APDU all the same is Transmit before this.
TransmitFails(p, cause) ==
    /\ pc[p] \in {"send", "status", "poll"}
    /\ cause = "ctx" => ctxDone[p]
    /\ IF cause = "ctx" /\ pc[p] # "poll"
       THEN Return(p, Ended("ctx")) /\ abandoned' = TRUE
       ELSE /\ Goto(p, IF cause = "ctx" THEN "cancel" ELSE "close")
            /\ UNCHANGED <<mu, result, abandoned>>
    /\ UNCHANGED <<ctxDone, call, left, once, card, present, cardVars, calls>>

-----------------------------------------------------------------------------
(* cancelPolling; its transmission ignores the context of the call. *)

\* The card confirms with CTAP2_ERR_KEEPALIVE_CANCEL.
CancelConfirmed(p) ==
    /\ pc[p] = "cancel"
    /\ Reachable
    /\ working' = None
    /\ Return(p, Ended("ctx"))
    /\ UNCHANGED <<ctxDone, call, left, once, card, present, chain, session, calls, abandoned>>

\* Mutant: an unconfirmed cancellation keeps the transport.
CancelUnconfirmedOpen(p) ==
    /\ pc[p] = "cancel"
    /\ Return(p, Ended("ctx"))
    /\ UNCHANGED <<ctxDone, call, left, once, card, present, cardVars, calls, abandoned>>

\* The card rejects the cancellation, has the response instead, or the
\* transmission fails: Close.
CancelUnconfirmed(p) ==
    /\ pc[p] = "cancel"
    /\ Goto(p, "close")
    /\ UNCHANGED <<mu, ctxDone, call, left, result, once, card, present, cardVars, calls, abandoned>>

-----------------------------------------------------------------------------
(* Close, called by Closer and by callers that hold mu (pc "close"). *)

CallClose ==
    /\ pc[Closer] = "idle"
    /\ Goto(Closer, "close")
    /\ UNCHANGED <<mu, ctxDone, call, left, result, once, card, present, cardVars, calls, abandoned>>

\* Mutant: Close takes the lock instead of trying to.
BeginCloseLocking(p) ==
    /\ pc[p] = "close"
    /\ once = "new"
    /\ mu = None
    /\ mu' = p /\ Goto(p, "end") /\ once' = "running"
    /\ UNCHANGED <<card, ctxDone, call, left, result, present, cardVars, calls, abandoned>>

\* Mutant: Close ends the session whether it has the lock or not.
BeginCloseUnlocked(p) ==
    /\ pc[p] = "close"
    /\ once = "new"
    /\ once' = "running"
    /\ mu' = IF mu = None THEN p ELSE mu
    /\ Goto(p, "end")
    /\ UNCHANGED <<card, ctxDone, call, left, result, present, cardVars, calls, abandoned>>

\* closeOnce.Do: TryLock fails and the card is closed at once, or it succeeds.
BeginClose(p) ==
    /\ pc[p] = "close"
    /\ once = "new"
    /\ IF mu # None
       THEN card' = FALSE /\ once' = "done" /\ UNCHANGED <<mu, pc>>
       ELSE mu' = p /\ Goto(p, "end") /\ once' = "running" /\ UNCHANGED card
    /\ UNCHANGED <<ctxDone, call, left, result, present, cardVars, calls, abandoned>>

\* The control APDU is executed, or it is rejected or fails within closeTimeout.
EndSession(p, executed) ==
    /\ pc[p] = "end"
    /\ executed => Reachable
    /\ session' = (session /\ ~executed)
    /\ Goto(p, "shut")
    /\ UNCHANGED <<mu, ctxDone, call, left, result, once, card, present, chain, working, calls, abandoned>>

\* card.Close, then the deferred mu.Unlock.
CloseCard(p) ==
    /\ pc[p] = "shut"
    /\ card' = FALSE
    /\ once' = "done"
    /\ mu' = IF mu = p THEN None ELSE mu
    /\ Goto(p, "close")
    /\ UNCHANGED <<ctxDone, call, left, result, present, cardVars, calls, abandoned>>

\* Close returns, to every goroutine that called it.
CloseReturns(p) ==
    /\ pc[p] = "close"
    /\ once = "done"
    /\ IF p = Closer THEN Goto(p, "closed") /\ UNCHANGED <<mu, result>>
                     ELSE Return(p, Ended("invalidated"))
    /\ UNCHANGED <<ctxDone, call, left, once, card, present, cardVars, calls, abandoned>>

\* The card leaves the field.
Remove ==
    /\ present
    /\ present' = FALSE
    /\ UNCHANGED <<mu, pc, ctxDone, call, left, result, once, card, cardVars, calls, abandoned>>

-----------------------------------------------------------------------------
CallerStep(p) ==
    \/ \E l \in Lengths : Call(p, l)
    \/ ContextDone(p) \/ Lock(p)
    \/ Transmit(p) \/ TransmitRejected(p) \/ InvalidResponse(p)
    \/ \E c \in {"ctx", "io"} : TransmitFails(p, c)
    \/ Respond(p) \/ Status(p)
    \/ CancelConfirmed(p) \/ CancelUnconfirmed(p)

CloseStep(p) ==
    BeginClose(p) \/ (\E e \in BOOLEAN : EndSession(p, e)) \/ CloseCard(p) \/ CloseReturns(p)

Next ==
    \/ \E p \in Callers : CallerStep(p)
    \/ \E p \in Procs : CloseStep(p)
    \/ CallClose
    \/ Remove

Spec == Init /\ [][Next]_vars

\* Goroutines run and a transmission over a connection that is closed or gone,
\* or whose context is done, ends; one over a live connection need not.
Fairness ==
    /\ \A p \in Callers :
        /\ WF_vars(Lock(p))
        /\ WF_vars(TransmitFails(p, "ctx"))
        /\ WF_vars(~Reachable /\ TransmitFails(p, "io"))
        /\ WF_vars(~Reachable /\ CancelUnconfirmed(p))
    /\ \A p \in Procs :
        /\ WF_vars(BeginClose(p)) /\ WF_vars(CloseReturns(p))
        /\ WF_vars(EndSession(p, FALSE)) /\ WF_vars(CloseCard(p))

FairSpec == Spec /\ Fairness

-----------------------------------------------------------------------------
(* Properties. *)

\* The variables keep their types (struct Transport).
TypeOK ==
    /\ mu \in Procs \union {None}
    /\ pc \in [Procs -> {"idle", "lock", "send", "status", "poll", "cancel", "close", "end",
                         "shut", "closed"}]
    /\ ctxDone \in [Callers -> BOOLEAN]
    /\ call \in [Callers -> 0..calls] /\ left \in [Callers -> Nat]
    /\ result \in [Callers -> [end : {"none", "response", "error", "ctx", "invalidated"},
                               of : SUBSET Nat]]
    /\ once \in {"new", "running", "done"}
    /\ card \in BOOLEAN /\ present \in BOOLEAN /\ session \in BOOLEAN /\ abandoned \in BOOLEAN
    /\ chain \subseteq 1..calls
    /\ working = None \/ working \subseteq 1..calls
    /\ calls \in 0..MaxCalls

\* A response is the one to the caller's own command, all of it and nothing
\* else, as long as no command was given up on its way to the card
\* (mu, exchangeCTAP, cancelPolling).
OwnResponse ==
    abandoned \/ \A p \in Callers : result[p].end = "response" => result[p].of = {call[p]}

\* When the lock is free and the card usable, the card is idle: no command is
\* pending that a later poll could be answered for ("Do not allow another APDU
\* to be mistaken for the continuation of that command").
IdleBetweenCalls ==
    (mu = None /\ Reachable /\ once = "new" /\ ~abandoned) => working = None /\ chain = {}

\* While the connection lasts, the applet is disabled only with the lock held by
\* Close: no command is in flight and none starts on the disabled applet.
SessionEndsIdle == (~session /\ card) => mu \notin Callers

\* Close returns while a transmission is blocked, and it interrupts every
\* command, its own callers included: TryLock never waits for the lock that the
\* goroutine itself holds.
CloseUnblocks ==
    (\E p \in Procs : pc[p] = "close") ~>
        (pc[Closer] \in {"idle", "closed"} /\ \A p \in Callers : pc[p] = "idle")

\* What the card executes comes from one call: "Do not allow another APDU to be
\* mistaken for the continuation of that command" (cancelPolling).
NoMixedCommand == working # None => Cardinality(working) = 1
=============================================================================
