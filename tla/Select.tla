------------------------------- MODULE Select -------------------------------
(***************************************************************************)
(* authenticator/select.go: Select takes over the transports an enumerator *)
(* yields, asks all authenticators for user presence at the same time when *)
(* there are several, and hands the one that was touched to its caller.    *)
(* One goroutine per authenticator runs Device.Selection and puts its      *)
(* result into a channel that has room for all of them.                    *)
(***************************************************************************)
EXTENDS Naturals, Sequences, FiniteSets

CONSTANTS Candidates, \* authenticators the enumerator may yield
          None

ASSUME SelectAssumption ==
    /\ IsFiniteSet(Candidates)
    /\ None \notin Candidates /\ "error" \notin Candidates

VARIABLES
    phase,    \* control point of Select
    todo,     \* candidates the enumerator has not come to
    devices,  \* devices
    transport,\* of each candidate: "none", "open", "closed"
    sel,      \* of each candidate, its goroutine: "none", "running", "send", "done"
    outcome,  \* of each candidate: what Device.Selection returned
    results,  \* the results channel
    received, \* results the loop has taken
    winner,   \* the device closeDevices spares, or None
    toClose,  \* devices closeDevices still has to close
    closeErr, \* closeDevices has met an error
    ctxDone,  \* the caller's context is done
    canceled, \* cancel was called
    ret,      \* what Select returned: a device or "error"
    touched   \* history: authenticators whose user confirmed

vars == <<phase, todo, devices, transport, sel, outcome, results, received, winner,
          toClose, closeErr, ctxDone, canceled, ret, touched>>

enumVars  == <<todo, devices>>
selVars   == <<sel, outcome, touched>>
closeVars == <<winner, toClose, closeErr>>

Init == /\ phase = "enumerate"
        /\ todo = Candidates /\ devices = {}
        /\ transport = [d \in Candidates |-> "none"]
        /\ sel = [d \in Candidates |-> "none"]
        /\ outcome = [d \in Candidates |-> None]
        /\ results = <<>> /\ received = 0
        /\ winner = None /\ toClose = {} /\ closeErr = FALSE
        /\ ctxDone = FALSE /\ canceled = FALSE
        /\ ret = None /\ touched = {}

-----------------------------------------------------------------------------
\* The enumerator yields an error for d, or its transport, which New turns
\* into a Device or rejects; a rejected transport is closed.
Enumerate(d) ==
    /\ phase = "enumerate"
    /\ d \in todo
    /\ todo' = todo \ {d}
    /\ \/ UNCHANGED <<devices, transport>>
       \/ transport' = [transport EXCEPT ![d] = "closed"] /\ UNCHANGED devices
       \/ transport' = [transport EXCEPT ![d] = "open"] /\ devices' = devices \union {d}
    /\ UNCHANGED <<phase, selVars, results, received, closeVars, ctxDone, canceled, ret>>

\* switch len(devices): none is an error, the only one is returned, several
\* are asked at the same time.
StartSelection ==
    /\ phase = "enumerate"
    /\ todo = {}
    /\ IF Cardinality(devices) > 1
       THEN /\ phase' = "select"
            /\ sel' = [d \in Candidates |-> IF d \in devices THEN "running" ELSE "none"]
            /\ UNCHANGED ret
       ELSE /\ phase' = "returned"
            /\ ret' = IF devices = {} THEN "error" ELSE CHOOSE d \in devices : TRUE
            /\ UNCHANGED sel
    /\ UNCHANGED <<enumVars, transport, outcome, touched, results, received, closeVars, ctxDone, canceled>>

ContextDone ==
    /\ phase # "returned"
    /\ ~ctxDone
    /\ ctxDone' = TRUE
    /\ UNCHANGED <<phase, enumVars, transport, selVars, results, received, closeVars, canceled, ret>>

-----------------------------------------------------------------------------
(* The goroutines. *)

\* How an exchange of authenticatorSelection ends: the user confirmed, the
\* authenticator answered CTAP2_ERR_KEEPALIVE_CANCEL, or there was another
\* error, the context's included.
Answers == {"touch", "keepaliveCancel", "failure"}

\* A KEEPALIVE_CANCEL is taken for success.
normalizeSelectionError(a) == IF a = "failure" THEN "err" ELSE "nil"

\* Device.Selection returns.  An authenticator answers KEEPALIVE_CANCEL to a
\* CANCEL only.  The one a canceled context sends is answered during the
\* drain, and the context's error is returned; the one Close sends is what
\* may surface here.
SelectionReturns(d, a) ==
    /\ sel[d] = "running"
    /\ a = "keepaliveCancel" => transport[d] = "closed"
    /\ sel' = [sel EXCEPT ![d] = "send"]
    /\ outcome' = [outcome EXCEPT ![d] = normalizeSelectionError(a)]
    /\ touched' = IF a = "touch" THEN touched \union {d} ELSE touched
    /\ UNCHANGED <<phase, enumVars, transport, results, received, closeVars, ctxDone, canceled, ret>>

\* Mutant: the results channel has no room.
SendUnbuffered(d) ==
    /\ sel[d] = "send"
    /\ phase = "select" /\ results = <<>>
    /\ sel' = [sel EXCEPT ![d] = "done"]
    /\ results' = Append(results, d)
    /\ UNCHANGED <<phase, enumVars, transport, outcome, touched, received, closeVars, ctxDone, canceled, ret>>

\* The result goes into the channel, which has room for every device.
Send(d) ==
    /\ sel[d] = "send"
    /\ Len(results) < Cardinality(devices)
    /\ sel' = [sel EXCEPT ![d] = "done"]
    /\ results' = Append(results, d)
    /\ UNCHANGED <<phase, enumVars, transport, outcome, touched, received, closeVars, ctxDone, canceled, ret>>

-----------------------------------------------------------------------------
(* The loop over the results. *)

\* closeDevices(devices, w) begins.
BeginClose(w) ==
    /\ phase' = "close"
    /\ winner' = w
    /\ toClose' = devices \ {w}

\* Mutant: the result's error is not looked at.
ReceiveAny ==
    /\ phase = "select"
    /\ results # <<>>
    /\ results' = Tail(results)
    /\ received' = received + 1
    /\ canceled' = TRUE /\ BeginClose(Head(results))
    /\ UNCHANGED <<enumVars, transport, selVars, closeErr, ctxDone, ret>>

\* Mutant: all results are awaited before the first success is taken.
ReceiveAll ==
    /\ phase = "select"
    /\ Len(results) = Cardinality(devices)
    /\ \/ \E i \in 1..Len(results) :
             outcome[results[i]] = "nil" /\ canceled' = TRUE /\ BeginClose(results[i])
       \/ /\ \A i \in 1..Len(results) : outcome[results[i]] = "err"
          /\ BeginClose(None) /\ UNCHANGED canceled
    /\ UNCHANGED <<enumVars, transport, selVars, results, received, closeErr, ctxDone, ret>>

\* case result := <-results.  The first success cancels the others; an error
\* is noted, and after the last one nothing is selected.
Receive ==
    /\ phase = "select"
    /\ results # <<>>
    /\ results' = Tail(results)
    /\ received' = received + 1
    /\ \/ /\ outcome[Head(results)] = "nil"
          /\ canceled' = TRUE /\ BeginClose(Head(results))
       \/ /\ outcome[Head(results)] = "err"
          /\ received' = Cardinality(devices)
          /\ BeginClose(None) /\ UNCHANGED canceled
       \/ /\ outcome[Head(results)] = "err"
          /\ received' < Cardinality(devices)
          /\ UNCHANGED <<phase, winner, toClose, canceled>>
    /\ UNCHANGED <<enumVars, transport, selVars, closeErr, ctxDone, ret>>

\* Mutant: the loop does not watch the context.
ContextIgnored == FALSE /\ UNCHANGED vars

\* case <-ctx.Done().
ContextSeen ==
    /\ phase = "select"
    /\ ctxDone
    /\ canceled' = TRUE
    /\ BeginClose(None)
    /\ UNCHANGED <<enumVars, transport, selVars, results, received, closeErr, ctxDone, ret>>

\* closeDevices closes the devices one after the other and collects errors.
CloseOne(d, failed) ==
    /\ phase = "close"
    /\ d \in toClose
    /\ toClose' = toClose \ {d}
    /\ transport' = [transport EXCEPT ![d] = "closed"]
    /\ closeErr' = (closeErr \/ failed)
    /\ UNCHANGED <<phase, enumVars, selVars, results, received, winner, ctxDone, canceled, ret>>

\* Mutant: the winner stays open when another device could not be closed.
ReturnLeakingWinner ==
    /\ phase = "close" /\ toClose = {}
    /\ phase' = "returned" /\ canceled' = TRUE
    /\ ret' = IF winner # None /\ ~closeErr THEN winner ELSE "error"
    /\ UNCHANGED <<enumVars, transport, selVars, results, received, closeVars, ctxDone>>

\* closeDevices returned: if it failed, the winner is closed too.  The
\* deferred cancel runs.
Return ==
    /\ phase = "close" /\ toClose = {}
    /\ phase' = "returned" /\ canceled' = TRUE
    /\ IF winner # None /\ ~closeErr
       THEN ret' = winner /\ UNCHANGED transport
       ELSE /\ ret' = "error"
            /\ transport' = [d \in Candidates |-> IF d = winner THEN "closed" ELSE transport[d]]
    /\ UNCHANGED <<enumVars, selVars, results, received, closeVars, ctxDone>>

-----------------------------------------------------------------------------
SelectStep == \/ \E d \in Candidates : Enumerate(d)
              \/ StartSelection \/ Receive \/ ContextSeen \/ Return
              \/ \E d \in Candidates, failed \in BOOLEAN : CloseOne(d, failed)

Next == \/ SelectStep
        \/ ContextDone
        \/ \E d \in Candidates : \/ \E a \in Answers : SelectionReturns(d, a)
                                 \/ Send(d)

Spec == Init /\ [][Next]_vars

\* The enumerator comes to an end and Close returns.  Selection is only sure
\* to return once its transport is closed: nobody has to touch a device.
SelectionClosed(d) == transport[d] = "closed" /\ \E a \in Answers : SelectionReturns(d, a)

FairSpec == /\ Spec
            /\ WF_vars(SelectStep)
            /\ \A d \in Candidates : WF_vars(Send(d)) /\ WF_vars(SelectionClosed(d))

-----------------------------------------------------------------------------
TypeOK ==
    /\ phase \in {"enumerate", "select", "close", "returned"}
    /\ todo \subseteq Candidates /\ devices \subseteq Candidates
    /\ transport \in [Candidates -> {"none", "open", "closed"}]
    /\ sel \in [Candidates -> {"none", "running", "send", "done"}]
    /\ outcome \in [Candidates -> {None, "nil", "err"}]
    /\ results \in Seq(devices)
    /\ received \in 0..Cardinality(devices)
    /\ winner \in devices \union {None}
    /\ toClose \subseteq devices
    /\ closeErr \in BOOLEAN /\ ctxDone \in BOOLEAN /\ canceled \in BOOLEAN
    /\ ret \in IF phase = "returned" THEN devices \union {"error"} ELSE {None}
    /\ touched \subseteq devices

Open == {d \in Candidates : transport[d] = "open"}

\* The comment on Select: it closes every device except the selected one, and
\* all of them when it returns an error, whatever failed on the way.
OneSurvivor == phase = "returned" => Open = IF ret = "error" THEN {} ELSE {ret}

\* With several authenticators the one returned is one that was touched, not
\* one whose Selection ended because the others won or the caller gave up.
SelectedWasTouched == ret \in Candidates /\ Cardinality(devices) > 1 => ret \in touched

\* Canceling the context ends Select even if nobody touches anything.
CanceledSelectReturns == ctxDone ~> phase = "returned"

\* A touch ends Select.
TouchReturns == touched # {} ~> phase = "returned"

\* No goroutine outlives Select for good, the winner's and the losers' alike.
NoGoroutineLeak ==
    \A d \in Candidates :
        (phase = "returned" /\ ret # d /\ sel[d] # "none") ~> sel[d] = "done"
=============================================================================
