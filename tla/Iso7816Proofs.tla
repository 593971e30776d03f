---------------------------- MODULE Iso7816Proofs ----------------------------
(***************************************************************************)
(* Proofs about Iso7816, for any callers, any lengths of their commands    *)
(* and any number of calls: the types, the lock, and what the card holds   *)
(* while a command is sent, polled for, canceled and when none runs.       *)
(***************************************************************************)
EXTENDS Iso7816, TLAPS

\* Only the holder of mu talks to the card.  Callers of Close who are callers
\* of CBOR hold mu, so TryLock fails for them: only Closer ends the session.
Holder ==
    /\ \A p \in Callers :
          /\ pc[p] \notin {"end", "shut", "closed"}
          /\ pc[p] \in {"send", "status", "poll", "cancel", "close"} <=> mu = p
    /\ pc[Closer] \in {"idle", "close", "end", "shut", "closed"}
    /\ pc[Closer] \in {"end", "shut"} <=> mu = Closer

\* The card is closed when closeOnce is done, and while it runs Closer has mu;
\* the applet is disabled only after that.
Closing ==
    /\ card <=> once # "done"
    /\ once = "running" <=> mu = Closer
    /\ ~session /\ card => pc[Closer] = "shut"

\* A call under way has a number and, until its last APDU, APDUs to send.
Numbered ==
    \A p \in Callers : /\ pc[p] # "idle" => call[p] \in 1..calls
                       /\ pc[p] \in {"lock", "send"} => left[p] > 0

\* What an open card holds at each control point of the command it works for.
Quiet ==
    ~abandoned /\ card =>
        /\ mu \notin Callers => working = None /\ chain = {}
        /\ \A p \in Callers :
              /\ pc[p] = "send" => working = None /\ chain \subseteq {call[p]}
              /\ pc[p] \in {"status", "poll"} => working = {call[p]} /\ chain = {}
              /\ pc[p] = "cancel" => chain = {}

IInv == TypeOK /\ Holder /\ Closing /\ Numbered /\ Quiet /\ OwnResponse
-----------------------------------------------------------------------------
(* The types. *)

\* Every step of a caller, of Close and of the card keeps the types, and a
\* command in progress has APDUs left until its last one is transmitted.
LEMMA TypeStep == IInv /\ [Next]_vars => TypeOK' /\ Numbered'
<1> DEFINE Goal == TypeOK' /\ Numbered'
<1> SUFFICES ASSUME IInv, [Next]_vars PROVE Goal
  OBVIOUS
<1> USE IsoAssumption DEF IInv, Procs, Goto, Ended, Return, cardVars
<1>0. calls \in Nat
  BY DEF TypeOK
<1>1. ASSUME NEW p \in Callers, NEW l \in Lengths, Call(p, l) PROVE Goal
  <2>1. calls' = calls + 1 /\ calls' \in 0..MaxCalls
    BY <1>0, <1>1 DEF Call, TypeOK
  <2>2. l \in Nat /\ l > 0
    OBVIOUS
  <2>3. Ended("none") \in [end : {"none", "response", "error", "ctx", "invalidated"},
                           of : SUBSET Nat]
    OBVIOUS
  <2>4. call' \in [Callers -> 0..calls'] /\ left' \in [Callers -> Nat]
    BY <1>0, <1>1, <2>1, <2>2 DEF Call, TypeOK
  <2>5. ctxDone' \in [Callers -> BOOLEAN]
    BY <1>1 DEF Call, TypeOK
  <2>6. chain' \subseteq 1..calls' /\ (working' = None \/ working' \subseteq 1..calls')
    BY <1>0, <1>1, <2>1 DEF Call, TypeOK
  <2>7. TypeOK'
    BY <1>1, <2>1, <2>3, <2>4, <2>5, <2>6 DEF Call, TypeOK
  <2>8. Numbered'
    BY <1>0, <1>1, <2>1, <2>2 DEF Call, TypeOK, Numbered
  <2> QED BY <2>7, <2>8
<1>2. ASSUME NEW p \in Callers, ContextDone(p) PROVE Goal
  <2>1. ctxDone' \in [Callers -> BOOLEAN]
    BY <1>2 DEF ContextDone, TypeOK
  <2> QED BY <1>2, <2>1 DEF ContextDone, TypeOK, Numbered
<1>3. ASSUME NEW p \in Callers, Lock(p) PROVE Goal
  BY <1>3 DEF Lock, TypeOK, Numbered
<1>4. ASSUME NEW p \in Callers, Transmit(p) PROVE Goal
  <2>1. left[p] \in Nat /\ left[p] > 0 /\ call[p] \in 1..calls
    BY <1>4 DEF Transmit, TypeOK, Numbered
  <2>2. left' \in [Callers -> Nat]
    BY <1>4, <2>1 DEF Transmit, TypeOK
  <2>3. chain' \subseteq 1..calls /\ (working' = None \/ working' \subseteq 1..calls)
    BY <1>4, <2>1 DEF Transmit, TakeAPDU, TypeOK
  <2>4. TypeOK'
    BY <1>4, <2>2, <2>3 DEF Transmit, TakeAPDU, TypeOK
  <2>5. \A q \in Callers : /\ pc'[q] # "idle" => pc[q] # "idle"
                           /\ pc'[q] = "lock" => pc[q] = "lock" /\ left'[q] = left[q]
                           /\ pc'[q] = "send" => pc[q] = "send" /\ left'[q] > 0
    BY <1>4, <2>1 DEF Transmit, TypeOK, Numbered
  <2>6. Numbered'
    BY <1>4, <2>5 DEF Transmit, Numbered
  <2> QED BY <2>4, <2>6
<1>5. ASSUME NEW p \in Callers, TransmitRejected(p) PROVE Goal
  BY <1>5 DEF TransmitRejected, Reject, TypeOK, Numbered
<1>6. ASSUME NEW p \in Callers, InvalidResponse(p) PROVE Goal
  <2>1. call[p] \in 1..calls
    BY <1>6 DEF InvalidResponse, Numbered
  <2>2. chain' \subseteq 1..calls /\ (working' = None \/ working' \subseteq 1..calls)
    BY <1>6, <2>1 DEF InvalidResponse, TakeAPDU, TypeOK
  <2>3. session' = session
    BY <1>6 DEF InvalidResponse, TakeAPDU
  <2> QED BY <1>6, <2>2, <2>3 DEF InvalidResponse, TypeOK, Numbered
<1>7. ASSUME NEW p \in Callers, NEW c \in {"ctx", "io"}, TransmitFails(p, c) PROVE Goal
  <2>1. abandoned' \in BOOLEAN
    BY <1>7 DEF TransmitFails, TypeOK
  <2> QED BY <1>7, <2>1 DEF TransmitFails, TypeOK, Numbered
<1>8. ASSUME NEW p \in Callers, Respond(p) PROVE Goal
  <2>1. [end |-> "response", of |-> working]
           \in [end : {"none", "response", "error", "ctx", "invalidated"}, of : SUBSET Nat]
    BY <1>0, <1>8 DEF Respond, TypeOK
  <2> QED BY <1>8, <2>1 DEF Respond, TypeOK, Numbered
<1>9. ASSUME NEW p \in Callers, Status(p) PROVE Goal
  BY <1>9 DEF Status, TypeOK, Numbered
<1>10. ASSUME NEW p \in Callers, CancelConfirmed(p) \/ CancelUnconfirmed(p) PROVE Goal
  <2>1. CASE CancelConfirmed(p)
    BY <2>1 DEF CancelConfirmed, TypeOK, Numbered
  <2>2. CASE CancelUnconfirmed(p)
    BY <2>2 DEF CancelUnconfirmed, TypeOK, Numbered
  <2> QED BY <1>10, <2>1, <2>2
<1>11. ASSUME NEW p \in Procs, BeginClose(p) PROVE Goal
  <2>1. CASE mu # None
    BY <1>11, <2>1 DEF BeginClose, TypeOK, Numbered
  <2>2. CASE mu = None
    <3>1. pc' = [pc EXCEPT ![p] = "end"] /\ mu' = p
          /\ UNCHANGED <<ctxDone, call, left, result, present, session, chain, working, calls, abandoned, card>>
          /\ once' = "running"
      BY <1>11, <2>2, IsoAssumption DEF BeginClose
    <3>2. TypeOK'
      BY <3>1 DEF TypeOK
    <3>3. Numbered'
      BY <1>11, <3>1 DEF Numbered, BeginClose, TypeOK
    <3> QED BY <3>2, <3>3
  <2> QED BY <2>1, <2>2
<1>12. ASSUME NEW p \in Procs, NEW e \in BOOLEAN, EndSession(p, e) PROVE Goal
  <2>1. session' \in BOOLEAN
    BY <1>12 DEF EndSession
  <2> QED BY <1>12, <2>1 DEF EndSession, TypeOK, Numbered
<1>13. ASSUME NEW p \in Procs, CloseCard(p) PROVE Goal
  BY <1>13 DEF CloseCard, TypeOK, Numbered
<1>14. ASSUME NEW p \in Procs, CloseReturns(p) PROVE Goal
  BY <1>14 DEF CloseReturns, TypeOK, Numbered
<1>15. CASE CallClose
  BY <1>15 DEF CallClose, TypeOK, Numbered
<1>16. CASE Remove
  BY <1>16 DEF Remove, TypeOK, Numbered
<1>17. CASE UNCHANGED vars
  BY <1>17 DEF vars, TypeOK, Numbered
<1> HIDE DEF Goal
<1> QED
  BY <1>1, <1>2, <1>3, <1>4, <1>5, <1>6, <1>7, <1>8, <1>9, <1>10, <1>11, <1>12, <1>13,
     <1>14, <1>15, <1>16, <1>17 DEF Next, CallerStep, CloseStep

-----------------------------------------------------------------------------
(* The lock and Close. *)

\* Every step keeps the lock with the goroutine that is inside CBOR, or with
\* Closer while it ends the session: the TryLock of a caller that closes on an
\* error never succeeds, because the caller itself holds the lock.
LEMMA ControlStep == IInv /\ [Next]_vars => Holder' /\ Closing'
<1> DEFINE Goal == Holder' /\ Closing'
<1> SUFFICES ASSUME IInv, [Next]_vars PROVE Goal
  OBVIOUS
<1> USE IsoAssumption DEF IInv, Procs, Goto, Return, cardVars, TypeOK, Holder, Closing
<1>1. ASSUME NEW p \in Callers, NEW l \in Lengths, Call(p, l) PROVE Goal
  BY <1>1 DEF Call
<1>2. ASSUME NEW p \in Callers, ContextDone(p) PROVE Goal
  BY <1>2 DEF ContextDone
<1>3. ASSUME NEW p \in Callers, Lock(p) PROVE Goal
  BY <1>3 DEF Lock
<1>4. ASSUME NEW p \in Callers, Transmit(p) PROVE Goal
  BY <1>4 DEF Transmit, TakeAPDU
<1>5. ASSUME NEW p \in Callers, TransmitRejected(p) PROVE Goal
  BY <1>5 DEF TransmitRejected, Reject
<1>6. ASSUME NEW p \in Callers, InvalidResponse(p) PROVE Goal
  BY <1>6 DEF InvalidResponse, TakeAPDU
<1>7. ASSUME NEW p \in Callers, NEW c \in {"ctx", "io"}, TransmitFails(p, c) PROVE Goal
  BY <1>7 DEF TransmitFails
<1>8. ASSUME NEW p \in Callers, Respond(p) \/ Status(p) PROVE Goal
  <2>1. CASE Respond(p)
    BY <2>1 DEF Respond
  <2>2. CASE Status(p)
    BY <2>2 DEF Status
  <2> QED BY <1>8, <2>1, <2>2
<1>9. ASSUME NEW p \in Callers, CancelConfirmed(p) \/ CancelUnconfirmed(p) PROVE Goal
  <2>1. CASE CancelConfirmed(p)
    BY <2>1 DEF CancelConfirmed
  <2>2. CASE CancelUnconfirmed(p)
    BY <2>2 DEF CancelUnconfirmed
  <2> QED BY <1>9, <2>1, <2>2
<1>10. ASSUME NEW p \in Procs, BeginClose(p) PROVE Goal
  <2>1. CASE mu # None
    BY <1>10, <2>1 DEF BeginClose
  <2>2. CASE mu = None
    <3>1. pc' = [pc EXCEPT ![p] = "end"] /\ mu' = p /\ UNCHANGED <<card, session>> /\ once = "new"
          /\ once' = "running" /\ pc[p] = "close"
      BY <1>10, <2>2 DEF BeginClose
    <3>2. p = Closer
      BY <2>2, <3>1
    <3>3. Holder'
      BY <2>2, <3>1, <3>2
    <3>4. Closing'
      BY <2>2, <3>1, <3>2
    <3> QED BY <3>3, <3>4
  <2> QED BY <2>1, <2>2
<1>11. ASSUME NEW p \in Procs, NEW e \in BOOLEAN, EndSession(p, e) PROVE Goal
  BY <1>11 DEF EndSession
<1>12. ASSUME NEW p \in Procs, CloseCard(p) PROVE Goal
  BY <1>12 DEF CloseCard
<1>13. ASSUME NEW p \in Procs, CloseReturns(p) PROVE Goal
  BY <1>13 DEF CloseReturns
<1>14. CASE CallClose
  BY <1>14 DEF CallClose
<1>15. CASE Remove
  BY <1>15 DEF Remove
<1>16. CASE UNCHANGED vars
  BY <1>16 DEF vars
<1> HIDE DEF Goal, IInv, Procs, Goto, Return, cardVars, TypeOK, Holder, Closing
<1> QED
  BY <1>1, <1>2, <1>3, <1>4, <1>5, <1>6, <1>7, <1>8, <1>9, <1>10, <1>11, <1>12, <1>13,
     <1>14, <1>15, <1>16 DEF Next, CallerStep, CloseStep
-----------------------------------------------------------------------------
(* The card. *)

\* Every step keeps the account of what the card holds.  A call that ends with
\* the card open leaves it idle: the card rejected the command, answered it, or
\* confirmed its cancellation; the others closed the card or are abandoned.
LEMMA CardStep == IInv /\ [Next]_vars => Quiet' /\ OwnResponse'
<1> DEFINE Goal == Quiet' /\ OwnResponse'
<1> SUFFICES ASSUME IInv, [Next]_vars PROVE Goal
  OBVIOUS
<1> USE IsoAssumption DEF IInv, Procs, Goto, Ended, Return, cardVars, TypeOK, Reachable
<1>1. ASSUME NEW p \in Callers, NEW l \in Lengths, Call(p, l) PROVE Goal
  <2>1. mu # p
    BY <1>1 DEF Call, Holder
  <2>2. \A q \in Callers \ {p} : pc'[q] = pc[q] /\ call'[q] = call[q] /\ result'[q] = result[q]
    BY <1>1 DEF Call
  <2>3. pc'[p] = "lock" /\ result'[p].end = "none"
    BY <1>1 DEF Call
  <2>4. Quiet'
    BY <1>1, <2>2, <2>3 DEF Call, Quiet
  <2>5. OwnResponse'
    BY <1>1, <2>2, <2>3 DEF Call, OwnResponse
  <2> QED BY <2>4, <2>5
<1>2. ASSUME NEW p \in Callers, ContextDone(p) PROVE Goal
  BY <1>2 DEF ContextDone, Quiet, OwnResponse
<1>3. ASSUME NEW p \in Callers, Lock(p) PROVE Goal
  <2>1. OwnResponse'
    BY <1>3 DEF Lock, OwnResponse
  <2>2. Quiet'
    BY <1>3 DEF Lock, Quiet, Holder
  <2> QED BY <2>1, <2>2
<1>4. ASSUME NEW p \in Callers, Transmit(p) PROVE Goal
  <2>1. mu = p /\ \A q \in Callers \ {p} : pc'[q] \notin {"send", "status", "poll", "cancel"}
    BY <1>4 DEF Transmit, Holder
  <2>2. CASE left[p] > 1
    <3>1. Quiet'
      <4>1. /\ pc[p] = "send" /\ pc' = [pc EXCEPT ![p] = "send"] /\ chain' = chain \union {call[p]}
            /\ UNCHANGED <<mu, working, call, card, abandoned>>
        BY <1>4, <2>2 DEF Transmit, TakeAPDU
      <4>2. pc' = pc
        BY <4>1
      <4> QED BY <2>1, <4>1, <4>2 DEF Quiet
    <3>2. OwnResponse'
      BY <1>4, <2>2 DEF Transmit, OwnResponse
    <3> QED BY <3>1, <3>2
  <2>3. CASE ~(left[p] > 1)
    BY <1>4, <2>1, <2>3 DEF Transmit, TakeAPDU, Quiet, OwnResponse
  <2> QED BY <2>2, <2>3
<1>5. ASSUME NEW p \in Callers, TransmitRejected(p) PROVE Goal
  <2>1. \A q \in Callers : pc'[q] \notin {"send", "status", "poll", "cancel"}
    BY <1>5 DEF TransmitRejected, Holder
  <2> QED BY <1>5, <2>1 DEF TransmitRejected, Reject, Quiet, OwnResponse
<1>6. ASSUME NEW p \in Callers, InvalidResponse(p) PROVE Goal
  BY <1>6 DEF InvalidResponse, Quiet, OwnResponse
<1>7. ASSUME NEW p \in Callers, NEW c \in {"ctx", "io"}, TransmitFails(p, c) PROVE Goal
  <2>1. CASE abandoned'
    BY <2>1 DEF Quiet, OwnResponse
  <2>2. CASE ~abandoned'
    <3>1. mu' = mu /\ pc'[p] \in {"cancel", "close"} /\ UNCHANGED <<abandoned, result>>
      BY <1>7, <2>2 DEF TransmitFails
    <3>2. pc'[p] = "cancel" => pc[p] = "poll"
      BY <1>7, <2>2, <3>1 DEF TransmitFails
    <3>3. \A q \in Callers \ {p} : pc'[q] = pc[q]
      BY <1>7 DEF TransmitFails
    <3>4. UNCHANGED <<card, chain, working, call, session>>
      BY <1>7 DEF TransmitFails
    <3>5. mu = p
      BY <1>7 DEF TransmitFails, Holder
    <3> QED BY <3>1, <3>2, <3>3, <3>4, <3>5 DEF Quiet, OwnResponse
  <2> QED BY <2>1, <2>2
<1>8. ASSUME NEW p \in Callers, Respond(p) PROVE Goal
  <2>1. \A q \in Callers : pc'[q] \notin {"send", "status", "poll", "cancel"}
    BY <1>8 DEF Respond, Holder
  <2>2. ~abandoned => working = {call[p]} /\ chain = {}
    BY <1>8 DEF Respond, Quiet
  <2>3. result'[p].of = working
    BY <1>8 DEF Respond
  <2>4. OwnResponse'
    BY <1>8, <2>2, <2>3 DEF Respond, OwnResponse
  <2>5. Quiet'
    BY <1>8, <2>1, <2>2 DEF Respond, Quiet
  <2> QED BY <2>4, <2>5
<1>9. ASSUME NEW p \in Callers, Status(p) PROVE Goal
  BY <1>9 DEF Status, Quiet, OwnResponse
<1>10. ASSUME NEW p \in Callers, CancelConfirmed(p) PROVE Goal
  <2>1. \A q \in Callers : pc'[q] \notin {"send", "status", "poll", "cancel"}
    BY <1>10 DEF CancelConfirmed, Holder
  <2> QED BY <1>10, <2>1 DEF CancelConfirmed, Quiet, OwnResponse
<1>11. ASSUME NEW p \in Callers, CancelUnconfirmed(p) PROVE Goal
  BY <1>11 DEF CancelUnconfirmed, Quiet, OwnResponse
<1>12. ASSUME NEW p \in Procs, BeginClose(p) PROVE Goal
  BY <1>12 DEF BeginClose, Holder, Quiet, OwnResponse
<1>13. ASSUME NEW p \in Procs, NEW e \in BOOLEAN, EndSession(p, e) PROVE Goal
  BY <1>13 DEF EndSession, Quiet, OwnResponse
<1>14. ASSUME NEW p \in Procs, CloseCard(p) PROVE Goal
  BY <1>14 DEF CloseCard, Quiet, OwnResponse
<1>15. ASSUME NEW p \in Procs, CloseReturns(p) PROVE Goal
  <2>1. ~card /\ card' = card
    BY <1>15 DEF CloseReturns, Closing
  <2> QED BY <1>15, <2>1 DEF CloseReturns, Quiet, OwnResponse
<1>16. CASE CallClose
  BY <1>16 DEF CallClose, Quiet, OwnResponse
<1>17. CASE Remove
  BY <1>17 DEF Remove, Quiet, OwnResponse
<1>18. CASE UNCHANGED vars
  BY <1>18 DEF vars, Quiet, OwnResponse
<1> HIDE DEF Goal, IInv, Procs, Goto, Ended, Return, cardVars, TypeOK, Reachable
<1> QED
  BY <1>1, <1>2, <1>3, <1>4, <1>5, <1>6, <1>7, <1>8, <1>9, <1>10, <1>11, <1>12, <1>13,
     <1>14, <1>15, <1>16, <1>17, <1>18 DEF Next, CallerStep, CloseStep

-----------------------------------------------------------------------------
(* The theorems. *)

\* The inductive invariant: the types, the lock, Close and the card.
THEOREM Invariance == Spec => []IInv
<1>1. Init => IInv
  <2> SUFFICES ASSUME Init PROVE IInv
    OBVIOUS
  <2> USE IsoAssumption DEF Init, Procs, Ended
  <2>1. /\ card \in BOOLEAN /\ present \in BOOLEAN /\ session \in BOOLEAN
        /\ abandoned \in BOOLEAN /\ ctxDone \in [Callers -> BOOLEAN]
    OBVIOUS
  <2>2. TypeOK
    BY <2>1 DEF TypeOK
  <2>3. Holder /\ Closing /\ Numbered /\ Quiet /\ OwnResponse
    BY DEF Holder, Closing, Numbered, Quiet, OwnResponse
  <2> QED BY <2>2, <2>3 DEF IInv
<1>2. IInv /\ [Next]_vars => IInv'
  BY TypeStep, ControlStep, CardStep DEF IInv
<1> QED
  BY <1>1, <1>2, PTL DEF Spec

\* The transport and the card stay within their types.
THEOREM TypeCorrect == Spec => []TypeOK
<1>1. IInv => TypeOK
  BY DEF IInv
<1> QED
  BY Invariance, <1>1, PTL

\* CBOR returns what the card computed for the caller's own command, all of it
\* and nothing else, as long as no command was given up unfinished.
THEOREM ResponseIsOwn == Spec => []OwnResponse
<1>1. IInv => OwnResponse
  BY DEF IInv
<1> QED
  BY Invariance, <1>1, PTL

\* Between two commands on a usable card nothing of the first is left, neither
\* a chain nor a command a poll could be answered for.
THEOREM CardIdleBetweenCalls == Spec => []IdleBetweenCalls
<1>1. IInv => IdleBetweenCalls
  BY IsoAssumption DEF IInv, Quiet, IdleBetweenCalls, Reachable
<1> QED
  BY Invariance, <1>1, PTL

\* Close disables the applet only when it has the lock, so no command runs into
\* the disabled applet on a connection that is still open.
THEOREM SessionEndedUnderLock == Spec => []SessionEndsIdle
<1>1. IInv => SessionEndsIdle
  BY IsoAssumption DEF IInv, Holder, Closing, SessionEndsIdle
<1> QED
  BY Invariance, <1>1, PTL
=============================================================================
