------------------------ MODULE CtapHidTransportProofs -----------------------
(***************************************************************************)
(* Proofs about CtapHidTransport, for any callers, any lengths of the      *)
(* responses and any number of calls: the two mutexes, the device closed   *)
(* by an I/O error, and the packets an exchange reads.                     *)
(***************************************************************************)
EXTENDS CtapHidTransport, TLAPS

\* Transport.mu: its holder is the one caller inside a command.
Holder ==
    /\ \A p \in Callers : pc[p] \notin {"idle", "lock"} <=> mu = p
    /\ \A p \in Callers : pc[p] \notin {"close", "closed"}
    /\ pc[Closer] \in {"idle", "cancelLock", "cancelWrite", "close", "closed"}

\* The goroutine writes under writeMu.
Writes(p) == pc[p] = "cancelWrite" \/ (p \in Callers /\ pc[p] = "write" /\ kind[p] = "CBOR")

\* Transport.writeMu: its holder is the one goroutine that writes a CBOR request
\* or a CANCEL, and a request half written is its holder's.
Serialised ==
    /\ \A p \in Procs : Writes(p) <=> writeMu = p
    /\ \A p \in Callers : pc[p] = "writeLock" => kind[p] = "CBOR"
    /\ half # None => half \in Callers /\ pc[half] = "write" /\ kind[half] = "CBOR"

\* closeOnIOError: the device of a call that is told so is closed, and a closed
\* device fails every read.
Invalidated ==
    /\ ~open => failure # None
    /\ \A p \in Callers : result[p].end = "invalidated" => ~open

\* Only a call whose context is done cancels.
CancelsDone ==
    \A p \in Callers : pc[p] \in {"cancelLock", "cancelWrite", "drain"} => ctxDone[p]

\* Before a call returns it has no result.
Unreturned == \A p \in Callers : pc[p] # "idle" => result[p].end = "none"

\* A message is assembled only while its packets are read.
Assembling == \A p \in Callers : pc[p] \notin {"read", "wait", "drain"} => msg[p] = None

-----------------------------------------------------------------------------
(* The exchange. *)

IsKeepalive(r) == r.cmd = "KEEPALIVE" /\ r.seq = 0 /\ r.last

Request(p) == [n |-> attempt[p], cmd |-> kind[p]]

\* What p's caller reads is a message of l packets, command c, to its request:
\* it has read d of them, the channel holds the next ones, behind k keepalives.
Stream(p, c, l, k, d) ==
    /\ (d = 0 /\ msg[p] = None) \/ (d > 0 /\ k = 0 /\ msg[p] = [n |-> attempt[p], cmd |-> c, next |-> d])
    /\ k <= Len(pending)
    /\ \A i \in 1..Len(pending) :
          IF i <= k THEN IsKeepalive(pending[i])
                    ELSE pending[i] = Packet(attempt[p], c, d + i - k - 1, l)
    /\ d + Len(pending) - k <= l
    /\ d < l

\* While the device works, the rest of that message is still to come: the
\* authenticator has the request, or it has begun to answer it.
Processing(p, k, d) ==
    inbox = <<Request(p)>> /\ sending = <<>> /\ d = 0 /\ k = Len(pending)

Responding(p, c, l, k, d) ==
    /\ inbox = <<>> /\ ~canceling
    /\ \A i \in 1..Len(sending) :
          sending[i] = Packet(attempt[p], c, d + Len(pending) - k + i - 1, l)
    /\ d + Len(pending) - k + Len(sending) = l

Stage(p) ==
    \E c \in {kind[p], "BUSY", "ERROR"}, l \in Nat, k \in {0, 1}, d \in Nat :
        /\ Stream(p, c, l, k, d)
        /\ failure = None => Processing(p, k, d) \/ Responding(p, c, l, k, d)

Exchanging == {"read", "wait", "cancelLock", "cancelWrite", "drain"}

Exchange == ~abandoned => \A p \in Callers : pc[p] \in Exchanging => Stage(p)

\* Nothing of a command is left on the channel.
Clean == /\ pending = <<>>
         /\ failure = None => inbox = <<>> /\ sending = <<>> /\ ~canceling

CleanStart == ~abandoned /\ open /\ (\A p \in Callers : pc[p] \notin Exchanging) => Clean

Control == Holder /\ Serialised
Calls == Invalidated /\ CancelsDone /\ Unreturned /\ Assembling
Wire == Exchange /\ CleanStart /\ OwnResponse /\ CancelOnlyCanceled
IInv == TypeOK /\ Control /\ Calls /\ Wire

-----------------------------------------------------------------------------
(* Operators. *)

\* What a packet carries.
LEMMA PacketFacts ==
    ASSUME NEW n \in Nat, NEW c \in Commands, NEW k \in Nat, NEW l \in Nat
    PROVE  /\ Packet(n, c, k, l) \in Packets
           /\ Packet(n, c, k, l).n = n /\ Packet(n, c, k, l).cmd = c
           /\ Packet(n, c, k, l).seq = k
           /\ Packet(n, c, k, l).last <=> k = l - 1
<1>1. (k = l - 1) \in BOOLEAN
  OBVIOUS
<1> QED BY <1>1 DEF Packet, Packets

\* A response is its packets in order.
LEMMA ResponseFacts ==
    ASSUME NEW n \in Nat, NEW c \in Commands, NEW l \in Nat
    PROVE  /\ Response(n, c, l) \in Seq(Packets) /\ Len(Response(n, c, l)) = l
           /\ \A i \in 1..l : Response(n, c, l)[i] = Packet(n, c, i - 1, l)
<1>1. \A i \in 1..l : Packet(n, c, i - 1, l) \in Packets
  BY PacketFacts
<1> QED BY <1>1 DEF Response

\* Taking the head off a queue leaves the others in order.
LEMMA TailFacts ==
    ASSUME NEW S, NEW q \in Seq(S), q # <<>>
    PROVE  /\ Head(q) \in S /\ Head(q) = q[1] /\ Len(q) \in Nat \ {0}
           /\ Tail(q) \in Seq(S) /\ Len(Tail(q)) = Len(q) - 1
           /\ \A i \in 1..Len(Tail(q)) : Tail(q)[i] = q[i + 1] /\ i + 1 \in 1..Len(q)
  OBVIOUS

\* A report is queued behind the others.
LEMMA AppendFacts ==
    ASSUME NEW S, NEW q \in Seq(S), NEW x \in S
    PROVE  /\ Append(q, x) \in Seq(S) /\ Len(Append(q, x)) = Len(q) + 1
           /\ Append(q, x)[Len(q) + 1] = x
           /\ \A i \in 1..Len(q) : Append(q, x)[i] = q[i]
  OBVIOUS

\* How calls end.
LEMMA EndedFacts ==
    /\ \A e \in Outcomes : Ended(e) \in Results /\ Ended(e).end = e
    /\ \A n \in Nat : /\ [end |-> "response", n |-> n] \in Results
                      /\ [end |-> "response", n |-> n].end = "response"
                      /\ [end |-> "response", n |-> n].n = n
    /\ {"none", "ctx", "invalidated", "framing", "error"} \subseteq Outcomes
  BY DEF Ended, Results, Outcomes

-----------------------------------------------------------------------------
(* What a step may be. *)

\* The authenticator begins to answer.
Answering == \E c \in Commands, l \in Nat \ {0} : Answer(c, l)

Environment == Keepalive \/ SendPacket \/ Unplug \/ Answering

\* A step is one of a caller, of Close or of the authenticator.
LEMMA Steps ==
    ASSUME Next
    PROVE  \/ \E p \in Callers, k \in Kinds : Call(p, k)
           \/ \E p \in Callers : \/ LockMu(p) \/ LockWriteMu(p) \/ WritePacket(p) \/ WriteFails(p)
                                 \/ Wait(p) \/ ReadPacket(p) \/ ReadFails(p) \/ ReadCanceled(p)
                                 \/ Retry(p) \/ RetryCanceled(p)
           \/ \E p \in Procs : \/ ContextDone(p) \/ LockCancel(p) \/ WriteCancel(p) \/ WriteCancelFails(p)
           \/ CloseCall \/ CloseTransport \/ Environment
<1>1. AnswerCanceled => Answering
  BY DEF AnswerCanceled, Answering, Commands
<1>2. ASSUME NEW c \in Commands, NEW l \in RespLens, Answer(c, l) PROVE Answering
  BY <1>2, TransportAssumption DEF Answering
<1> QED BY <1>1, <1>2 DEF Next, HostStep, WriteStep, Environment

\* The authenticator's steps leave the host alone.
LEMMA EnvironmentFrame ==
    Environment => UNCHANGED <<hostVars, half, open, attempts, calls, abandoned>>
  BY DEF Environment, Keepalive, SendPacket, Unplug, Answering, Answer

\* After a packet the caller reads on, retries a busy channel, or returns.
LEMMA ReadOutcome ==
    ASSUME TypeOK, NEW p \in Callers, ReadPacket(p)
    PROVE  \/ /\ \E l \in {"read", "drain", "retry"} :
                    pc' = [pc EXCEPT ![p] = l] /\ (l = "drain" => pc[p] = "drain")
              /\ \E m \in Messages \union {None} : msg' = [msg EXCEPT ![p] = m]
              /\ UNCHANGED <<mu, activeCBOR, result>>
           \/ \E r \in Results : Return(p, r) /\ r.end # "invalidated"
<1> DEFINE r == Head(pending)
           m == IF r.seq = 0 THEN r ELSE msg[p]
<1>0. pending \in Seq(Packets) /\ msg \in [Callers -> Messages \union {None}]
  BY DEF TypeOK
<1>1. r \in Packets
  BY <1>0, TailFacts DEF ReadPacket
<1>2. pc \in [Procs -> {"idle", "lock", "writeLock", "write", "read", "wait", "retry", "drain",
                        "cancelLock", "cancelWrite", "close", "closed"}] /\ p \in Procs
  BY DEF TypeOK, Procs
<1>4. CASE Invalid(p)
  <2>1. "ctx" \in Outcomes /\ "framing" \in Outcomes
    BY EndedFacts
  <2> QED BY <1>4, <2>1, EndedFacts DEF Invalid
<1>5. ASSUME ~((r.seq = 0) = Torn(p) \/ (Torn(p) /\ r.seq # msg[p].next))
      PROVE  m.n \in Nat /\ m.cmd \in Commands /\ r.seq \in Nat
  BY <1>0, <1>1, <1>5 DEF Torn, Packets, Messages
<1> HIDE DEF r, m
<1>3. \/ Invalid(p)
      \/ /\ ~((r.seq = 0) = Torn(p) \/ (Torn(p) /\ r.seq # msg[p].next))
         /\ IF r.last THEN Complete(p, m)
            ELSE /\ msg' = [msg EXCEPT ![p] = [n |-> m.n, cmd |-> m.cmd, next |-> r.seq + 1]]
                 /\ ReadOn(p)
                 /\ UNCHANGED <<mu, activeCBOR, result>>
  BY DEF ReadPacket, r, m
<1>6. ASSUME ReadOn(p)
      PROVE  \E l \in {"read", "drain", "retry"} :
                pc' = [pc EXCEPT ![p] = l] /\ (l = "drain" => pc[p] = "drain")
  BY <1>2, <1>6 DEF ReadOn, Goto
<1>7. CASE m.n \in Nat /\ m.cmd \in Commands /\ r.seq \in Nat /\ ~r.last
           /\ msg' = [msg EXCEPT ![p] = [n |-> m.n, cmd |-> m.cmd, next |-> r.seq + 1]]
           /\ ReadOn(p) /\ UNCHANGED <<mu, activeCBOR, result>>
  <2>1. [n |-> m.n, cmd |-> m.cmd, next |-> r.seq + 1] \in Messages
    BY <1>7 DEF Messages
  <2> QED BY <1>6, <1>7, <2>1
<1>8. CASE m.n \in Nat /\ m.cmd \in Commands /\ Complete(p, m)
  <2>1. CASE m.cmd = "KEEPALIVE"
    <3>1. ReadOn(p) /\ msg' = [msg EXCEPT ![p] = None] /\ UNCHANGED <<mu, activeCBOR, result>>
      BY <1>8, <2>1, TransportAssumption DEF Complete, TypeOK
    <3> QED BY <1>6, <3>1
  <2>2. CASE m.cmd # "KEEPALIVE" /\ pc[p] = "drain"
    <3>1. Return(p, Ended("ctx"))
      BY <1>8, <2>2 DEF Complete
    <3> QED BY <3>1, EndedFacts DEF Outcomes
  <2>3. CASE m.cmd = "BUSY" /\ pc[p] # "drain"
    <3>1. Goto(p, "retry") /\ msg' = [msg EXCEPT ![p] = None] /\ UNCHANGED <<mu, activeCBOR, result>>
      BY <1>8, <2>3, TransportAssumption DEF Complete, TypeOK
    <3> QED BY <1>2, <3>1 DEF Goto
  <2>4. CASE m.cmd \notin {"KEEPALIVE", "BUSY"} /\ pc[p] # "drain"
    <3>1. \/ Return(p, Ended("error")) \/ Return(p, Ended("framing"))
          \/ Return(p, [end |-> "response", n |-> m.n])
      BY <1>8, <2>4 DEF Complete
    <3>2. {"error", "framing"} \subseteq Outcomes
      BY EndedFacts
    <3> QED BY <1>8, <3>1, <3>2, EndedFacts
  <2> QED BY <2>1, <2>2, <2>3, <2>4
<1> QED BY <1>3, <1>4, <1>5, <1>7, <1>8

-----------------------------------------------------------------------------
(* The types, in four groups: the control state, the flags, the calls and  *)
(* the queues.                                                             *)

ControlTypes ==
    /\ mu \in Callers \union {None}
    /\ writeMu \in Procs \union {None}
    /\ half \in Callers \union {None}
    /\ pc \in [Procs -> {"idle", "lock", "writeLock", "write", "read", "wait", "retry", "drain",
                         "cancelLock", "cancelWrite", "close", "closed"}]
    /\ failure \in {None, "closed", "io"}
FlagTypes ==
    /\ activeCBOR \in BOOLEAN /\ open \in BOOLEAN
    /\ canceling \in BOOLEAN /\ abandoned \in BOOLEAN
CallTypes ==
    /\ kind \in [Callers -> Kinds]
    /\ ctxDone \in [Procs -> BOOLEAN]
    /\ attempt \in [Callers -> Nat]
    /\ msg \in [Callers -> Messages \union {None}]
    /\ result \in [Callers -> Results]
    /\ attempts \in Nat /\ calls \in 0..MaxCalls
QueueTypes ==
    /\ inbox \in Seq(Requests)
    /\ sending \in Seq(Packets) /\ pending \in Seq(Packets)
    /\ busy \in 0..MaxBusy

\* The four groups are the type invariant.
LEMMA TypeGroups == TypeOK <=> ControlTypes /\ FlagTypes /\ CallTypes /\ QueueTypes
  BY DEF TypeOK, ControlTypes, FlagTypes, CallTypes, QueueTypes

\* The mutexes, the control points and the channel's error keep their types.
LEMMA ControlTypeStep == TypeOK /\ [Next]_vars => ControlTypes'
<1> SUFFICES ASSUME ControlTypes, TypeOK, [Next]_vars PROVE ControlTypes'
  BY TypeGroups
<1> USE TransportAssumption DEF Procs, Goto, hostVars, ControlTypes
<1>1. ASSUME NEW p \in Callers, NEW k \in Kinds, Call(p, k) PROVE ControlTypes'
  BY <1>1 DEF Call
<1>2. ASSUME NEW p \in Callers, LockMu(p) PROVE ControlTypes'
  BY <1>2 DEF LockMu, Return
<1>3. ASSUME NEW p \in Callers, LockWriteMu(p) PROVE ControlTypes'
  BY <1>3 DEF LockWriteMu, Return
<1>4. ASSUME NEW p \in Callers, WritePacket(p) PROVE ControlTypes'
  BY <1>4 DEF WritePacket
<1>5. ASSUME NEW p \in Callers, WriteFails(p) PROVE ControlTypes'
  BY <1>5 DEF WriteFails, CloseDevice, Return
<1>6. ASSUME NEW p \in Callers, ReadPacket(p) PROVE ControlTypes'
  <2>1. UNCHANGED <<writeMu, half, failure>>
    BY <1>6 DEF ReadPacket
  <2>2. mu' \in {mu, None} /\ \E l \in {"read", "drain", "retry", "idle"} : pc' = [pc EXCEPT ![p] = l]
    BY <1>6, ReadOutcome DEF Return
  <2> QED BY <2>1, <2>2
<1>7. ASSUME NEW p \in Callers, ReadFails(p) PROVE ControlTypes'
  BY <1>7 DEF ReadFails, CloseDevice, Return
<1>8. ASSUME NEW p \in Callers, ReadCanceled(p) PROVE ControlTypes'
  BY <1>8 DEF ReadCanceled, Return
<1>9. ASSUME NEW p \in Callers, Wait(p) \/ Retry(p) \/ RetryCanceled(p) PROVE ControlTypes'
  BY <1>9 DEF Wait, Retry, RetryCanceled, Return
<1>10. ASSUME NEW p \in Procs, ContextDone(p) \/ LockCancel(p) PROVE ControlTypes'
  BY <1>10 DEF ContextDone, LockCancel
<1>11. ASSUME NEW p \in Procs, WriteCancel(p) PROVE ControlTypes'
  BY <1>11 DEF WriteCancel
<1>12. ASSUME NEW p \in Procs, WriteCancelFails(p) PROVE ControlTypes'
  BY <1>12 DEF WriteCancelFails, CloseDevice, Return
<1>13. CASE CloseCall \/ CloseTransport
  BY <1>13 DEF CloseCall, CloseTransport, CloseDevice
<1>14. CASE Environment
  <2>1. failure' = failure \/ failure' = "io"
    BY <1>14 DEF Environment, Keepalive, SendPacket, Unplug, Answering, Answer
  <2> QED BY <1>14, <2>1, EnvironmentFrame
<1>15. CASE UNCHANGED vars
  BY <1>15 DEF vars
<1> HIDE DEF ControlTypes
<1> QED
  BY <1>1, <1>2, <1>3, <1>4, <1>5, <1>6, <1>7, <1>8, <1>9, <1>10, <1>11, <1>12, <1>13, <1>14,
     <1>15, Steps

\* The flags keep their types.
LEMMA FlagTypeStep == TypeOK /\ [Next]_vars => FlagTypes'
<1> SUFFICES ASSUME FlagTypes, TypeOK, [Next]_vars PROVE FlagTypes'
  BY TypeGroups
<1> USE DEF hostVars, devVars, FlagTypes
<1>1. ASSUME NEW p \in Callers, NEW k \in Kinds, Call(p, k) PROVE FlagTypes'
  BY <1>1 DEF Call
<1>2. ASSUME NEW p \in Callers, LockMu(p) \/ LockWriteMu(p) PROVE FlagTypes'
  BY <1>2 DEF LockMu, LockWriteMu, Return
<1>3. ASSUME NEW p \in Callers, WritePacket(p) \/ Wait(p) \/ Retry(p) PROVE FlagTypes'
  BY <1>3 DEF WritePacket, Wait, Retry
<1>4. ASSUME NEW p \in Callers, WriteFails(p) \/ ReadFails(p) \/ RetryCanceled(p) PROVE FlagTypes'
  BY <1>4 DEF WriteFails, ReadFails, RetryCanceled, CloseDevice, Return
<1>5. ASSUME NEW p \in Callers, ReadPacket(p) PROVE FlagTypes'
  <2>1. activeCBOR' = activeCBOR \/ activeCBOR' = FALSE
    BY <1>5, ReadOutcome DEF Return
  <2> QED BY <1>5, <2>1 DEF ReadPacket
<1>6. ASSUME NEW p \in Callers, ReadCanceled(p) PROVE FlagTypes'
  <2>1. abandoned' \in BOOLEAN
    BY <1>6 DEF ReadCanceled, Torn
  <2> QED BY <1>6, <2>1 DEF ReadCanceled, Return
<1>7. ASSUME NEW p \in Procs, ContextDone(p) \/ LockCancel(p) PROVE FlagTypes'
  BY <1>7 DEF ContextDone, LockCancel
<1>8. ASSUME NEW p \in Procs, WriteCancel(p) \/ WriteCancelFails(p) PROVE FlagTypes'
  BY <1>8 DEF WriteCancel, WriteCancelFails, CloseDevice, Return
<1>9. CASE CloseCall \/ CloseTransport
  BY <1>9 DEF CloseCall, CloseTransport, CloseDevice
<1>10. CASE Environment
  <2>1. canceling' = canceling \/ canceling' = FALSE
    BY <1>10 DEF Environment, Keepalive, SendPacket, Unplug, Answering, Answer
  <2> QED BY <1>10, <2>1, EnvironmentFrame
<1>11. CASE UNCHANGED vars
  BY <1>11 DEF vars
<1> HIDE DEF FlagTypes
<1> QED
  BY <1>1, <1>2, <1>3, <1>4, <1>5, <1>6, <1>7, <1>8, <1>9, <1>10, <1>11, Steps

\* The arguments, the counters, the assembled messages and the results of the
\* calls keep their types.
LEMMA CallTypeStep == TypeOK /\ [Next]_vars => CallTypes'
<1> SUFFICES ASSUME CallTypes, TypeOK, [Next]_vars PROVE CallTypes'
  BY TypeGroups
<1> USE TransportAssumption DEF hostVars, CallTypes, Procs
<1>0. ASSUME NEW p \in Callers, NEW r \in Results, Return(p, r)
      PROVE  msg' \in [Callers -> Messages \union {None}] /\ result' \in [Callers -> Results]
  BY <1>0 DEF Return
<1>e. \A e \in {"none", "ctx", "invalidated", "framing", "error"} : Ended(e) \in Results
  BY EndedFacts
<1>1. ASSUME NEW p \in Callers, NEW k \in Kinds, Call(p, k) PROVE CallTypes'
  <2>1. calls' \in 0..MaxCalls
    BY <1>1 DEF Call
  <2>2. ctxDone' \in [Procs -> BOOLEAN]
    BY <1>1 DEF Call
  <2>3. kind' \in [Callers -> Kinds] /\ attempt' \in [Callers -> Nat] /\ result' \in [Callers -> Results]
    BY <1>1, <1>e DEF Call
  <2> QED BY <1>1, <2>1, <2>2, <2>3 DEF Call
<1>2. ASSUME NEW p \in Callers, LockMu(p) PROVE CallTypes'
  <2>1. msg' \in [Callers -> Messages \union {None}] /\ result' \in [Callers -> Results]
    BY <1>0, <1>2, <1>e DEF LockMu
  <2>2. UNCHANGED <<kind, ctxDone, attempt, attempts, calls>>
    BY <1>2 DEF LockMu
  <2> QED BY <2>1, <2>2
<1>3. ASSUME NEW p \in Callers, LockWriteMu(p) PROVE CallTypes'
  <2>1. msg' \in [Callers -> Messages \union {None}] /\ result' \in [Callers -> Results]
    BY <1>0, <1>3, <1>e DEF LockWriteMu
  <2>2. UNCHANGED <<kind, ctxDone, attempt, attempts, calls>>
    BY <1>3 DEF LockWriteMu
  <2> QED BY <2>1, <2>2
<1>4. ASSUME NEW p \in Callers, WritePacket(p) PROVE CallTypes'
  <2>0. \/ UNCHANGED <<attempts, attempt>>
        \/ attempts' = attempts + 1 /\ attempt' = [attempt EXCEPT ![p] = attempts']
    BY <1>4 DEF WritePacket
  <2>1. attempts' \in Nat /\ attempt' \in [Callers -> Nat]
    BY <2>0
  <2>2. UNCHANGED <<kind, ctxDone, calls, msg, result>>
    BY <1>4 DEF WritePacket
  <2> QED BY <2>1, <2>2
<1>5. ASSUME NEW p \in Callers, WriteFails(p) \/ ReadFails(p) \/ RetryCanceled(p) PROVE CallTypes'
  <2>1. msg' \in [Callers -> Messages \union {None}] /\ result' \in [Callers -> Results]
    BY <1>0, <1>5, <1>e DEF WriteFails, ReadFails, RetryCanceled
  <2>2. UNCHANGED <<kind, ctxDone, attempt, attempts, calls>>
    BY <1>5 DEF WriteFails, ReadFails, RetryCanceled
  <2> QED BY <2>1, <2>2
<1>6. ASSUME NEW p \in Callers, ReadPacket(p) PROVE CallTypes'
  <2>1. msg' \in [Callers -> Messages \union {None}] /\ result' \in [Callers -> Results]
    BY <1>0, <1>6, ReadOutcome
  <2>2. UNCHANGED <<kind, ctxDone, attempt, attempts, calls>>
    BY <1>6 DEF ReadPacket
  <2> QED BY <2>1, <2>2
<1>7. ASSUME NEW p \in Callers, ReadCanceled(p) PROVE CallTypes'
  <2>1. msg' \in [Callers -> Messages \union {None}] /\ result' \in [Callers -> Results]
    BY <1>0, <1>7, <1>e DEF ReadCanceled
  <2>2. UNCHANGED <<kind, ctxDone, attempt, attempts, calls>>
    BY <1>7 DEF ReadCanceled
  <2> QED BY <2>1, <2>2
<1>8. ASSUME NEW p \in Callers, Wait(p) \/ Retry(p) PROVE CallTypes'
  BY <1>8 DEF Wait, Retry
<1>9. ASSUME NEW p \in Procs, ContextDone(p) PROVE CallTypes'
  <2>1. ctxDone' \in [Procs -> BOOLEAN]
    BY <1>9 DEF ContextDone
  <2> QED BY <1>9, <2>1 DEF ContextDone
<1>10. ASSUME NEW p \in Procs, LockCancel(p) \/ WriteCancel(p) PROVE CallTypes'
  BY <1>10 DEF LockCancel, WriteCancel
<1>11. ASSUME NEW p \in Procs, WriteCancelFails(p) PROVE CallTypes'
  <2>1. msg' \in [Callers -> Messages \union {None}] /\ result' \in [Callers -> Results]
    BY <1>0, <1>11, <1>e DEF WriteCancelFails
  <2>2. UNCHANGED <<kind, ctxDone, attempt, attempts, calls>>
    BY <1>11 DEF WriteCancelFails
  <2> QED BY <2>1, <2>2
<1>12. CASE CloseCall \/ CloseTransport
  BY <1>12 DEF CloseCall, CloseTransport
<1>13. CASE Environment
  BY <1>13, EnvironmentFrame
<1>14. CASE UNCHANGED vars
  BY <1>14 DEF vars
<1> HIDE DEF CallTypes
<1> QED
  BY <1>1, <1>2, <1>3, <1>4, <1>5, <1>6, <1>7, <1>8, <1>9, <1>10, <1>11, <1>12, <1>13, <1>14, Steps

\* The request a caller completes.
LEMMA RequestType ==
    ASSUME TypeOK, NEW p \in Callers
    PROVE  [n |-> attempts + 1, cmd |-> kind[p]] \in Requests
  BY DEF TypeOK, Requests

\* The channel's and the authenticator's queues keep their types.
LEMMA QueueTypeStep == TypeOK /\ [Next]_vars => QueueTypes'
<1> SUFFICES ASSUME QueueTypes, TypeOK, [Next]_vars PROVE QueueTypes'
  BY TypeGroups
<1> USE TransportAssumption DEF devVars, QueueTypes
<1>1. ASSUME NEW p \in Callers, NEW k \in Kinds, Call(p, k) PROVE QueueTypes'
  BY <1>1 DEF Call
<1>2. ASSUME NEW p \in Callers, \/ LockMu(p) \/ LockWriteMu(p) \/ WriteFails(p) \/ Wait(p) \/ ReadFails(p)
                                \/ ReadCanceled(p) \/ Retry(p) \/ RetryCanceled(p)
      PROVE  QueueTypes'
  BY <1>2 DEF LockMu, LockWriteMu, WriteFails, Wait, ReadFails, ReadCanceled, Retry, RetryCanceled
<1>3. ASSUME NEW p \in Callers, WritePacket(p) PROVE QueueTypes'
  <2>1. inbox' = inbox \/ inbox' = Append(inbox, [n |-> attempts + 1, cmd |-> kind[p]])
    BY <1>3 DEF WritePacket
  <2>2. inbox' \in Seq(Requests)
    <3>1. [n |-> attempts + 1, cmd |-> kind[p]] \in Requests
      BY RequestType
    <3> DEFINE x == [n |-> attempts + 1, cmd |-> kind[p]]
    <3> HIDE DEF x
    <3>2. x \in Requests /\ (inbox' = inbox \/ inbox' = Append(inbox, x))
      BY <2>1, <3>1 DEF x
    <3>3. inbox \in Seq(Requests)
      OBVIOUS
    <3>4. CASE inbox' = inbox
      BY <3>3, <3>4
    <3>5. CASE inbox' = Append(inbox, x)
      BY <3>2, <3>3, <3>5, AppendFacts
    <3> QED BY <3>2, <3>4, <3>5
  <2> QED BY <1>3, <2>2 DEF WritePacket
<1>4. ASSUME NEW p \in Callers, ReadPacket(p) PROVE QueueTypes'
  <2>1. pending' \in Seq(Packets)
    BY <1>4, TailFacts DEF ReadPacket
  <2> QED BY <1>4, <2>1 DEF ReadPacket
<1>5. ASSUME NEW p \in Procs, ContextDone(p) \/ LockCancel(p) \/ WriteCancel(p) \/ WriteCancelFails(p)
      PROVE  QueueTypes'
  BY <1>5 DEF ContextDone, LockCancel, WriteCancel, WriteCancelFails
<1>6. CASE CloseCall \/ CloseTransport
  BY <1>6 DEF CloseCall, CloseTransport
<1>7. CASE Keepalive
  <2>1. Head(inbox) \in Requests
    BY <1>7, TailFacts DEF Keepalive
  <2>2. Head(inbox).n \in Nat
    BY <2>1 DEF Requests
  <2>3. Packet(Head(inbox).n, "KEEPALIVE", 0, 1) \in Packets
    <3> DEFINE n == Head(inbox).n
    <3>1. n \in Nat /\ "KEEPALIVE" \in Commands /\ 0 \in Nat /\ 1 \in Nat
      BY <2>2 DEF Commands
    <3> HIDE DEF n
    <3>2. Packet(n, "KEEPALIVE", 0, 1) \in Packets
      BY <3>1, PacketFacts
    <3> QED BY <3>2 DEF n
  <2>4. pending' \in Seq(Packets)
    BY <1>7, <2>3, AppendFacts DEF Keepalive, Deliver
  <2> QED BY <1>7, <2>4 DEF Keepalive
<1>8. CASE SendPacket
  <2>1. Head(sending) \in Packets /\ sending' \in Seq(Packets)
    BY <1>8, TailFacts DEF SendPacket
  <2>2. pending' \in Seq(Packets)
    BY <1>8, <2>1, AppendFacts DEF SendPacket, Deliver
  <2> QED BY <1>8, <2>1, <2>2 DEF SendPacket
<1>9. CASE Unplug
  BY <1>9 DEF Unplug
<1>10. CASE Answering
  <2>1. PICK c \in Commands, l \in Nat \ {0} : Answer(c, l)
    BY <1>10 DEF Answering
  <2>2. Head(inbox) \in Requests /\ inbox' \in Seq(Requests)
    BY <2>1, TailFacts DEF Answer
  <2>3. Head(inbox).n \in Nat
    BY <2>2 DEF Requests
  <2>4. sending' \in Seq(Packets)
    BY <2>1, <2>3, ResponseFacts DEF Answer
  <2>5. busy' \in 0..MaxBusy /\ UNCHANGED pending
    BY <2>1 DEF Answer
  <2> QED BY <2>2, <2>4, <2>5
<1>11. CASE UNCHANGED vars
  BY <1>11 DEF vars
<1> HIDE DEF QueueTypes
<1> QED
  BY <1>1, <1>2, <1>3, <1>4, <1>5, <1>6, <1>7, <1>8, <1>9, <1>10, <1>11, Steps DEF Environment

\* Every step of a caller, of Close and of the authenticator keeps the types.
LEMMA TypeStep == TypeOK /\ [Next]_vars => TypeOK'
<1> SUFFICES ASSUME TypeOK, [Next]_vars PROVE TypeOK'
  OBVIOUS
<1>1. ControlTypes' /\ FlagTypes' /\ CallTypes' /\ QueueTypes'
  BY ControlTypeStep, FlagTypeStep, CallTypeStep, QueueTypeStep
<1>2. (ControlTypes /\ FlagTypes /\ CallTypes /\ QueueTypes)' => TypeOK'
  BY DEF TypeOK, ControlTypes, FlagTypes, CallTypes, QueueTypes
<1> QED BY <1>1, <1>2

-----------------------------------------------------------------------------
(* The mutexes. *)

\* Transport.mu is taken by LockMu alone and given back by the one return of
\* the call.
LEMMA HolderStep == TypeOK /\ Holder /\ [Next]_vars => Holder'
<1> SUFFICES ASSUME ControlTypes, Holder, TypeOK, [Next]_vars PROVE Holder'
  BY TypeGroups
<1> USE TransportAssumption DEF Procs, Goto, hostVars, ControlTypes, Holder
<1>1. ASSUME NEW p \in Callers, NEW r, Return(p, r), mu = p PROVE Holder'
  BY <1>1 DEF Return
<1>2. ASSUME NEW p \in Callers, NEW l \in {"writeLock", "write", "read", "wait", "retry", "drain",
                                           "cancelLock", "cancelWrite"},
             pc' = [pc EXCEPT ![p] = l], mu = p, mu' = mu
      PROVE  Holder'
  BY <1>2
<1>3. ASSUME NEW l \in {"cancelLock", "cancelWrite", "close", "closed"},
             pc' = [pc EXCEPT ![Closer] = l], mu' = mu
      PROVE  Holder'
  BY <1>3
<1>4. ASSUME NEW p \in Callers, NEW k \in Kinds, Call(p, k) PROVE Holder'
  BY <1>4 DEF Call
<1>5. ASSUME NEW p \in Callers, LockMu(p) PROVE Holder'
  <2>1. CASE ctxDone[p]
    BY <1>5, <2>1 DEF LockMu, Return
  <2>2. CASE ~ctxDone[p]
    <3>1. /\ pc[p] = "lock" /\ mu = None /\ mu' = p
          /\ \E l \in {"writeLock", "write"} : pc' = [pc EXCEPT ![p] = l]
      BY <1>5, <2>2 DEF LockMu
    <3> QED BY <3>1
  <2> QED BY <2>1, <2>2
<1>6. ASSUME NEW p \in Callers, LockWriteMu(p) PROVE Holder'
  BY <1>1, <1>2, <1>6 DEF LockWriteMu
<1>7. ASSUME NEW p \in Callers, WritePacket(p) PROVE Holder'
  <2>1. (pc' = pc \/ pc' = [pc EXCEPT ![p] = "read"]) /\ pc[p] = "write" /\ mu' = mu
    BY <1>7 DEF WritePacket
  <2> QED BY <1>2, <2>1
<1>8. ASSUME NEW p \in Callers, WriteFails(p) \/ ReadFails(p) \/ RetryCanceled(p) PROVE Holder'
  <2>1. pc[p] \in {"write", "read", "wait", "drain", "retry"} /\ \E r : Return(p, r)
    BY <1>8 DEF WriteFails, ReadFails, RetryCanceled, Reading
  <2> QED BY <1>1, <2>1
<1>9. ASSUME NEW p \in Callers, ReadPacket(p) PROVE Holder'
  <2>1. mu = p
    BY <1>9 DEF ReadPacket, Reading
  <2> QED BY <1>1, <1>2, <1>9, <2>1, ReadOutcome
<1>10. ASSUME NEW p \in Callers, ReadCanceled(p) PROVE Holder'
  BY <1>1, <1>2, <1>10 DEF ReadCanceled
<1>11. ASSUME NEW p \in Callers, Wait(p) \/ Retry(p) PROVE Holder'
  <2>1. /\ pc[p] \in {"read", "retry"} /\ mu' = mu
        /\ \E l \in {"wait", "writeLock", "write"} : pc' = [pc EXCEPT ![p] = l]
    BY <1>11 DEF Wait, Retry
  <2> QED BY <1>2, <2>1
<1>12. ASSUME NEW p \in Procs, ContextDone(p) PROVE Holder'
  BY <1>12 DEF ContextDone
<1>13. ASSUME NEW p \in Procs, LockCancel(p) PROVE Holder'
  <2>1. /\ pc[p] = "cancelLock" /\ mu' = mu
        /\ \/ pc' = [pc EXCEPT ![p] = "cancelWrite"]
           \/ p = Closer /\ pc' = [pc EXCEPT ![p] = "close"]
    BY <1>13 DEF LockCancel
  <2> QED BY <1>2, <1>3, <2>1
<1>14. ASSUME NEW p \in Procs, WriteCancel(p) \/ WriteCancelFails(p) PROVE Holder'
  <2>1. CASE p = Closer
    BY <1>3, <1>14, <2>1 DEF WriteCancel, WriteCancelFails
  <2>2. CASE p # Closer
    BY <1>1, <1>2, <1>14, <2>2 DEF WriteCancel, WriteCancelFails
  <2> QED BY <2>1, <2>2
<1>15. CASE CloseCall \/ CloseTransport
  BY <1>3, <1>15 DEF CloseCall, CloseTransport
<1>16. CASE Environment
  BY <1>16, EnvironmentFrame
<1>17. CASE UNCHANGED vars
  BY <1>17 DEF vars
<1> HIDE DEF Holder
<1> QED
  BY <1>4, <1>5, <1>6, <1>7, <1>8, <1>9, <1>10, <1>11, <1>12, <1>13, <1>14, <1>15, <1>16, <1>17, Steps

\* writeMu keeps a CANCEL out of a CBOR request that is being written, and the
\* request is the mutex holder's.
LEMMA SerialisedStep == TypeOK /\ Holder /\ Serialised /\ [Next]_vars => Serialised'
<1> SUFFICES ASSUME ControlTypes, Holder, Serialised, TypeOK, [Next]_vars PROVE Serialised'
  BY TypeGroups
<1>0. kind \in [Callers -> Kinds]
  BY DEF TypeOK
<1> USE <1>0, TransportAssumption DEF Procs, Goto, hostVars, ControlTypes, Serialised, Writes
\* p moves between two labels at which it does not write.
<1>1. ASSUME NEW p \in Procs, NEW l, l \notin {"writeLock", "write", "cancelWrite"}, ~Writes(p),
             pc' = [pc EXCEPT ![p] = l], UNCHANGED <<writeMu, half, kind>>, half # p
      PROVE  Serialised'
  BY <1>1
\* p stops writing.
<1>2. ASSUME NEW p \in Procs, NEW l, l \notin {"writeLock", "write", "cancelWrite"}, Writes(p),
             pc' = [pc EXCEPT ![p] = l], writeMu' = None, kind' = kind,
             half' = None \/ (half' = half /\ half # p)
      PROVE  Serialised'
  BY <1>2
<1>3. ASSUME NEW p \in Callers, pc[p] # "write" PROVE half # p
  BY <1>3
<1>4. ASSUME NEW p \in Callers, NEW k \in Kinds, Call(p, k) PROVE Serialised'
  <2>1. /\ pc[p] = "idle" /\ pc' = [pc EXCEPT ![p] = "lock"] /\ kind' = [kind EXCEPT ![p] = k]
        /\ UNCHANGED <<writeMu, half>>
    BY <1>4 DEF Call
  <2> QED BY <2>1
<1>5. ASSUME NEW p \in Callers, LockMu(p) PROVE Serialised'
  <2>1. /\ pc[p] = "lock" /\ UNCHANGED <<writeMu, half, kind>>
        /\ \E l \in {"idle", "writeLock", "write"} :
              /\ pc' = [pc EXCEPT ![p] = l] /\ (l = "write" => kind[p] # "CBOR")
              /\ l = "writeLock" => kind[p] = "CBOR"
    BY <1>5 DEF LockMu, Return
  <2> QED BY <2>1
<1>6. ASSUME NEW p \in Callers, LockWriteMu(p) PROVE Serialised'
  <2>1. CASE ctxDone[p]
    BY <1>1, <1>3, <1>6, <2>1 DEF LockWriteMu, Return
  <2>2. CASE ~ctxDone[p]
    <3>1. /\ pc[p] = "writeLock" /\ writeMu = None /\ writeMu' = p /\ pc' = [pc EXCEPT ![p] = "write"]
          /\ UNCHANGED <<half, kind>>
      BY <1>6, <2>2 DEF LockWriteMu
    <3>2. kind[p] = "CBOR"
      BY <3>1
    <3> QED BY <3>1, <3>2
  <2> QED BY <2>1, <2>2
<1>7. ASSUME NEW p \in Callers, WritePacket(p) PROVE Serialised'
  <2>0. pc[p] = "write" /\ kind' = kind
    BY <1>7 DEF WritePacket
  <2>1. CASE kind[p] = "CBOR" /\ half = None
    <3>1. half' = p /\ UNCHANGED <<writeMu, pc>>
      BY <1>7, <2>1 DEF WritePacket
    <3> QED BY <2>0, <2>1, <3>1
  <2>2. CASE ~(kind[p] = "CBOR" /\ half = None)
    <3>1. /\ half' = None /\ pc' = [pc EXCEPT ![p] = "read"]
          /\ writeMu' = IF writeMu = p THEN None ELSE writeMu
      BY <1>7, <2>2 DEF WritePacket
    <3>2. CASE Writes(p)
      BY <1>2, <2>0, <3>1, <3>2
    <3>3. CASE ~Writes(p)
      BY <2>0, <3>1, <3>3
    <3> QED BY <3>2, <3>3
  <2> QED BY <2>1, <2>2
<1>8. ASSUME NEW p \in Callers, WriteFails(p) PROVE Serialised'
  <2>1. /\ pc[p] = "write" /\ kind' = kind /\ pc' = [pc EXCEPT ![p] = "idle"]
        /\ half' = (IF half = p THEN None ELSE half)
        /\ writeMu' = (IF writeMu = p THEN None ELSE writeMu)
    BY <1>8 DEF WriteFails, Return
  <2>2. CASE Writes(p)
    BY <1>2, <2>1, <2>2
  <2>3. CASE ~Writes(p)
    BY <1>1, <2>1, <2>3
  <2> QED BY <2>2, <2>3
<1>9. ASSUME NEW p \in Callers, ReadPacket(p) PROVE Serialised'
  <2>1. pc[p] \in {"read", "wait", "drain"} /\ UNCHANGED <<writeMu, half, kind>>
    BY <1>9 DEF ReadPacket, Reading
  <2>2. \E l \in {"read", "drain", "retry", "idle"} : pc' = [pc EXCEPT ![p] = l]
    BY <1>9, ReadOutcome DEF Return
  <2> QED BY <1>1, <1>3, <2>1, <2>2
<1>10. ASSUME NEW p \in Callers, Wait(p) \/ ReadFails(p) \/ ReadCanceled(p) \/ RetryCanceled(p)
       PROVE  Serialised'
  <2>1. /\ pc[p] \in {"read", "wait", "drain", "retry"} /\ UNCHANGED <<writeMu, half, kind>>
        /\ \E l \in {"wait", "idle", "cancelLock"} : pc' = [pc EXCEPT ![p] = l]
    BY <1>10 DEF Wait, ReadFails, ReadCanceled, RetryCanceled, Reading, Return
  <2> QED BY <1>1, <1>3, <2>1
<1>11. ASSUME NEW p \in Callers, Retry(p) PROVE Serialised'
  <2>1. /\ pc[p] = "retry" /\ UNCHANGED <<writeMu, half, kind>>
        /\ \/ pc' = [pc EXCEPT ![p] = "writeLock"] /\ kind[p] = "CBOR"
           \/ pc' = [pc EXCEPT ![p] = "write"] /\ kind[p] # "CBOR"
    BY <1>11 DEF Retry
  <2> QED BY <2>1
<1>12. ASSUME NEW p \in Procs, ContextDone(p) PROVE Serialised'
  BY <1>12 DEF ContextDone
<1>13. ASSUME NEW p \in Procs, LockCancel(p) PROVE Serialised'
  <2>1. /\ pc[p] = "cancelLock" /\ writeMu = None /\ UNCHANGED <<half, kind>>
        /\ \/ pc' = [pc EXCEPT ![p] = "cancelWrite"] /\ writeMu' = p
           \/ pc' = [pc EXCEPT ![p] = "close"] /\ UNCHANGED writeMu
    BY <1>13 DEF LockCancel
  <2>2. half # p
    BY <2>1
  <2> QED BY <1>1, <2>1, <2>2
<1>14. ASSUME NEW p \in Procs, WriteCancel(p) \/ WriteCancelFails(p) PROVE Serialised'
  <2>1. /\ pc[p] = "cancelWrite" /\ UNCHANGED <<half, kind>> /\ writeMu' = None
        /\ \E l \in {"close", "drain", "idle"} : pc' = [pc EXCEPT ![p] = l]
    BY <1>14 DEF WriteCancel, WriteCancelFails, Return
  <2>2. half # p
    BY <2>1
  <2> QED BY <1>2, <2>1, <2>2
<1>15. CASE CloseCall \/ CloseTransport
  <2>1. /\ pc[Closer] \in {"idle", "close"} /\ UNCHANGED <<writeMu, half, kind>>
        /\ \E l \in {"cancelLock", "close", "closed"} : pc' = [pc EXCEPT ![Closer] = l]
    BY <1>15 DEF CloseCall, CloseTransport
  <2> QED BY <1>1, <2>1
<1>16. CASE Environment
  BY <1>16, EnvironmentFrame
<1>17. CASE UNCHANGED vars
  BY <1>17 DEF vars
<1> HIDE DEF Serialised
<1> QED
  BY <1>4, <1>5, <1>6, <1>7, <1>8, <1>9, <1>10, <1>11, <1>12, <1>13, <1>14, <1>15, <1>16, <1>17, Steps

-----------------------------------------------------------------------------
(* The calls. *)

\* A call is told that the device is invalidated only by a step that closes it,
\* and it is never opened again.
LEMMA InvalidatedStep == TypeOK /\ Invalidated /\ [Next]_vars => Invalidated'
<1> SUFFICES ASSUME TypeOK, Invalidated, [Next]_vars PROVE Invalidated'
  OBVIOUS
<1>0. result \in [Callers -> Results] /\ failure \in {None, "closed", "io"} /\ open \in BOOLEAN
  BY DEF TypeOK
<1>e. \A e \in {"none", "ctx"} : Ended(e) \in Results /\ Ended(e).end # "invalidated"
  BY EndedFacts
<1> USE <1>0, TransportAssumption DEF hostVars, Invalidated
<1>1. ASSUME NEW p \in Callers, NEW r \in Results, r.end # "invalidated", UNCHANGED <<open, failure>>,
             result' = [result EXCEPT ![p] = r]
      PROVE  Invalidated'
  BY <1>1
<1>2. ASSUME CloseDevice PROVE Invalidated'
  BY <1>2 DEF CloseDevice
<1>3. ASSUME NEW p \in Callers, NEW k \in Kinds, Call(p, k) PROVE Invalidated'
  BY <1>1, <1>3, <1>e DEF Call
<1>4. ASSUME NEW p \in Callers, LockMu(p) \/ LockWriteMu(p) \/ ReadCanceled(p) \/ RetryCanceled(p)
      PROVE  Invalidated'
  <2>1. UNCHANGED <<open, failure>> /\ (UNCHANGED result \/ result' = [result EXCEPT ![p] = Ended("ctx")])
    BY <1>4 DEF LockMu, LockWriteMu, ReadCanceled, RetryCanceled, Return
  <2> QED BY <1>1, <1>e, <2>1
<1>5. ASSUME NEW p \in Callers, WritePacket(p) \/ Wait(p) \/ Retry(p) PROVE Invalidated'
  BY <1>5 DEF WritePacket, Wait, Retry
<1>6. ASSUME NEW p \in Callers, WriteFails(p) \/ ReadFails(p) PROVE Invalidated'
  BY <1>2, <1>6 DEF WriteFails, ReadFails
<1>7. ASSUME NEW p \in Callers, ReadPacket(p) PROVE Invalidated'
  <2>1. UNCHANGED <<open, failure>>
    BY <1>7 DEF ReadPacket
  <2>2. UNCHANGED result \/ \E r \in Results : result' = [result EXCEPT ![p] = r] /\ r.end # "invalidated"
    BY <1>7, ReadOutcome DEF Return
  <2> QED BY <1>1, <2>1, <2>2
<1>8. ASSUME NEW p \in Procs, ContextDone(p) \/ LockCancel(p) \/ WriteCancel(p) PROVE Invalidated'
  BY <1>8 DEF ContextDone, LockCancel, WriteCancel
<1>9. ASSUME NEW p \in Procs, WriteCancelFails(p) PROVE Invalidated'
  BY <1>2, <1>9 DEF WriteCancelFails
<1>10. CASE CloseCall
  BY <1>10 DEF CloseCall
<1>11. CASE CloseTransport
  BY <1>2, <1>11 DEF CloseTransport
<1>12. CASE Environment
  <2>1. failure' = failure \/ failure' = "io"
    BY <1>12 DEF Environment, Keepalive, SendPacket, Unplug, Answering, Answer
  <2> QED BY <1>12, <2>1, EnvironmentFrame
<1>13. CASE UNCHANGED vars
  BY <1>13 DEF vars
<1> HIDE DEF Invalidated
<1> QED
  BY <1>3, <1>4, <1>5, <1>6, <1>7, <1>8, <1>9, <1>10, <1>11, <1>12, <1>13, Steps

\* A caller cancels and drains only after its own context is done.
LEMMA CancelsDoneStep == TypeOK /\ CancelsDone /\ [Next]_vars => CancelsDone'
<1> SUFFICES ASSUME TypeOK, CancelsDone, [Next]_vars PROVE CancelsDone'
  OBVIOUS
<1>0. /\ ctxDone \in [Procs -> BOOLEAN]
      /\ pc \in [Procs -> {"idle", "lock", "writeLock", "write", "read", "wait", "retry", "drain",
                           "cancelLock", "cancelWrite", "close", "closed"}]
  BY DEF TypeOK
<1> USE <1>0, TransportAssumption DEF Procs, Goto, hostVars, CancelsDone
<1>1. ASSUME NEW p \in Procs, NEW l, pc' = [pc EXCEPT ![p] = l], UNCHANGED ctxDone,
             (p \in Callers /\ l \in {"cancelLock", "cancelWrite", "drain"}) => ctxDone[p]
      PROVE  CancelsDone'
  BY <1>1
<1>2. ASSUME NEW p \in Callers, NEW k \in Kinds, Call(p, k) PROVE CancelsDone'
  BY <1>2 DEF Call
<1>3. ASSUME NEW p \in Callers, \/ LockMu(p) \/ LockWriteMu(p) \/ WriteFails(p) \/ Wait(p) \/ ReadFails(p)
                                \/ Retry(p) \/ RetryCanceled(p)
      PROVE  CancelsDone'
  <2>1. /\ UNCHANGED ctxDone
        /\ \E l \in {"idle", "writeLock", "write", "wait"} : pc' = [pc EXCEPT ![p] = l]
    BY <1>3 DEF LockMu, LockWriteMu, WriteFails, Wait, ReadFails, Retry, RetryCanceled, Return
  <2> QED BY <1>1, <2>1
<1>4. ASSUME NEW p \in Callers, WritePacket(p) PROVE CancelsDone'
  <2>1. UNCHANGED ctxDone /\ (UNCHANGED pc \/ pc' = [pc EXCEPT ![p] = "read"])
    BY <1>4 DEF WritePacket
  <2> QED BY <1>1, <2>1
<1>5. ASSUME NEW p \in Callers, ReadPacket(p) PROVE CancelsDone'
  <2>1. UNCHANGED ctxDone
    BY <1>5 DEF ReadPacket
  <2>2. \E l \in {"read", "drain", "retry", "idle"} :
            pc' = [pc EXCEPT ![p] = l] /\ (l = "drain" => pc[p] = "drain")
    BY <1>5, ReadOutcome DEF Return
  <2> QED BY <1>1, <2>1, <2>2
<1>6. ASSUME NEW p \in Callers, ReadCanceled(p) PROVE CancelsDone'
  BY <1>1, <1>6 DEF ReadCanceled, Return
<1>7. ASSUME NEW p \in Procs, ContextDone(p) PROVE CancelsDone'
  BY <1>7 DEF ContextDone
<1>8. ASSUME NEW p \in Procs, LockCancel(p) PROVE CancelsDone'
  BY <1>1, <1>8 DEF LockCancel
<1>9. ASSUME NEW p \in Procs, WriteCancel(p) PROVE CancelsDone'
  BY <1>1, <1>9 DEF WriteCancel
<1>10. ASSUME NEW p \in Procs, WriteCancelFails(p) PROVE CancelsDone'
  BY <1>1, <1>10 DEF WriteCancelFails, Return
<1>11. CASE CloseCall \/ CloseTransport
  BY <1>1, <1>11 DEF CloseCall, CloseTransport
<1>12. CASE Environment
  BY <1>12, EnvironmentFrame
<1>13. CASE UNCHANGED vars
  BY <1>13 DEF vars
<1> HIDE DEF CancelsDone
<1> QED
  BY <1>2, <1>3, <1>4, <1>5, <1>6, <1>7, <1>8, <1>9, <1>10, <1>11, <1>12, <1>13, Steps

\* A call gets its result when it returns.
LEMMA UnreturnedStep == TypeOK /\ Unreturned /\ [Next]_vars => Unreturned'
<1> SUFFICES ASSUME TypeOK, Unreturned, [Next]_vars PROVE Unreturned'
  OBVIOUS
<1>0. /\ result \in [Callers -> Results]
      /\ pc \in [Procs -> {"idle", "lock", "writeLock", "write", "read", "wait", "retry", "drain",
                           "cancelLock", "cancelWrite", "close", "closed"}]
  BY DEF TypeOK
<1> USE <1>0, TransportAssumption DEF Procs, Goto, hostVars, Unreturned
<1>1. ASSUME NEW p \in Procs, NEW l, pc' = [pc EXCEPT ![p] = l], UNCHANGED result,
             p \in Callers => pc[p] # "idle"
      PROVE  Unreturned'
  BY <1>1
<1>2. ASSUME NEW p \in Callers, NEW r, Return(p, r) PROVE Unreturned'
  BY <1>2 DEF Return
<1>3. ASSUME NEW p \in Callers, NEW k \in Kinds, Call(p, k) PROVE Unreturned'
  <2>1. Ended("none").end = "none"
    BY EndedFacts
  <2> QED BY <1>3, <2>1 DEF Call
<1>4. ASSUME NEW p \in Callers, LockMu(p) \/ LockWriteMu(p) \/ ReadCanceled(p) PROVE Unreturned'
  <2>1. /\ pc[p] # "idle"
        /\ \/ \E r : Return(p, r)
           \/ UNCHANGED result /\ \E l : pc' = [pc EXCEPT ![p] = l]
    BY <1>4 DEF LockMu, LockWriteMu, ReadCanceled
  <2> QED BY <1>1, <1>2, <2>1
<1>5. ASSUME NEW p \in Callers, WritePacket(p) PROVE Unreturned'
  <2>1. pc[p] = "write" /\ UNCHANGED result /\ (UNCHANGED pc \/ pc' = [pc EXCEPT ![p] = "read"])
    BY <1>5 DEF WritePacket
  <2> QED BY <1>1, <2>1
<1>6. ASSUME NEW p \in Callers, WriteFails(p) \/ ReadFails(p) \/ RetryCanceled(p) PROVE Unreturned'
  BY <1>2, <1>6 DEF WriteFails, ReadFails, RetryCanceled
<1>7. ASSUME NEW p \in Callers, Wait(p) \/ Retry(p) PROVE Unreturned'
  BY <1>1, <1>7 DEF Wait, Retry
<1>8. ASSUME NEW p \in Callers, ReadPacket(p) PROVE Unreturned'
  <2>1. pc[p] # "idle"
    BY <1>8 DEF ReadPacket, Reading
  <2> QED BY <1>1, <1>2, <1>8, <2>1, ReadOutcome
<1>9. ASSUME NEW p \in Procs, ContextDone(p) PROVE Unreturned'
  BY <1>9 DEF ContextDone
<1>10. ASSUME NEW p \in Procs, LockCancel(p) PROVE Unreturned'
  BY <1>1, <1>10 DEF LockCancel
<1>11. ASSUME NEW p \in Procs, WriteCancel(p) PROVE Unreturned'
  BY <1>1, <1>11 DEF WriteCancel
<1>12. ASSUME NEW p \in Procs, WriteCancelFails(p) PROVE Unreturned'
  BY <1>1, <1>2, <1>12 DEF WriteCancelFails
<1>13. CASE CloseCall \/ CloseTransport
  BY <1>1, <1>13 DEF CloseCall, CloseTransport
<1>14. CASE Environment
  BY <1>14, EnvironmentFrame
<1>15. CASE UNCHANGED vars
  BY <1>15 DEF vars
<1> HIDE DEF Unreturned
<1> QED
  BY <1>3, <1>4, <1>5, <1>6, <1>7, <1>8, <1>9, <1>10, <1>11, <1>12, <1>13, <1>14, <1>15, Steps

\* ReadFrom leaves no message half assembled behind.
LEMMA AssemblingStep == TypeOK /\ Assembling /\ [Next]_vars => Assembling'
<1> SUFFICES ASSUME TypeOK, Assembling, [Next]_vars PROVE Assembling'
  OBVIOUS
<1>0. /\ msg \in [Callers -> Messages \union {None}]
      /\ pc \in [Procs -> {"idle", "lock", "writeLock", "write", "read", "wait", "retry", "drain",
                           "cancelLock", "cancelWrite", "close", "closed"}]
  BY DEF TypeOK
<1> USE <1>0, TransportAssumption DEF Procs, Goto, hostVars, Assembling
<1>1. ASSUME NEW p \in Procs, NEW l, pc' = [pc EXCEPT ![p] = l],
             UNCHANGED msg \/ (p \in Callers /\ msg' = [msg EXCEPT ![p] = None]),
             p \in Callers => msg'[p] = None \/ l \in {"read", "wait", "drain"}
      PROVE  Assembling'
  BY <1>1
<1>2. ASSUME NEW p \in Callers, NEW r, Return(p, r) PROVE Assembling'
  BY <1>1, <1>2 DEF Return
<1>3. ASSUME NEW p \in Callers, NEW k \in Kinds, Call(p, k) PROVE Assembling'
  BY <1>1, <1>3 DEF Call
<1>4. ASSUME NEW p \in Callers, LockMu(p) \/ LockWriteMu(p) PROVE Assembling'
  <2>1. \/ \E r : Return(p, r)
        \/ pc[p] \in {"lock", "writeLock"} /\ UNCHANGED msg /\ \E l : pc' = [pc EXCEPT ![p] = l]
    BY <1>4 DEF LockMu, LockWriteMu
  <2> QED BY <1>1, <1>2, <2>1
<1>5. ASSUME NEW p \in Callers, WritePacket(p) PROVE Assembling'
  <2>1. UNCHANGED msg /\ (UNCHANGED pc \/ pc' = [pc EXCEPT ![p] = "read"])
    BY <1>5 DEF WritePacket
  <2> QED BY <1>1, <2>1
<1>6. ASSUME NEW p \in Callers, WriteFails(p) \/ ReadFails(p) \/ RetryCanceled(p) PROVE Assembling'
  BY <1>2, <1>6 DEF WriteFails, ReadFails, RetryCanceled
<1>7. ASSUME NEW p \in Callers, Wait(p) \/ Retry(p) PROVE Assembling'
  BY <1>1, <1>7 DEF Wait, Retry
<1>8. ASSUME NEW p \in Callers, ReadPacket(p) PROVE Assembling'
  <2>1. CASE \E l \in {"read", "drain"} : pc' = [pc EXCEPT ![p] = l]
    BY <1>8, <2>1, ReadOutcome DEF Return
  <2>2. CASE \E r : Return(p, r)
    BY <1>2, <2>2
  <2>3. CASE pc' = [pc EXCEPT ![p] = "retry"] /\ ~\E r : Return(p, r)
    <3>1. msg' = [msg EXCEPT ![p] = None]
      BY <1>8, <2>3 DEF ReadPacket, Complete, ReadOn, Invalid
    <3> QED BY <1>1, <2>3, <3>1
  <2> QED BY <1>8, <2>1, <2>2, <2>3, ReadOutcome
<1>9. ASSUME NEW p \in Callers, ReadCanceled(p) PROVE Assembling'
  <2>1. \/ \E r : Return(p, r)
        \/ msg' = [msg EXCEPT ![p] = None] /\ pc' = [pc EXCEPT ![p] = "cancelLock"]
    BY <1>9 DEF ReadCanceled
  <2> QED BY <1>1, <1>2, <2>1
<1>10. ASSUME NEW p \in Procs, ContextDone(p) PROVE Assembling'
  BY <1>10 DEF ContextDone
<1>11. ASSUME NEW p \in Procs, LockCancel(p) \/ WriteCancel(p) PROVE Assembling'
  <2>1. /\ UNCHANGED msg /\ pc[p] \in {"cancelLock", "cancelWrite"}
        /\ \E l : pc' = [pc EXCEPT ![p] = l]
    BY <1>11 DEF LockCancel, WriteCancel
  <2> QED BY <1>1, <2>1
<1>12. ASSUME NEW p \in Procs, WriteCancelFails(p) PROVE Assembling'
  BY <1>1, <1>2, <1>12 DEF WriteCancelFails
<1>13. CASE CloseCall \/ CloseTransport
  BY <1>1, <1>13 DEF CloseCall, CloseTransport
<1>14. CASE Environment
  BY <1>14, EnvironmentFrame
<1>15. CASE UNCHANGED vars
  BY <1>15 DEF vars
<1> HIDE DEF Assembling
<1> QED
  BY <1>3, <1>4, <1>5, <1>6, <1>7, <1>8, <1>9, <1>10, <1>11, <1>12, <1>13, <1>14, <1>15, Steps

-----------------------------------------------------------------------------
(* The exchange. *)

\* A step that leaves the channel, the assembled message and the request of an
\* exchange alone leaves it where it is, also when the device fails; a CANCEL
\* marks only a request that is there.
LEMMA StageKept ==
    ASSUME NEW p \in Callers, TypeOK, Stage(p), UNCHANGED pending,
           msg'[p] = msg[p], attempt'[p] = attempt[p], kind'[p] = kind[p],
           failure' = None => /\ failure = None /\ UNCHANGED <<inbox, sending>>
                              /\ canceling' => canceling \/ inbox # <<>>
    PROVE  Stage(p)'
<1>1. PICK c \in {kind[p], "BUSY", "ERROR"}, l \in Nat, k \in {0, 1}, d \in Nat :
          /\ Stream(p, c, l, k, d)
          /\ failure = None => Processing(p, k, d) \/ Responding(p, c, l, k, d)
  BY DEF Stage
<1>2. Stream(p, c, l, k, d)'
  BY <1>1 DEF Stream
<1>3. ASSUME failure' = None PROVE (Processing(p, k, d) \/ Responding(p, c, l, k, d))'
  <2>1. CASE Processing(p, k, d)
    BY <1>3, <2>1 DEF Processing, Request
  <2>2. CASE Responding(p, c, l, k, d)
    <3>1. inbox' = <<>> /\ ~canceling'
      BY <1>3, <2>2 DEF Responding
    <3> QED BY <1>3, <2>2, <3>1 DEF Responding
  <2> QED BY <1>1, <1>3, <2>1, <2>2
<1> QED BY <1>2, <1>3 DEF Stage

\* A keepalive is queued only while the request is processed and no other one
\* is unread.
LEMMA KeepaliveStage ==
    ASSUME NEW p \in Callers, TypeOK, Stage(p), Keepalive
    PROVE  Stage(p)'
<1>0. /\ inbox # <<>> /\ sending = <<>> /\ failure = None
      /\ \A i \in 1..Len(pending) : pending[i].cmd # "KEEPALIVE"
      /\ pending' = Append(pending, Packet(Head(inbox).n, "KEEPALIVE", 0, 1))
      /\ UNCHANGED <<inbox, sending, failure, canceling, msg, attempt, kind>>
  BY DEF Keepalive, Deliver, hostVars, devVars
<1>1. PICK c \in {kind[p], "BUSY", "ERROR"}, l \in Nat, k \in {0, 1}, d \in Nat :
          /\ Stream(p, c, l, k, d)
          /\ Processing(p, k, d) \/ Responding(p, c, l, k, d)
  BY <1>0 DEF Stage
<1>2. Processing(p, k, d) /\ d = 0 /\ k = Len(pending) /\ inbox = <<Request(p)>>
  BY <1>0, <1>1 DEF Processing, Responding
<1>3. pending \in Seq(Packets) /\ inbox \in Seq(Requests)
  BY DEF TypeOK
<1>4. pending = <<>>
  <2>1. \A i \in 1..Len(pending) : IsKeepalive(pending[i])
    BY <1>1, <1>2 DEF Stream
  <2>2. 1 \notin 1..Len(pending)
    BY <1>0, <2>1 DEF IsKeepalive
  <2> QED BY <1>3, <2>2
<1>5. Head(inbox) \in Requests
  BY <1>0, <1>3, TailFacts
<1>6. Head(inbox).n \in Nat /\ "KEEPALIVE" \in Commands
  BY <1>5 DEF Requests, Commands
<1>7. IsKeepalive(Packet(Head(inbox).n, "KEEPALIVE", 0, 1))
  BY <1>6, PacketFacts DEF IsKeepalive
<1>8. Len(pending') = 1 /\ \A i \in 1..Len(pending') : IsKeepalive(pending'[i])
  BY <1>0, <1>4, <1>7
<1>9. msg[p] = None /\ l > 0
  BY <1>1, <1>2 DEF Stream
<1>10. Stream(p, c, l, 1, 0)'
  BY <1>0, <1>8, <1>9 DEF Stream
<1>11. Processing(p, 1, 0)'
  BY <1>0, <1>2, <1>8 DEF Processing, Request
<1>12. c \in {kind'[p], "BUSY", "ERROR"} /\ 1 \in {0, 1} /\ 0 \in Nat
  BY <1>0
<1> QED BY <1>10, <1>11, <1>12 DEF Stage

\* The authenticator answers the request of the exchange, behind at most one
\* keepalive that the caller has not read.
LEMMA AnsweringStage ==
    ASSUME NEW p \in Callers, TypeOK, Stage(p), Answering
    PROVE  Stage(p)'
<1>1. PICK c \in Commands, l \in Nat \ {0} : Answer(c, l)
  BY DEF Answering
<1>0. /\ inbox # <<>> /\ sending = <<>> /\ sending' = Response(Head(inbox).n, c, l)
      /\ inbox' = Tail(inbox) /\ canceling' = FALSE
      /\ c \in {Head(inbox).cmd, "ERROR", "BUSY"}
      /\ UNCHANGED <<pending, failure, msg, attempt, kind>>
  BY <1>1 DEF Answer, hostVars
<1>2. CASE failure # None
  BY <1>0, <1>2, StageKept
<1>3. CASE failure = None
  <2>1. PICK c0 \in {kind[p], "BUSY", "ERROR"}, l0 \in Nat, k \in {0, 1}, d \in Nat :
            /\ Stream(p, c0, l0, k, d)
            /\ Processing(p, k, d) \/ Responding(p, c0, l0, k, d)
    BY <1>3 DEF Stage
  <2>2. d = 0 /\ k = Len(pending) /\ inbox = <<Request(p)>>
    BY <1>0, <2>1 DEF Processing, Responding
  <2>3. Head(inbox).n = attempt[p] /\ Head(inbox).cmd = kind[p]
    BY <2>2 DEF Request
  <2>4. attempt[p] \in Nat
    BY DEF TypeOK
  <2>5. /\ Len(Response(attempt[p], c, l)) = l
        /\ \A i \in 1..l : Response(attempt[p], c, l)[i] = Packet(attempt[p], c, i - 1, l)
    BY <2>4, ResponseFacts
  <2>6. Len(sending') = l /\ \A i \in 1..l : sending'[i] = Packet(attempt[p], c, i - 1, l)
    BY <1>0, <2>3, <2>5
  <2>7. msg[p] = None /\ \A i \in 1..Len(pending) : IsKeepalive(pending[i])
    BY <2>1, <2>2 DEF Stream
  <2>8. Stream(p, c, l, k, 0)'
    <3>1. k <= Len(pending) /\ 0 + Len(pending) - k <= l /\ 0 < l
      BY <2>2
    <3>2. \A i \in 1..Len(pending) : i <= k
      BY <2>2
    <3> QED BY <1>0, <2>7, <3>1, <3>2 DEF Stream
  <2>9. inbox' = <<>>
    BY <1>0, <2>2
  <2>10. Responding(p, c, l, k, 0)'
    <3>1. 0 + Len(pending') - k = 0
      BY <1>0, <2>2
    <3>2. attempt'[p] = attempt[p] /\ ~canceling'
      BY <1>0
    <3>3. \A i \in 1..Len(sending') : sending'[i] = Packet(attempt[p], c, 0 + Len(pending') - k + i - 1, l)
      BY <2>6, <3>1
    <3>4. 0 + Len(pending') - k + Len(sending') = l
      BY <2>6, <3>1
    <3> QED BY <2>9, <3>2, <3>3, <3>4 DEF Responding
  <2>11. c \in {kind'[p], "BUSY", "ERROR"} /\ l \in Nat /\ 0 \in Nat
    BY <1>0, <2>3
  <2> QED BY <2>8, <2>10, <2>11 DEF Stage
<1> QED BY <1>2, <1>3

\* A packet moves from the authenticator to the channel.
LEMMA SendStage ==
    ASSUME NEW p \in Callers, TypeOK, Stage(p), SendPacket
    PROVE  Stage(p)'
<1>0. /\ sending # <<>> /\ sending' = Tail(sending)
      /\ failure = None => pending' = Append(pending, Head(sending))
      /\ failure # None => UNCHANGED pending
      /\ UNCHANGED <<inbox, canceling, failure, msg, attempt, kind>>
  BY DEF SendPacket, Deliver, hostVars
<1>1. CASE failure # None
  BY <1>0, <1>1, StageKept
<1>2. CASE failure = None
  <2>1. PICK c \in {kind[p], "BUSY", "ERROR"}, l \in Nat, k \in {0, 1}, d \in Nat :
            /\ Stream(p, c, l, k, d)
            /\ Processing(p, k, d) \/ Responding(p, c, l, k, d)
    BY <1>2 DEF Stage
  <2>2. sending \in Seq(Packets) /\ pending \in Seq(Packets)
    BY DEF TypeOK
  <2>3. /\ Head(sending) \in Packets /\ Head(sending) = sending[1]
        /\ Len(sending) \in Nat \ {0} /\ Len(sending') = Len(sending) - 1
        /\ \A i \in 1..Len(sending') : sending'[i] = sending[i + 1] /\ i + 1 \in 1..Len(sending)
    BY <1>0, <2>2, TailFacts
  <2>4. /\ Len(pending') = Len(pending) + 1 /\ pending'[Len(pending) + 1] = sending[1]
        /\ \A i \in 1..Len(pending) : pending'[i] = pending[i]
        /\ Len(pending) \in Nat
    <3> DEFINE x == Head(sending)
    <3>1. pending' = Append(pending, x) /\ x \in Packets /\ x = sending[1]
      BY <1>0, <1>2, <2>3
    <3> HIDE DEF x
    <3>2. /\ Len(Append(pending, x)) = Len(pending) + 1 /\ Append(pending, x)[Len(pending) + 1] = x
          /\ \A i \in 1..Len(pending) : Append(pending, x)[i] = pending[i]
      BY <2>2, <3>1, AppendFacts
    <3> QED BY <2>2, <3>1, <3>2
  <2>5. /\ Len(pending) \in Nat /\ Len(pending') = Len(pending) + 1
        /\ Len(sending) \in Nat \ {0} /\ Len(sending') = Len(sending) - 1
    BY <2>3, <2>4
  <2>6. /\ inbox = <<>> /\ ~canceling
        /\ \A i \in 1..Len(sending) : sending[i] = Packet(attempt[p], c, d + Len(pending) - k + i - 1, l)
        /\ d + Len(pending) - k + Len(sending) = l
    BY <1>0, <2>1 DEF Processing, Responding
  <2>7. /\ k <= Len(pending) /\ d < l
        /\ (d = 0 /\ msg[p] = None) \/ (d > 0 /\ k = 0 /\ msg[p] = [n |-> attempt[p], cmd |-> c, next |-> d])
    BY <2>1 DEF Stream
  <2>8. sending[1] = Packet(attempt[p], c, d + Len(pending) - k, l)
    <3>1. 1 \in 1..Len(sending) /\ d + Len(pending) - k + 1 - 1 = d + Len(pending) - k
      BY <2>5
    <3> QED BY <2>6, <3>1
  <2>9. \A i \in 1..Len(pending') :
           IF i <= k THEN IsKeepalive(pending'[i])
                     ELSE pending'[i] = Packet(attempt[p], c, d + i - k - 1, l)
    <3> SUFFICES ASSUME NEW i \in 1..Len(pending')
                 PROVE  IF i <= k THEN IsKeepalive(pending'[i])
                                  ELSE pending'[i] = Packet(attempt[p], c, d + i - k - 1, l)
      OBVIOUS
    <3>1. CASE i = Len(pending) + 1
      <4>1. ~(i <= k) /\ d + i - k - 1 = d + Len(pending) - k
        BY <2>5, <2>7, <3>1
      <4> QED BY <2>4, <2>8, <3>1, <4>1
    <3>2. CASE i \in 1..Len(pending)
      BY <2>1, <2>4, <3>2 DEF Stream
    <3> QED BY <2>5, <3>1, <3>2
  <2>10. \A i \in 1..Len(sending') :
            sending'[i] = Packet(attempt[p], c, d + Len(pending') - k + i - 1, l)
    <3> SUFFICES ASSUME NEW i \in 1..Len(sending')
                 PROVE  sending'[i] = Packet(attempt[p], c, d + Len(pending') - k + i - 1, l)
      OBVIOUS
    <3>1. sending'[i] = sending[i + 1] /\ i + 1 \in 1..Len(sending) /\ i \in Nat
      BY <2>3
    <3>2. d + Len(pending) - k + (i + 1) - 1 = d + Len(pending') - k + i - 1
      BY <2>5, <3>1
    <3> QED BY <2>6, <3>1, <3>2
  <2>11. k <= Len(pending') /\ d + Len(pending') - k <= l /\ d + Len(pending') - k + Len(sending') = l
    <3>1. d + Len(pending) - k + Len(sending) = l /\ k <= Len(pending)
      BY <2>6, <2>7
    <3>2. k <= Len(pending')
      BY <2>5, <3>1
    <3>3. d + Len(pending') - k + Len(sending') = l
      BY <2>5, <3>1
    <3>4. d + Len(pending') - k <= l
      BY <2>5, <3>3
    <3> QED BY <3>2, <3>3, <3>4
  <2>12. attempt'[p] = attempt[p] /\ msg'[p] = msg[p] /\ kind'[p] = kind[p] /\ inbox' = inbox /\ canceling' = canceling
    BY <1>0
  <2>13. Stream(p, c, l, k, d)'
    BY <2>7, <2>9, <2>11, <2>12 DEF Stream
  <2>14. Responding(p, c, l, k, d)'
    BY <2>6, <2>10, <2>11, <2>12 DEF Responding
  <2> QED BY <2>12, <2>13, <2>14 DEF Stage
<1> QED BY <1>1, <1>2

\* Reading a packet advances the exchange; its last packet leaves nothing on
\* the channel, and the caller returns the response to its own request, or an
\* error, or retries.
LEMMA ReadStage ==
    ASSUME NEW p \in Callers, TypeOK, Stage(p), ReadPacket(p)
    PROVE  \/ ReadOn(p) /\ Stage(p)' /\ UNCHANGED <<mu, result>>
           \/ /\ pending' = <<>> /\ (failure = None => inbox = <<>> /\ sending = <<>> /\ ~canceling)
              /\ \/ Goto(p, "retry") /\ UNCHANGED <<mu, result>>
                 \/ \E r \in Results : /\ Return(p, r) /\ r.end # "framing"
                                       /\ r.end = "response" => r.n = attempt[p]
<1> DEFINE f == Head(pending)
           g == IF f.seq = 0 THEN f ELSE msg[p]
           torn == msg[p] # None
           Reads == ReadOn(p) /\ Stage(p)' /\ UNCHANGED <<mu, result>>
           Ends == \/ Goto(p, "retry") /\ UNCHANGED <<mu, result>>
                   \/ \E r \in Results : /\ Return(p, r) /\ r.end # "framing"
                                         /\ r.end = "response" => r.n = attempt[p]
<1>0. /\ pending # <<>> /\ pending' = Tail(pending)
      /\ UNCHANGED <<inbox, sending, canceling, attempt, kind, failure>>
  BY DEF ReadPacket, devVars
<1>1. ~((f.seq = 0) = torn \/ (torn /\ f.seq # msg[p].next)) =>
         IF f.last THEN Complete(p, g)
         ELSE /\ msg' = [msg EXCEPT ![p] = [n |-> g.n, cmd |-> g.cmd, next |-> f.seq + 1]]
              /\ ReadOn(p) /\ UNCHANGED <<mu, activeCBOR, result>>
  BY DEF ReadPacket, Torn
<1>2. /\ pending \in Seq(Packets) /\ sending \in Seq(Packets)
      /\ msg \in [Callers -> Messages \union {None}] /\ canceling \in BOOLEAN
  BY DEF TypeOK
<1>3. /\ f \in Packets /\ f = pending[1] /\ Len(pending) \in Nat \ {0} /\ Len(pending') = Len(pending) - 1
      /\ \A i \in 1..Len(pending') : pending'[i] = pending[i + 1] /\ i + 1 \in 1..Len(pending)
      /\ Len(sending) \in Nat
  BY <1>0, <1>2, TailFacts
<1>4. attempt[p] \in Nat /\ kind[p] \in {"CBOR", "OTHER"}
  BY TransportAssumption DEF TypeOK
<1> HIDE DEF f, g, Reads, Ends
\* A keepalive outside a message is skipped.
<1>5. ASSUME msg[p] = None, IsKeepalive(f) PROVE msg'[p] = None /\ ReadOn(p) /\ UNCHANGED <<mu, result>>
  <2>1. g = f /\ f.cmd = "KEEPALIVE" /\ f.seq = 0 /\ f.last
    BY <1>5 DEF g, IsKeepalive
  <2>2. Complete(p, g)
    BY <1>1, <1>5, <2>1
  <2>3. msg' = [msg EXCEPT ![p] = None] /\ ReadOn(p) /\ UNCHANGED <<mu, activeCBOR, result>>
    BY <1>4, <2>1, <2>2 DEF Complete
  <2> QED BY <1>2, <2>3
<1>6. PICK c \in {kind[p], "BUSY", "ERROR"}, l \in Nat, k \in {0, 1}, d \in Nat :
          /\ Stream(p, c, l, k, d)
          /\ failure = None => Processing(p, k, d) \/ Responding(p, c, l, k, d)
  BY DEF Stage
<1>7. /\ attempt'[p] = attempt[p] /\ kind'[p] = kind[p] /\ Request(p)' = Request(p)
      /\ c \in Commands /\ c # "KEEPALIVE"
  BY <1>0, <1>4 DEF Request, Commands
<1>8. /\ k <= Len(pending) /\ d + Len(pending) - k <= l /\ d < l
      /\ (d = 0 /\ msg[p] = None) \/ (d > 0 /\ k = 0 /\ msg[p] = [n |-> attempt[p], cmd |-> c, next |-> d])
  BY <1>6 DEF Stream
<1>9. \A i \in 1..Len(pending) :
         IF i <= k THEN IsKeepalive(pending[i])
                   ELSE pending[i] = Packet(attempt[p], c, d + i - k - 1, l)
  BY <1>6 DEF Stream
<1>10. ASSUME failure = None, ~Processing(p, k, d)
       PROVE  /\ inbox = <<>> /\ ~canceling /\ d + Len(pending) - k + Len(sending) = l
              /\ \A i \in 1..Len(sending) :
                    sending[i] = Packet(attempt[p], c, d + Len(pending) - k + i - 1, l)
  BY <1>6, <1>10 DEF Responding
\* The next packet is expected to be packet d1 of the message, behind k1 keepalives.
<1>11. ASSUME NEW d1 \in Nat, d1 = d - k + 1, d1 < l,
              \/ d1 = 0 /\ msg'[p] = None
              \/ d1 > 0 /\ msg'[p] = [n |-> attempt[p], cmd |-> c, next |-> d1],
              Processing(p, k, d) => d1 = 0
       PROVE  Stage(p)'
  <2>1. \A i \in 1..Len(pending') : pending'[i] = Packet(attempt[p], c, d1 + i - 0 - 1, l)
    <3> SUFFICES ASSUME NEW i \in 1..Len(pending')
                 PROVE  pending'[i] = Packet(attempt[p], c, d1 + i - 0 - 1, l)
      OBVIOUS
    <3>1. pending'[i] = pending[i + 1] /\ i + 1 \in 1..Len(pending) /\ i \in Nat /\ i > 0
      BY <1>3
    <3>2. pending[i + 1] = Packet(attempt[p], c, d + (i + 1) - k - 1, l)
      BY <1>9, <3>1
    <3>3. d + (i + 1) - k - 1 = d1 + i - 0 - 1
      BY <1>11, <3>1
    <3> QED BY <3>1, <3>2, <3>3
  <2>2. \A i \in 1..Len(pending') : ~(i <= 0)
    OBVIOUS
  <2>3. d + Len(pending) - k = d1 + Len(pending') - 0 /\ 0 <= Len(pending')
    <3>1. Len(pending) \in Nat \ {0} /\ Len(pending') = Len(pending) - 1
      BY <1>3
    <3>2. d1 = d - k + 1
      BY <1>11
    <3> QED BY <3>1, <3>2
  <2>4. d1 + Len(pending') - 0 <= l
    BY <1>8, <2>3
  <2>5. Stream(p, c, l, 0, d1)'
    BY <1>7, <1>11, <2>1, <2>2, <2>3, <2>4 DEF Stream
  <2>6. ASSUME Processing(p, k, d) PROVE Processing(p, 0, d1)'
    <3>1. d1 = 0 /\ inbox = <<Request(p)>> /\ sending = <<>> /\ d = 0 /\ k = Len(pending)
      BY <1>11, <2>6 DEF Processing
    <3>2. Len(pending') = 0
      BY <1>3, <1>11, <3>1
    <3> QED BY <1>0, <1>7, <3>1, <3>2 DEF Processing
  <2>7. ASSUME failure = None, ~Processing(p, k, d) PROVE Responding(p, c, l, 0, d1)'
    <3>1. \A i \in 1..Len(sending) : sending[i] = Packet(attempt[p], c, d1 + Len(pending') - 0 + i - 1, l)
      BY <1>10, <2>3, <2>7
    <3>2. d1 + Len(pending') - 0 + Len(sending) = l
      BY <1>10, <2>3, <2>7
    <3> QED BY <1>0, <1>7, <1>10, <2>7, <3>1, <3>2 DEF Responding
  <2>8. failure' = None => (Processing(p, 0, d1) \/ Responding(p, c, l, 0, d1))'
    BY <1>0, <2>6, <2>7
  <2>9. c \in {kind'[p], "BUSY", "ERROR"} /\ 0 \in {0, 1}
    BY <1>7
  <2> QED BY <2>5, <2>8, <2>9 DEF Stage
<1>12. CASE k = 1
  <2>1. IsKeepalive(f) /\ d = 0 /\ msg[p] = None
    BY <1>3, <1>8, <1>9, <1>12
  <2>2. msg'[p] = None /\ ReadOn(p) /\ UNCHANGED <<mu, result>>
    BY <1>5, <2>1
  <2>3. 0 = d - k + 1 /\ 0 < l
    BY <1>8, <1>12, <2>1
  <2> QED BY <1>11, <2>2, <2>3
<1>13. CASE k = 0
  <2>1. f = Packet(attempt[p], c, d, l)
    <3>1. 1 \in 1..Len(pending) /\ ~(1 <= k) /\ d + 1 - k - 1 = d
      BY <1>3, <1>13
    <3> QED BY <1>3, <1>9, <3>1
  <2>2. f.n = attempt[p] /\ f.cmd = c /\ f.seq = d /\ (f.last <=> d = l - 1)
    BY <1>4, <1>7, <2>1, PacketFacts
  <2>3. g.n = attempt[p] /\ g.cmd = c
    BY <1>8, <2>2 DEF g
  <2>4. ~((f.seq = 0) = torn \/ (torn /\ f.seq # msg[p].next))
    <3>0. [n |-> attempt[p], cmd |-> c, next |-> d] # None
      <4>1. [n |-> attempt[p], cmd |-> c, next |-> d] \in Messages
        BY <1>4, <1>7 DEF Messages
      <4> QED BY <4>1, NoneAssumption
    <3>1. CASE d = 0
      BY <1>8, <2>2, <3>1
    <3>2. CASE d > 0
      BY <1>8, <2>2, <3>0, <3>2
    <3> QED BY <3>1, <3>2
  <2>5. ~Processing(p, k, d)
    BY <1>3, <1>13 DEF Processing
  <2>6. CASE ~f.last
    <3>1. /\ msg' = [msg EXCEPT ![p] = [n |-> g.n, cmd |-> g.cmd, next |-> f.seq + 1]]
          /\ ReadOn(p) /\ UNCHANGED <<mu, activeCBOR, result>>
      BY <1>1, <2>4, <2>6
    <3>2. msg'[p] = [n |-> attempt[p], cmd |-> c, next |-> d + 1]
      BY <1>2, <2>2, <2>3, <3>1
    <3>3. d + 1 = d - k + 1 /\ d + 1 < l /\ d + 1 > 0 /\ d + 1 \in Nat
      BY <1>8, <1>13, <2>2, <2>6
    <3> QED BY <1>11, <2>5, <3>1, <3>2, <3>3
  <2>7. CASE f.last
    <3>1. Complete(p, g)
      BY <1>1, <2>4, <2>7
    <3>2. Len(pending') = 0 /\ (failure = None => Len(sending) = 0)
      <4>1. d = l - 1
        BY <2>2, <2>7
      <4>2. Len(pending) <= 1
        BY <1>8, <1>13, <1>3, <4>1
      <4>3. failure = None => d + Len(pending) - k + Len(sending) = l
        BY <1>10, <2>5
      <4> QED BY <1>3, <1>13, <4>1, <4>2, <4>3
    <3>3. pending' = <<>> /\ (failure = None => sending = <<>>)
      <4>1. pending' \in Seq(Packets)
        BY <1>0, <1>2
      <4> QED BY <1>2, <3>2, <4>1
    <3>4. Ends
      <4>1. CASE pc[p] = "drain"
        <5>1. Return(p, Ended("ctx"))
          BY <1>7, <2>3, <3>1, <4>1 DEF Complete
        <5> QED BY <5>1, EndedFacts DEF Ends, Outcomes
      <4>2. CASE pc[p] # "drain" /\ c = "BUSY"
        <5>1. Goto(p, "retry") /\ UNCHANGED <<mu, activeCBOR, result>>
          BY <1>4, <2>3, <3>1, <4>2 DEF Complete
        <5> QED BY <5>1 DEF Ends
      <4>3. CASE pc[p] # "drain" /\ c = "ERROR"
        <5>1. Return(p, Ended("error"))
          BY <1>4, <2>3, <3>1, <4>3 DEF Complete
        <5> QED BY <5>1, EndedFacts DEF Ends, Outcomes
      <4>4. CASE pc[p] # "drain" /\ c = kind[p]
        <5>1. Return(p, [end |-> "response", n |-> attempt[p]])
          BY <1>4, <2>3, <3>1, <4>4 DEF Complete
        <5> QED BY <1>4, <5>1, EndedFacts DEF Ends
      <4> QED BY <4>1, <4>2, <4>3, <4>4
    <3>5. failure = None => inbox = <<>> /\ sending = <<>> /\ ~canceling
      BY <1>10, <2>5, <3>3
    <3> QED BY <3>3, <3>4, <3>5 DEF Ends
  <2> QED BY <2>6, <2>7
<1> QED BY <1>12, <1>13

\* A request completed on a clean channel is the one the authenticator
\* processes, and nothing of its response is read yet.
LEMMA RequestStage ==
    ASSUME NEW p \in Callers, TypeOK, Holder, Assembling, CleanStart, ~abandoned, WritePacket(p),
           ~(kind[p] = "CBOR" /\ half = None)
    PROVE  Stage(p)'
<1>0. /\ attempt \in [Callers -> Nat] /\ inbox \in Seq(Requests) /\ pending \in Seq(Packets)
      /\ pc[p] = "write" /\ open
  BY DEF TypeOK, WritePacket
<1>1. Clean
  <2>1. \A q \in Callers : pc[q] \notin Exchanging
    BY <1>0 DEF Holder, Exchanging
  <2> QED BY <1>0, <2>1 DEF CleanStart
<1>2. /\ attempt' = [attempt EXCEPT ![p] = attempts']
      /\ inbox' = Append(inbox, [n |-> attempts', cmd |-> kind[p]])
      /\ UNCHANGED <<kind, msg, pending, failure, sending, canceling>>
  BY DEF WritePacket
<1>3. attempt'[p] = attempts' /\ kind'[p] = kind[p] /\ msg'[p] = None
  <2>1. msg[p] = None
    BY <1>0 DEF Assembling
  <2> QED BY <1>0, <1>2, <2>1
<1>4. pending' = <<>> /\ Len(pending') = 0
  BY <1>1, <1>2 DEF Clean
<1>5. Stream(p, kind[p], 1, 0, 0)'
  BY <1>3, <1>4 DEF Stream
<1>6. ASSUME failure' = None PROVE Processing(p, 0, 0)'
  <2>1. inbox = <<>> /\ sending' = <<>>
    BY <1>1, <1>2, <1>6 DEF Clean
  <2>2. Request(p)' = [n |-> attempts', cmd |-> kind[p]]
    BY <1>3 DEF Request
  <2>3. inbox' = <<Request(p)'>>
    BY <1>2, <2>1, <2>2
  <2> QED BY <1>4, <2>1, <2>3 DEF Processing
<1>7. kind[p] \in {kind'[p], "BUSY", "ERROR"} /\ 1 \in Nat /\ 0 \in {0, 1} /\ 0 \in Nat
  BY <1>3
<1> QED BY <1>2, <1>3, <1>5, <1>6, <1>7 DEF Stage

-----------------------------------------------------------------------------
(* The channel between two commands, results and cancellation. *)

\* An abandoned exchange stays on record, and so does the channel's failure.
LEMMA Recorded ==
    ASSUME TypeOK, [Next]_vars
    PROVE  (abandoned => abandoned') /\ (failure # None => failure' # None)
<1> USE TransportAssumption DEF hostVars, CloseDevice
<1>0. abandoned \in BOOLEAN
  BY DEF TypeOK
<1>1. ASSUME NEW p \in Callers, NEW k \in Kinds, Call(p, k) PROVE UNCHANGED <<abandoned, failure>>
  BY <1>1 DEF Call
<1>2. ASSUME NEW p \in Callers, \/ LockMu(p) \/ LockWriteMu(p) \/ WritePacket(p) \/ Wait(p)
                                \/ ReadPacket(p) \/ Retry(p) \/ RetryCanceled(p)
      PROVE  UNCHANGED <<abandoned, failure>>
  BY <1>2 DEF LockMu, LockWriteMu, WritePacket, Wait, ReadPacket, Retry, RetryCanceled
<1>3. ASSUME NEW p \in Callers, WriteFails(p) \/ ReadFails(p)
      PROVE  UNCHANGED abandoned /\ (failure # None => failure' # None)
  BY <1>3 DEF WriteFails, ReadFails
<1>4. ASSUME NEW p \in Callers, ReadCanceled(p) PROVE (abandoned => abandoned') /\ UNCHANGED failure
  BY <1>4 DEF ReadCanceled
<1>5. ASSUME NEW p \in Procs, ContextDone(p) \/ LockCancel(p) \/ WriteCancel(p)
      PROVE  UNCHANGED <<abandoned, failure>>
  BY <1>5 DEF ContextDone, LockCancel, WriteCancel
<1>6. ASSUME NEW p \in Procs, WriteCancelFails(p)
      PROVE  UNCHANGED abandoned /\ (failure # None => failure' # None)
  BY <1>6 DEF WriteCancelFails
<1>7. CloseCall \/ CloseTransport => UNCHANGED abandoned /\ (failure # None => failure' # None)
  BY DEF CloseCall, CloseTransport
<1>8. Environment => UNCHANGED abandoned /\ (failure # None => failure' # None)
  BY DEF Environment, Keepalive, SendPacket, Unplug, Answering, Answer
<1>9. UNCHANGED vars => UNCHANGED <<abandoned, failure>>
  BY DEF vars
<1> QED BY <1>1, <1>2, <1>3, <1>4, <1>5, <1>6, <1>7, <1>8, <1>9, Steps

\* A caller inside a command is alone inside.
LEMMA Alone ==
    ASSUME Holder, NEW p \in Callers, NEW q \in Callers,
           pc[p] \notin {"idle", "lock"}, pc[q] \notin {"idle", "lock"}
    PROVE  p = q
  BY DEF Holder

\* A command that does not fail or get abandoned leaves the channel as clean as
\* it found it.
LEMMA CleanStep ==
    TypeOK /\ Exchange /\ CleanStart /\ [Next]_vars => CleanStart'
<1> SUFFICES ASSUME TypeOK, Exchange, CleanStart, [Next]_vars PROVE CleanStart'
  OBVIOUS
<1>0. /\ pc \in [Procs -> {"idle", "lock", "writeLock", "write", "read", "wait", "retry", "drain",
                           "cancelLock", "cancelWrite", "close", "closed"}]
      /\ canceling \in BOOLEAN
  BY DEF TypeOK
<1>r. abandoned => abandoned'
  BY Recorded
<1> USE <1>0, TransportAssumption DEF Procs, Goto, hostVars, devVars, Exchanging
<1>1. ASSUME open' => open, UNCHANGED <<pending, failure, inbox, sending>>,
             canceling' => canceling \/ inbox # <<>>,
             \A q \in Callers : pc[q] \in Exchanging => pc'[q] \in Exchanging
      PROVE  CleanStart'
  <2>1. Clean => Clean'
    BY <1>1 DEF Clean
  <2> QED BY <1>1, <1>r, <2>1 DEF CleanStart
<1>2. ASSUME NEW q \in Procs, NEW l, pc' = [pc EXCEPT ![q] = l],
             q \in Callers => pc[q] \notin Exchanging \/ l \in Exchanging,
             UNCHANGED <<open, pending, failure, inbox, sending, canceling>>
      PROVE  CleanStart'
  BY <1>1, <1>2
<1>3. ASSUME NEW q \in Callers, NEW l \in Exchanging, pc' = [pc EXCEPT ![q] = l] PROVE CleanStart'
  BY <1>3 DEF CleanStart
<1>4. ASSUME CloseDevice PROVE CleanStart'
  BY <1>4 DEF CloseDevice, CleanStart
<1>5. ASSUME NEW q \in Callers, NEW k \in Kinds, Call(q, k) PROVE CleanStart'
  BY <1>2, <1>5 DEF Call
<1>6. ASSUME NEW q \in Callers, LockMu(q) \/ LockWriteMu(q) \/ Retry(q) \/ RetryCanceled(q)
      PROVE  CleanStart'
  <2>1. /\ pc[q] \in {"lock", "writeLock", "retry"} /\ \E l : pc' = [pc EXCEPT ![q] = l]
        /\ UNCHANGED <<open, pending, failure, inbox, sending, canceling>>
    BY <1>6 DEF LockMu, LockWriteMu, Retry, RetryCanceled, Return
  <2> QED BY <1>2, <2>1
<1>7. ASSUME NEW q \in Callers, WritePacket(q) PROVE CleanStart'
  <2>1. CASE kind[q] = "CBOR" /\ half = None
    BY <1>1, <1>7, <2>1 DEF WritePacket
  <2>2. CASE ~(kind[q] = "CBOR" /\ half = None)
    BY <1>3, <1>7, <2>2 DEF WritePacket
  <2> QED BY <2>1, <2>2
<1>8. ASSUME NEW q \in Callers, WriteFails(q) \/ ReadFails(q) PROVE CleanStart'
  BY <1>4, <1>8 DEF WriteFails, ReadFails
<1>9. ASSUME NEW q \in Callers, Wait(q) PROVE CleanStart'
  BY <1>3, <1>9 DEF Wait
<1>10. ASSUME NEW q \in Callers, ReadPacket(q) PROVE CleanStart'
  <2>1. pc[q] \in Exchanging /\ UNCHANGED <<failure, inbox, sending, canceling, abandoned>>
    BY <1>10 DEF ReadPacket, Reading
  <2>2. CASE abandoned
    BY <2>1, <2>2 DEF CleanStart
  <2>3. CASE ~abandoned
    <3>1. Stage(q)
      BY <2>1, <2>3 DEF Exchange
    <3>2. CASE ReadOn(q)
      BY <1>3, <3>2 DEF ReadOn
    <3>3. CASE pending' = <<>> /\ (failure = None => inbox = <<>> /\ sending = <<>> /\ ~canceling)
      BY <2>1, <3>3 DEF CleanStart, Clean
    <3> QED BY <1>10, <3>1, <3>2, <3>3, ReadStage
  <2> QED BY <2>2, <2>3
<1>11. ASSUME NEW q \in Callers, ReadCanceled(q) PROVE CleanStart'
  <2>1. pc' = [pc EXCEPT ![q] = "cancelLock"] \/ abandoned'
    BY <1>11 DEF ReadCanceled
  <2> QED BY <1>3, <2>1 DEF CleanStart
<1>12. ASSUME NEW q \in Procs, ContextDone(q) PROVE CleanStart'
  BY <1>1, <1>12 DEF ContextDone
<1>13. ASSUME NEW q \in Procs, LockCancel(q) PROVE CleanStart'
  <2>1. \/ pc' = [pc EXCEPT ![q] = "cancelWrite"]
        \/ q = Closer /\ pc' = [pc EXCEPT ![q] = "close"]
    BY <1>13 DEF LockCancel
  <2>2. UNCHANGED <<open, pending, failure, inbox, sending, canceling>>
    BY <1>13 DEF LockCancel
  <2> QED BY <1>2, <2>1, <2>2
<1>14. ASSUME NEW q \in Procs, WriteCancel(q) PROVE CleanStart'
  <2>1. \/ pc' = [pc EXCEPT ![q] = "drain"]
        \/ q = Closer /\ pc' = [pc EXCEPT ![q] = "close"]
    BY <1>14 DEF WriteCancel
  <2>2. UNCHANGED <<open, pending, failure, inbox, sending>> /\ (canceling' => canceling \/ inbox # <<>>)
    BY <1>14 DEF WriteCancel
  <2>3. \A p \in Callers : pc[p] \in Exchanging => pc'[p] \in Exchanging
    BY <2>1
  <2> QED BY <1>1, <2>2, <2>3
<1>15. ASSUME NEW q \in Procs, WriteCancelFails(q) PROVE CleanStart'
  BY <1>4, <1>15 DEF WriteCancelFails
<1>16. CASE CloseCall
  BY <1>2, <1>16 DEF CloseCall
<1>17. CASE CloseTransport
  BY <1>4, <1>17 DEF CloseTransport
<1>18. CASE Environment
  <2>1. UNCHANGED <<pc, open, abandoned>>
    BY <1>18, EnvironmentFrame
  <2>2. Clean => Clean'
    <3>1. CASE Keepalive
      BY <3>1 DEF Keepalive, Clean
    <3>2. CASE SendPacket
      BY <3>2 DEF SendPacket, Deliver, Clean
    <3>3. CASE Unplug
      BY <3>3 DEF Unplug, Clean
    <3>4. CASE Answering
      <4>1. inbox # <<>> /\ UNCHANGED <<pending, failure>>
        BY <3>4 DEF Answering, Answer
      <4> QED BY <4>1 DEF Clean
    <3> QED BY <1>18, <3>1, <3>2, <3>3, <3>4 DEF Environment
  <2> QED BY <2>1, <2>2 DEF CleanStart
<1>19. CASE UNCHANGED vars
  BY <1>1, <1>19 DEF vars
<1> QED
  BY <1>5, <1>6, <1>7, <1>8, <1>9, <1>10, <1>11, <1>12, <1>13, <1>14, <1>15, <1>16, <1>17,
     <1>18, <1>19, Steps

\* An exchange advances from its request to its last packet, whatever other
\* callers and Close do meanwhile.
LEMMA ExchangeStep ==
    TypeOK /\ Holder /\ Assembling /\ CleanStart /\ Exchange /\ [Next]_vars => Exchange'
<1> SUFFICES ASSUME TypeOK, Holder, Assembling, CleanStart, Exchange, [Next]_vars, ~abandoned',
                    NEW p \in Callers, pc'[p] \in Exchanging
             PROVE  Stage(p)'
  BY DEF Exchange
<1> DEFINE Goal == Stage(p)'
<1>0. /\ pc \in [Procs -> {"idle", "lock", "writeLock", "write", "read", "wait", "retry", "drain",
                           "cancelLock", "cancelWrite", "close", "closed"}]
      /\ kind \in [Callers -> Kinds] /\ attempt \in [Callers -> Nat]
      /\ msg \in [Callers -> Messages \union {None}] /\ failure \in {None, "closed", "io"}
  BY DEF TypeOK
<1>r. ~abandoned
  BY Recorded
<1>1. ASSUME pc[p] \in Exchanging PROVE Stage(p)
  BY <1>1, <1>r DEF Exchange
<1>2. ASSUME pc[p] \in Exchanging, UNCHANGED pending,
             msg'[p] = msg[p], attempt'[p] = attempt[p], kind'[p] = kind[p],
             failure' = None => /\ failure = None /\ UNCHANGED <<inbox, sending>>
                                /\ canceling' => canceling \/ inbox # <<>>
      PROVE  Goal
  BY <1>1, <1>2, StageKept
<1> USE <1>0, TransportAssumption DEF Procs, Goto, hostVars, devVars, Exchanging
<1> HIDE DEF Goal
<1>3. ASSUME NEW q \in Callers, pc[q] \notin Exchanging \union {"idle", "lock"},
             \E l : pc' = [pc EXCEPT ![q] = l]
      PROVE  q = p
  <2>1. q # p => pc[p] \in Exchanging
    BY <1>3
  <2> QED BY <1>3, <2>1, Alone
<1>4. ASSUME NEW q \in Callers, NEW k \in Kinds, Call(q, k) PROVE Goal
  <2>1. q # p /\ pc[p] \in Exchanging
    BY <1>4 DEF Call
  <2>2. /\ UNCHANGED <<pending, msg, failure, inbox, sending, canceling>>
        /\ attempt'[p] = attempt[p] /\ kind'[p] = kind[p]
    BY <1>4, <2>1 DEF Call
  <2> QED BY <1>2, <2>1, <2>2
<1>5. ASSUME NEW q \in Callers, LockMu(q) PROVE Goal
  <2>1. mu = None /\ pc[q] = "lock" /\ \E l \in {"idle", "writeLock", "write"} : pc' = [pc EXCEPT ![q] = l]
    BY <1>5 DEF LockMu, Return
  <2>2. pc[p] \in Exchanging
    BY <2>1
  <2>3. mu = p
    BY <2>2 DEF Holder
  <2> QED BY <2>1, <2>3
<1>6. ASSUME NEW q \in Callers, LockWriteMu(q) \/ WriteFails(q) \/ Retry(q) \/ RetryCanceled(q)
      PROVE  Goal
  <2>1. /\ pc[q] \in {"writeLock", "write", "retry"}
        /\ \E l \in {"idle", "writeLock", "write"} : pc' = [pc EXCEPT ![q] = l]
    BY <1>6 DEF LockWriteMu, WriteFails, Retry, RetryCanceled, Return
  <2>2. q = p
    BY <1>3, <2>1
  <2> QED BY <2>1, <2>2
<1>7. ASSUME NEW q \in Callers, WritePacket(q) PROVE Goal
  <2>1. pc[q] = "write"
    BY <1>7 DEF WritePacket
  <2>2. CASE kind[q] = "CBOR" /\ half = None
    <3>1. UNCHANGED pc
      BY <1>7, <2>2 DEF WritePacket
    <3> QED BY <2>1, <3>1, Alone
  <2>3. CASE ~(kind[q] = "CBOR" /\ half = None)
    <3>1. pc' = [pc EXCEPT ![q] = "read"]
      BY <1>7, <2>3 DEF WritePacket
    <3>2. q = p
      BY <1>3, <2>1, <3>1
    <3> QED BY <1>7, <1>r, <2>3, <3>2, RequestStage DEF Goal
  <2> QED BY <2>2, <2>3
<1>8. ASSUME NEW q \in Callers, Wait(q) PROVE Goal
  <2>1. /\ pc[q] = "read" /\ pc' = [pc EXCEPT ![q] = "wait"]
        /\ UNCHANGED <<pending, msg, failure, inbox, sending, canceling, attempt, kind>>
    BY <1>8 DEF Wait
  <2>2. pc[p] \in Exchanging
    BY <2>1
  <2> QED BY <1>2, <2>1, <2>2
<1>9. ASSUME NEW q \in Callers, ReadPacket(q) PROVE Goal
  <2>1. pc[q] \in {"read", "wait", "drain"}
    BY <1>9 DEF ReadPacket, Reading
  <2>2. \E l : pc' = [pc EXCEPT ![q] = l]
    BY <1>9, ReadOutcome DEF Return
  <2>3. q = p
    <3>1. q # p => pc[p] \in Exchanging
      BY <2>2
    <3> QED BY <2>1, <3>1, Alone
  <2>4. pc'[p] # "retry" /\ pc'[p] # "idle"
    OBVIOUS
  <2>5. ~Goto(p, "retry") /\ ~\E r \in Results : Return(p, r)
    BY <2>4 DEF Return
  <2> QED BY <1>1, <1>9, <2>1, <2>3, <2>5, ReadStage DEF Goal
<1>10. ASSUME NEW q \in Callers, ReadFails(q) PROVE Goal
  <2>1. pc[q] \in {"read", "wait", "drain"} /\ pc' = [pc EXCEPT ![q] = "idle"]
    BY <1>10 DEF ReadFails, Reading, Return
  <2>2. q # p /\ pc[p] \in Exchanging
    BY <2>1
  <2> QED BY <2>1, <2>2, Alone
<1>11. ASSUME NEW q \in Callers, ReadCanceled(q) PROVE Goal
  <2>1. /\ pc[q] = "wait" /\ kind[q] = "CBOR" /\ pc' = [pc EXCEPT ![q] = "cancelLock"]
        /\ msg' = [msg EXCEPT ![q] = None] /\ ~Torn(q)
        /\ UNCHANGED <<pending, failure, inbox, sending, canceling, attempt, kind>>
    BY <1>11 DEF ReadCanceled
  <2>2. pc[p] \in Exchanging /\ msg'[p] = msg[p]
    BY <2>1 DEF Torn
  <2> QED BY <1>2, <2>1, <2>2
<1>12. ASSUME NEW q \in Procs, ContextDone(q) PROVE Goal
  <2>1. UNCHANGED <<pc, pending, msg, failure, inbox, sending, canceling, attempt, kind>>
    BY <1>12 DEF ContextDone
  <2> QED BY <1>2, <2>1
<1>13. ASSUME NEW q \in Procs, LockCancel(q) PROVE Goal
  <2>1. /\ pc[q] = "cancelLock" /\ \E l \in {"cancelWrite", "close"} : pc' = [pc EXCEPT ![q] = l]
        /\ UNCHANGED <<pending, msg, failure, inbox, sending, canceling, attempt, kind>>
    BY <1>13 DEF LockCancel
  <2>2. pc[p] \in Exchanging
    BY <2>1
  <2> QED BY <1>2, <2>1, <2>2
<1>14. ASSUME NEW q \in Procs, WriteCancel(q) PROVE Goal
  <2>1. /\ pc[q] = "cancelWrite" /\ \E l \in {"drain", "close"} : pc' = [pc EXCEPT ![q] = l]
        /\ UNCHANGED <<pending, msg, failure, inbox, sending, attempt, kind>>
    BY <1>14 DEF WriteCancel
  <2>2. canceling' => canceling \/ inbox # <<>>
    BY <1>14 DEF WriteCancel
  <2>3. pc[p] \in Exchanging
    BY <2>1
  <2> QED BY <1>2, <2>1, <2>2, <2>3
<1>15. ASSUME NEW q \in Procs, WriteCancelFails(q) PROVE Goal
  <2>1. CASE q = Closer
    <3>1. /\ failure' # None /\ pc' = [pc EXCEPT ![Closer] = "close"]
          /\ UNCHANGED <<pending, msg, attempt, kind>>
      BY <1>15, <2>1 DEF WriteCancelFails, CloseDevice
    <3>2. pc[p] \in Exchanging
      BY <3>1
    <3> QED BY <1>2, <3>1, <3>2
  <2>2. CASE q # Closer
    <3>1. q \in Callers /\ pc[q] = "cancelWrite" /\ pc' = [pc EXCEPT ![q] = "idle"]
      BY <1>15, <2>2 DEF WriteCancelFails, Return
    <3>2. q # p /\ pc[p] \in Exchanging
      BY <3>1
    <3> QED BY <3>1, <3>2, Alone
  <2> QED BY <2>1, <2>2
<1>16. ASSUME CloseCall \/ CloseTransport PROVE Goal
  <2>1. /\ \E l : pc' = [pc EXCEPT ![Closer] = l]
        /\ UNCHANGED <<pending, msg, inbox, sending, canceling, attempt, kind>>
        /\ failure' = None => failure = None
    BY <1>16 DEF CloseCall, CloseTransport, CloseDevice
  <2>2. pc[p] \in Exchanging
    BY <2>1
  <2> QED BY <1>2, <2>1, <2>2
<1>17. ASSUME Environment PROVE Goal
  <2>1. UNCHANGED <<pc, msg, attempt, kind>>
    BY <1>17, EnvironmentFrame
  <2>2. pc[p] \in Exchanging /\ Stage(p)
    BY <1>1, <2>1
  <2>3. ASSUME Unplug PROVE Goal
    <3>1. UNCHANGED pending /\ failure' # None
      BY <2>3 DEF Unplug
    <3> QED BY <1>2, <2>1, <2>2, <3>1
  <2> QED BY <1>17, <2>2, <2>3, KeepaliveStage, AnsweringStage, SendStage DEF Goal, Environment
<1>18. ASSUME UNCHANGED vars PROVE Goal
  <2>1. UNCHANGED <<pc, pending, msg, failure, inbox, sending, canceling, attempt, kind>>
    BY <1>18 DEF vars
  <2> QED BY <1>2, <2>1
<1>19. Goal
  BY <1>4, <1>5, <1>6, <1>7, <1>8, <1>9, <1>10, <1>11, <1>12, <1>13, <1>14, <1>15, <1>16,
     <1>17, <1>18, Steps
<1> QED BY <1>19 DEF Goal

\* A call returns what its own exchange read.
LEMMA OwnStep == TypeOK /\ Unreturned /\ Exchange /\ OwnResponse /\ [Next]_vars => OwnResponse'
<1> SUFFICES ASSUME TypeOK, Unreturned, Exchange, OwnResponse, [Next]_vars PROVE OwnResponse'
  OBVIOUS
<1>0. result \in [Callers -> Results] /\ attempt \in [Callers -> Nat]
  BY DEF TypeOK
<1>r. abandoned => abandoned'
  BY Recorded
<1>e. \A e \in {"none", "ctx", "invalidated"} :
         Ended(e) \in Results /\ Ended(e).end # "framing" /\ Ended(e).end # "response"
  BY EndedFacts
<1> USE <1>0, <1>r DEF hostVars, OwnResponse
<1>1. ASSUME NEW p \in Callers, NEW r \in Results,
             abandoned' \/ (r.end # "framing" /\ (r.end = "response" => r.n = attempt[p])),
             result' = [result EXCEPT ![p] = r], UNCHANGED attempt
      PROVE  OwnResponse'
  BY <1>1
<1>2. ASSUME NEW p \in Callers, NEW k \in Kinds, Call(p, k) PROVE OwnResponse'
  <2>1. result' = [result EXCEPT ![p] = Ended("none")] /\ attempt' = [attempt EXCEPT ![p] = 0]
    BY <1>2 DEF Call
  <2> QED BY <1>e, <2>1
<1>3. ASSUME NEW p \in Callers, LockMu(p) \/ LockWriteMu(p) \/ ReadCanceled(p) \/ RetryCanceled(p)
      PROVE  OwnResponse'
  <2>1. UNCHANGED attempt /\ (UNCHANGED result \/ result' = [result EXCEPT ![p] = Ended("ctx")])
    BY <1>3 DEF LockMu, LockWriteMu, ReadCanceled, RetryCanceled, Return
  <2> QED BY <1>1, <1>e, <2>1
<1>4. ASSUME NEW p \in Callers, WritePacket(p) PROVE OwnResponse'
  <2>1. pc[p] = "write" /\ UNCHANGED <<result, abandoned>>
        /\ (UNCHANGED attempt \/ attempt' = [attempt EXCEPT ![p] = attempts'])
    BY <1>4 DEF WritePacket
  <2>2. result[p].end = "none"
    BY <2>1 DEF Unreturned
  <2> QED BY <2>1, <2>2
<1>5. ASSUME NEW p \in Callers, WriteFails(p) \/ ReadFails(p) PROVE OwnResponse'
  <2>1. UNCHANGED attempt /\ result' = [result EXCEPT ![p] = Ended("invalidated")]
    BY <1>5 DEF WriteFails, ReadFails, Return
  <2> QED BY <1>1, <1>e, <2>1
<1>6. ASSUME NEW p \in Callers, Wait(p) \/ Retry(p) PROVE OwnResponse'
  BY <1>6 DEF Wait, Retry
<1>7. ASSUME NEW p \in Callers, ReadPacket(p) PROVE OwnResponse'
  <2>1. pc[p] \in Exchanging /\ UNCHANGED <<abandoned, attempt>>
    BY <1>7 DEF ReadPacket, Reading, Exchanging
  <2>2. CASE abandoned
    BY <2>1, <2>2
  <2>3. CASE ~abandoned
    <3>1. Stage(p)
      BY <2>1, <2>3 DEF Exchange
    <3>2. \/ UNCHANGED result
          \/ \E r \in Results : /\ result' = [result EXCEPT ![p] = r] /\ r.end # "framing"
                                /\ r.end = "response" => r.n = attempt[p]
      BY <1>7, <3>1, ReadStage DEF Return
    <3>3. CASE UNCHANGED result
      BY <2>1, <3>3
    <3> QED BY <1>1, <2>1, <3>2, <3>3
  <2> QED BY <2>2, <2>3
<1>8. ASSUME NEW p \in Procs, ContextDone(p) \/ LockCancel(p) \/ WriteCancel(p) PROVE OwnResponse'
  BY <1>8 DEF ContextDone, LockCancel, WriteCancel
<1>9. ASSUME NEW p \in Procs, WriteCancelFails(p) PROVE OwnResponse'
  <2>1. p \in Callers \/ p = Closer
    BY DEF Procs
  <2>2. UNCHANGED attempt /\ \/ UNCHANGED result
                             \/ p \in Callers /\ result' = [result EXCEPT ![p] = Ended("invalidated")]
    BY <1>9, <2>1 DEF WriteCancelFails, Return
  <2> QED BY <1>1, <1>e, <2>2
<1>10. CASE CloseCall \/ CloseTransport
  BY <1>10 DEF CloseCall, CloseTransport
<1>11. CASE Environment
  BY <1>11, EnvironmentFrame
<1>12. CASE UNCHANGED vars
  BY <1>12 DEF vars
<1> HIDE DEF OwnResponse
<1> QED
  BY <1>2, <1>3, <1>4, <1>5, <1>6, <1>7, <1>8, <1>9, <1>10, <1>11, <1>12, Steps

\* The CANCEL of a call reaches its own request; that of Close may reach any.
LEMMA CancelStep ==
    TypeOK /\ Holder /\ CancelsDone /\ Exchange /\ CancelOnlyCanceled /\ [Next]_vars
       => CancelOnlyCanceled'
<1> SUFFICES ASSUME TypeOK, Holder, CancelsDone, Exchange, CancelOnlyCanceled, [Next]_vars,
                    canceling', ~abandoned', failure' = None, pc'[Closer] # "close"
             PROVE  \E p \in Callers : attempt'[p] = Head(inbox').n /\ ctxDone'[p] /\ pc'[p] = "drain"
  BY DEF CancelOnlyCanceled
<1> DEFINE Goal == \E p \in Callers : attempt'[p] = Head(inbox').n /\ ctxDone'[p] /\ pc'[p] = "drain"
<1>0. /\ pc \in [Procs -> {"idle", "lock", "writeLock", "write", "read", "wait", "retry", "drain",
                           "cancelLock", "cancelWrite", "close", "closed"}]
      /\ ctxDone \in [Procs -> BOOLEAN] /\ attempt \in [Callers -> Nat]
      /\ failure \in {None, "closed", "io"} /\ canceling \in BOOLEAN
  BY DEF TypeOK
<1>r. ~abandoned /\ failure = None
  BY Recorded
<1> USE <1>0, TransportAssumption DEF Procs, Goto, hostVars, devVars
<1>1. ASSUME NEW q \in Procs, NEW l, pc' = [pc EXCEPT ![q] = l], l = "close" PROVE q # Closer
  BY <1>1
<1>2. ASSUME canceling, pc[Closer] # "close"
      PROVE  \E p \in Callers : attempt[p] = Head(inbox).n /\ ctxDone[p] /\ pc[p] = "drain"
  BY <1>2, <1>r DEF CancelOnlyCanceled
\* A step of q leaves the canceled exchange of another caller as it is.
<1>3. ASSUME NEW q \in Procs, NEW l, pc' = [pc EXCEPT ![q] = l], q = Closer => pc[q] # "close",
             q \in Callers => pc[q] # "drain" \/ l = "drain",
             UNCHANGED <<ctxDone, attempt, inbox, canceling>>
      PROVE  Goal
  <2>1. canceling /\ pc[Closer] # "close"
    BY <1>3
  <2>2. PICK p \in Callers : attempt[p] = Head(inbox).n /\ ctxDone[p] /\ pc[p] = "drain"
    BY <1>2, <2>1
  <2> QED BY <1>3, <2>2
<1>4. ASSUME UNCHANGED <<pc, attempt, inbox, canceling>>, \A p \in Procs : ctxDone[p] => ctxDone'[p]
      PROVE  Goal
  <2>1. PICK p \in Callers : attempt[p] = Head(inbox).n /\ ctxDone[p] /\ pc[p] = "drain"
    BY <1>2, <1>4
  <2> QED BY <1>4, <2>1
<1> HIDE DEF Goal
<1>5. ASSUME NEW q \in Callers, NEW k \in Kinds, Call(q, k) PROVE Goal
  <2>1. /\ pc[q] = "idle" /\ pc' = [pc EXCEPT ![q] = "lock"] /\ UNCHANGED <<inbox, canceling>>
        /\ ctxDone' = [ctxDone EXCEPT ![q] = FALSE] /\ attempt' = [attempt EXCEPT ![q] = 0]
    BY <1>5 DEF Call
  <2>2. PICK p \in Callers : attempt[p] = Head(inbox).n /\ ctxDone[p] /\ pc[p] = "drain"
    BY <1>2, <2>1
  <2> QED BY <2>1, <2>2 DEF Goal
<1>6. ASSUME NEW q \in Callers, \/ LockMu(q) \/ LockWriteMu(q) \/ Wait(q) \/ ReadCanceled(q)
                                \/ Retry(q) \/ RetryCanceled(q)
      PROVE  Goal
  <2>1. /\ pc[q] # "drain" /\ \E l : pc' = [pc EXCEPT ![q] = l]
        /\ UNCHANGED <<ctxDone, attempt, inbox, canceling>>
    BY <1>6 DEF LockMu, LockWriteMu, Wait, ReadCanceled, Retry, RetryCanceled, Return
  <2> QED BY <1>3, <2>1
<1>7. ASSUME NEW q \in Callers, WritePacket(q) PROVE Goal
  <2>1. pc[q] = "write" /\ UNCHANGED canceling /\ (UNCHANGED pc \/ pc' = [pc EXCEPT ![q] = "read"])
    BY <1>7 DEF WritePacket
  <2>2. pc[Closer] # "close"
    BY <2>1
  <2>3. PICK p \in Callers : pc[p] = "drain"
    BY <1>2, <2>1, <2>2
  <2> QED BY <2>1, <2>3, Alone
<1>8. ASSUME NEW q \in Callers, WriteFails(q) \/ ReadFails(q) PROVE Goal
  BY <1>8 DEF WriteFails, ReadFails, CloseDevice
<1>9. ASSUME NEW q \in Callers, ReadPacket(q) PROVE Goal
  <2>1. pc[q] \in {"read", "wait", "drain"} /\ UNCHANGED <<ctxDone, attempt, inbox, canceling>>
    BY <1>9 DEF ReadPacket, Reading
  <2>2. Stage(q)
    BY <1>r, <2>1 DEF Exchange, Exchanging
  <2>3. ReadOn(q)
    BY <1>9, <1>r, <2>1, <2>2, ReadStage
  <2> QED BY <1>3, <2>1, <2>3 DEF ReadOn
<1>10. ASSUME NEW q \in Procs, ContextDone(q) PROVE Goal
  BY <1>4, <1>10 DEF ContextDone
<1>11. ASSUME NEW q \in Procs, LockCancel(q) PROVE Goal
  <2>1. /\ pc[q] = "cancelLock" /\ \E l \in {"close", "cancelWrite"} : pc' = [pc EXCEPT ![q] = l]
        /\ UNCHANGED <<ctxDone, attempt, inbox, canceling>>
    BY <1>11 DEF LockCancel
  <2> QED BY <1>1, <1>3, <2>1
<1>12. ASSUME NEW q \in Procs, WriteCancel(q) PROVE Goal
  <2>1. /\ pc[q] = "cancelWrite" /\ UNCHANGED <<ctxDone, attempt, inbox>>
        /\ pc' = [pc EXCEPT ![q] = IF q = Closer THEN "close" ELSE "drain"]
    BY <1>12 DEF WriteCancel
  <2>2. q \in Callers /\ pc' = [pc EXCEPT ![q] = "drain"]
    BY <1>1, <2>1
  <2>3. CASE canceling
    <3>1. PICK p \in Callers : pc[p] = "drain"
      BY <1>2, <2>2, <2>3
    <3> QED BY <2>1, <2>2, <3>1, Alone
  <2>4. CASE ~canceling
    <3>1. inbox # <<>>
      BY <1>12, <2>4 DEF WriteCancel
    <3>2. Stage(q)
      BY <1>r, <2>1, <2>2 DEF Exchange, Exchanging
    <3>3. inbox = <<Request(q)>>
      BY <1>r, <3>1, <3>2 DEF Stage, Processing, Responding
    <3>4. Head(inbox).n = attempt[q]
      BY <3>3 DEF Request
    <3>5. ctxDone[q]
      BY <2>1, <2>2 DEF CancelsDone
    <3> QED BY <2>1, <2>2, <3>4, <3>5 DEF Goal
  <2> QED BY <2>3, <2>4
<1>13. ASSUME NEW q \in Procs, WriteCancelFails(q) PROVE Goal
  BY <1>13 DEF WriteCancelFails, CloseDevice
<1>14. ASSUME CloseCall PROVE Goal
  <2>1. /\ pc[Closer] = "idle" /\ \E l : pc' = [pc EXCEPT ![Closer] = l]
        /\ UNCHANGED <<ctxDone, attempt, inbox, canceling>>
    BY <1>14 DEF CloseCall
  <2> QED BY <1>3, <2>1
<1>15. ASSUME CloseTransport PROVE Goal
  BY <1>15 DEF CloseTransport, CloseDevice
<1>16. ASSUME Environment PROVE Goal
  <2>1. UNCHANGED <<pc, attempt, ctxDone>>
    BY <1>16, EnvironmentFrame
  <2>2. UNCHANGED <<inbox, canceling>>
    BY <1>16 DEF Environment, Keepalive, SendPacket, Unplug, Answering, Answer
  <2> QED BY <1>4, <2>1, <2>2
<1>17. ASSUME UNCHANGED vars PROVE Goal
  BY <1>4, <1>17 DEF vars
<1>18. Goal
  BY <1>5, <1>6, <1>7, <1>8, <1>9, <1>10, <1>11, <1>12, <1>13, <1>14, <1>15, <1>16, <1>17, Steps
<1> QED BY <1>18 DEF Goal

-----------------------------------------------------------------------------
\* After Open the channel is clean and nothing is held.
LEMMA InitInvariant == Init => IInv
<1> SUFFICES ASSUME Init PROVE IInv
  OBVIOUS
<1> USE TransportAssumption
<1>1. ControlTypes /\ FlagTypes
  BY DEF Init, ControlTypes, FlagTypes, Procs
<1>2. CallTypes
  <2>1. result \in [Callers -> Results]
    BY EndedFacts DEF Init
  <2>2. ctxDone \in [Procs -> BOOLEAN]
    BY DEF Init
  <2>3. attempt \in [Callers -> Nat] /\ attempts \in Nat /\ calls \in 0..MaxCalls
    BY DEF Init
  <2> QED BY <2>1, <2>2, <2>3 DEF Init, CallTypes
<1>3. QueueTypes
  BY DEF Init, QueueTypes
<1>4. TypeOK
  BY <1>1, <1>2, <1>3, TypeGroups
<1>5. Control
  BY DEF Init, Control, Holder, Serialised, Writes, Procs
<1>6. Calls
  BY EndedFacts DEF Init, Calls, Invalidated, CancelsDone, Unreturned, Assembling, Procs
<1>7. Wire
  BY EndedFacts DEF Init, Wire, Exchange, Exchanging, CleanStart, Clean, OwnResponse,
                    CancelOnlyCanceled, Procs
<1> QED BY <1>4, <1>5, <1>6, <1>7 DEF IInv

\* The invariant of the transport: the types, the two mutexes, what the calls
\* were told, the stage of the exchange and the channel between commands.
THEOREM Invariance == Spec => []IInv
<1>1. IInv /\ [Next]_vars => IInv'
  <2> SUFFICES ASSUME IInv, [Next]_vars PROVE IInv'
    OBVIOUS
  <2>0. /\ TypeOK /\ Holder /\ Serialised /\ Invalidated /\ CancelsDone /\ Unreturned /\ Assembling
        /\ Exchange /\ CleanStart /\ OwnResponse /\ CancelOnlyCanceled
    BY DEF IInv, Control, Calls, Wire
  <2>1. TypeOK'
    BY <2>0, TypeStep
  <2>2. Control'
    BY <2>0, HolderStep, SerialisedStep DEF Control
  <2>3. Calls'
    BY <2>0, InvalidatedStep, CancelsDoneStep, UnreturnedStep, AssemblingStep DEF Calls
  <2>4. Wire'
    BY <2>0, ExchangeStep, CleanStep, OwnStep, CancelStep DEF Wire
  <2> QED BY <2>1, <2>2, <2>3, <2>4 DEF IInv
<1> QED BY <1>1, InitInvariant, PTL DEF Spec

\* The variables keep their types in every behaviour.
THEOREM TypeCorrect == Spec => []TypeOK
<1>1. IInv => TypeOK
  BY DEF IInv
<1> QED BY <1>1, Invariance, PTL

\* writeMu keeps every other packet, a CANCEL in particular, out of a CBOR
\* request that is half written.
THEOREM RequestNotInterleaved == Spec => []CBORNotInterleaved
<1>1. IInv => CBORNotInterleaved
  BY DEF IInv, Control, Serialised, Writes, Procs, CBORNotInterleaved
<1> QED BY <1>1, Invariance, PTL

\* Unless an exchange was abandoned, a call returns the response to the request
\* it sent last, and no response is taken for a framing error.
THEOREM ResponseIsOwn == Spec => []OwnResponse
<1>1. IInv => OwnResponse
  BY DEF IInv, Wire
<1> QED BY <1>1, Invariance, PTL

\* Unless an exchange was abandoned, no response is due or unread while nobody
\* holds the channel; and a call that reports the device invalidated has closed
\* it.
THEOREM ChannelLeftClean == Spec => []CleanBetweenCalls
<1>1. IInv => CleanBetweenCalls
  <2> SUFFICES ASSUME IInv PROVE CleanBetweenCalls
    OBVIOUS
  <2>1. Holder /\ Invalidated /\ CleanStart
    BY DEF IInv, Control, Calls, Wire
  <2>2. ASSUME ~abandoned, mu = None, failure = None
        PROVE  inbox = <<>> /\ sending = <<>> /\ pending = <<>>
    <3>1. open
      BY <2>1, <2>2 DEF Invalidated
    <3>2. \A p \in Callers : pc[p] \notin Exchanging
      BY <2>1, <2>2, TransportAssumption DEF Holder, Exchanging
    <3> QED BY <2>1, <2>2, <3>1, <3>2 DEF CleanStart, Clean
  <2> QED BY <2>1, <2>2 DEF Invalidated, CleanBetweenCalls, ChannelClean
<1> QED BY <1>1, Invariance, PTL

\* Unless an exchange was abandoned or Close was called, CTAPHID_CANCEL reaches
\* only a request whose own caller canceled it and drains its response.
THEOREM CancelsOnlyCanceled == Spec => []CancelOnlyCanceled
<1>1. IInv => CancelOnlyCanceled
  BY DEF IInv, Wire
<1> QED BY <1>1, Invariance, PTL
=============================================================================
