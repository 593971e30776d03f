---------------------------- MODULE CtapBleProofs ----------------------------
(***************************************************************************)
(* Proofs about CtapBle, for any callers, any lengths of the responses and *)
(* any number of calls: the command mutex, the write gate, closeOnce, and  *)
(* the stream of notifications an exchange reads.                          *)
(***************************************************************************)
EXTENDS CtapBle, TLAPS

\* commandMu: its holder is the one caller inside CBOR or Ping.
Holder ==
    /\ \A p \in Callers : pc[p] \notin {"idle", "lock"} <=> mu = p
    /\ \A p \in Callers : pc[p] # "closed"
    /\ pc[Closer] \in {"idle", "close", "xgate", "xwrite", "shut", "release", "closed"}

\* fidoControlPointWriteGate: its holder is the one goroutine that writes, and
\* the authenticator is assembling the frame of a request that is half written.
Gated ==
    /\ \A p \in Procs : pc[p] \in {"write", "cwrite", "xwrite"} <=> gate = p
    /\ \A p \in Callers : sent[p] > 0 => pc[p] = "write" /\ half = p

Runs(p) == pc[p] \in {"xgate", "xwrite", "shut", "release"}

\* closeOnce: one goroutine runs its function, and when that is done everything
\* is closed.
Once ==
    /\ \A p \in Procs : Runs(p) => once = "running"
    /\ \A p, q \in Procs : Runs(p) /\ Runs(q) => p = q
    /\ \A p \in Procs : pc[p] = "release" => closed
    /\ once = "new" => peripheral
    /\ once = "done" => closed /\ ~sub /\ ~peripheral
    /\ \A p \in Callers : result[p].end = "invalidated" => once = "done"

-----------------------------------------------------------------------------
(* The exchange. *)

\* A keep-alive notification.
IsKeepAlive(f) == f.cmd = "KEEPALIVE" /\ f.seq = 0 /\ f.last

Request(p) == [n |-> attempt[p], cmd |-> kind[p]]

\* The authenticator processes p's request.
Processing(p) ==
    /\ reader[p] /\ answer[p] = None /\ frame[p] = None
    /\ inbox = <<Request(p)>> /\ sending = <<>>
    /\ \A i \in 1..Len(notes) : IsKeepAlive(notes[i])
    /\ Len(notes) <= 1

\* It answers it with a frame of l fragments, command c.  The reader has taken d
\* of them; the queue holds the next ones, behind k keep-alives; the
\* authenticator is still to send the others.
Stream(p, c, l, k, d) ==
    /\ (d = 0 /\ frame[p] = None) \/ (d > 0 /\ k = 0 /\ frame[p] = [n |-> attempt[p], cmd |-> c, next |-> d])
    /\ k <= Len(notes)
    /\ \A i \in 1..Len(notes) :
          IF i <= k THEN IsKeepAlive(notes[i])
                    ELSE notes[i] = Fragment(attempt[p], c, d + i - k - 1, l)
    /\ \A i \in 1..Len(sending) :
          sending[i] = Fragment(attempt[p], c, d + Len(notes) - k + i - 1, l)
    /\ d + Len(notes) - k + Len(sending) = l
    /\ d < l

Responding(p) ==
    /\ reader[p] /\ answer[p] = None
    /\ inbox = IF sending = <<>> THEN <<>> ELSE <<Request(p)>>
    /\ canceling => sending # <<>>
    /\ \E c \in {kind[p], "BUSY", "ERROR"}, l \in Nat, k \in {0, 1}, d \in Nat : Stream(p, c, l, k, d)

\* The reader has the answer, and nothing of the exchange is left.
Answered(p) ==
    /\ ~reader[p] /\ answer[p] # None
    /\ answer[p].end \in {"response", "busy", "error"}
    /\ answer[p].end = "response" => answer[p].n = attempt[p]
    /\ inbox = <<>> /\ sending = <<>> /\ notes = <<>> /\ ~canceling

\* The connection went away under the reader.
Broken(p) == ~reader[p] /\ answer[p] # None /\ answer[p].end = "io"

\* How far the exchange of p has got.
Stage(p) == Processing(p) \/ Responding(p) \/ Answered(p) \/ Broken(p)

Exchanging == {"await", "cgate", "cwrite", "drain"}

Exchange ==
    \A p \in Callers : pc[p] \in Exchanging =>
        /\ \A q \in Callers : reader[q] => q = p
        /\ Stage(p)

\* Nothing of a command is left on the connection.
Clean == /\ inbox = <<>> /\ sending = <<>> /\ notes = <<>> /\ ~canceling
         /\ \A q \in Callers : ~reader[q]

\* A caller that has a request out, or gives up the connection.
Engaged(p) == pc[p] \in Exchanging \union {"close", "xgate", "xwrite", "shut", "release"}

\* Otherwise the connection, while there is one, is clean.
CleanStart == Connected /\ (\A p \in Callers : ~Engaged(p)) => Clean

\* Before a call returns it has no result.
Pending == \A p \in Callers : pc[p] # "idle" => result[p].end = "none"

\* What the authenticator sends answers a request it still has.
Served == sending # <<>> => inbox # <<>>

Control == Holder /\ Gated /\ Once
Wire == Exchange /\ CleanStart /\ Pending /\ OwnResponse
IInv == TypeOK /\ Served /\ Control /\ Wire
-----------------------------------------------------------------------------
(* Operators. *)

\* What a fragment carries.
LEMMA FragmentFacts ==
    ASSUME NEW n \in Nat, NEW c \in Answers, NEW k \in Nat, NEW l \in Nat
    PROVE  /\ Fragment(n, c, k, l) \in Notifications
           /\ Fragment(n, c, k, l).n = n /\ Fragment(n, c, k, l).cmd = c
           /\ Fragment(n, c, k, l).seq = k
           /\ Fragment(n, c, k, l).last <=> k = l - 1
<1>1. (k = l - 1) \in BOOLEAN
  OBVIOUS
<1> QED BY <1>1 DEF Fragment, Notifications

\* A response is its fragments in order.
LEMMA ResponseFacts ==
    ASSUME NEW n \in Nat, NEW c \in Answers, NEW l \in Nat
    PROVE  /\ Response(n, c, l) \in Seq(Notifications) /\ Len(Response(n, c, l)) = l
           /\ \A i \in 1..l : Response(n, c, l)[i] = Fragment(n, c, i - 1, l)
<1>1. \A i \in 1..l : Fragment(n, c, i - 1, l) \in Notifications
  BY FragmentFacts
<1> QED BY <1>1 DEF Response

\* Taking the head off a queue leaves the others in order.
LEMMA TailFacts ==
    ASSUME NEW S, NEW q \in Seq(S), q # <<>>
    PROVE  /\ Head(q) \in S /\ Head(q) = q[1] /\ Len(q) \in Nat \ {0}
           /\ Tail(q) \in Seq(S) /\ Len(Tail(q)) = Len(q) - 1
           /\ \A i \in 1..Len(Tail(q)) : Tail(q)[i] = q[i + 1] /\ i + 1 \in 1..Len(q)
  OBVIOUS

\* A notification is queued behind the others.
LEMMA AppendFacts ==
    ASSUME NEW S, NEW q \in Seq(S), NEW x \in S
    PROVE  /\ Append(q, x) \in Seq(S) /\ Len(Append(q, x)) = Len(q) + 1
           /\ Append(q, x)[Len(q) + 1] = x
           /\ \A i \in 1..Len(q) : Append(q, x)[i] = q[i]
  OBVIOUS

\* A request has one fragment or two.
LEMMA FragmentsFacts == \A k : Fragments(k) \in {1, 2}
  BY DEF Fragments

-----------------------------------------------------------------------------
(* The types. *)

\* What the authenticator does with a fragment of p's request keeps the types.
LEMMA ReceiveType ==
    ASSUME TypeOK, NEW p \in Callers, Receive(p)
    PROVE  /\ half' \in Callers \union {None} /\ inbox' \in Seq(Requests)
           /\ attempts' \in Nat /\ attempts <= attempts'
           /\ attempt' \in [Callers -> 0..attempts']
<1>0. sent[p] \in 0..1 /\ Fragments(kind[p]) \in {1, 2} /\ attempts \in Nat /\ kind[p] \in Kinds
  BY FragmentsFacts DEF TypeOK
<1>1. CASE sent[p] + 1 < Fragments(kind[p])
  BY <1>0, <1>1 DEF Receive, TypeOK
<1>2. CASE ~(sent[p] + 1 < Fragments(kind[p]))
  <2>1. attempts' = attempts + 1 /\ half' = None
    BY <1>2 DEF Receive
  <2>2. attempt' = [attempt EXCEPT ![p] = attempts']
    BY <1>2 DEF Receive
  <2>3. attempt \in [Callers -> 0..attempts]
    BY DEF TypeOK
  <2>4. attempt \in [Callers -> 0..attempts'] /\ attempts' \in 0..attempts'
    BY <1>0, <2>1, <2>3
  <2>5. attempt' \in [Callers -> 0..attempts']
    BY <2>2, <2>4
  <2>6. [n |-> attempts', cmd |-> kind[p]] \in Requests
    BY <1>0, <2>1 DEF Requests
  <2>7. inbox' = inbox \/ inbox' = Append(inbox, [n |-> attempts', cmd |-> kind[p]])
    BY <1>2 DEF Receive
  <2>8. inbox \in Seq(Requests)
    BY DEF TypeOK
  <2>9. inbox' \in Seq(Requests)
    BY <2>6, <2>7, <2>8, AppendFacts
  <2> QED BY <1>0, <2>1, <2>5, <2>9
<1> QED BY <1>1, <1>2

\* What the reader does with an answer keeps the types.
LEMMA AnswerType ==
    ASSUME TypeOK, NEW p \in Callers,
           NEW r \in Verdicts, Answer(p, r)
    PROVE  /\ reader' \in [Callers -> BOOLEAN]
           /\ frame' \in [Callers -> Frames \union {None}]
           /\ answer' \in [Callers -> Verdicts \union {None}]
<1>1. reader' \in [Callers -> BOOLEAN]
  BY DEF TypeOK, Answer
<1> QED BY <1>1 DEF TypeOK, Answer
\* How calls and exchanges end.
LEMMA EndedFacts ==
    /\ Ended("none") \in Results /\ Ended("ctx") \in Results /\ Ended("invalidated") \in Results
    /\ Ended("busy") \in Verdicts /\ Ended("error") \in Verdicts
    /\ Ended("framing") \in Verdicts /\ Ended("io") \in Verdicts
    /\ \A n \in Nat : [end |-> "response", n |-> n] \in Verdicts
    /\ \A v \in Verdicts : v.end \notin {"busy", "io"} => v \in Results
    /\ Ended("none").end = "none" /\ Ended("ctx").end = "ctx"
    /\ Ended("invalidated").end = "invalidated" /\ Ended("io").end = "io"
    /\ Ended("busy").end = "busy" /\ Ended("error").end = "error"
    /\ \A v \in Verdicts : v.end # "invalidated"
  BY DEF Ended, Results, Verdicts, Outcomes

\* What the reader makes of a complete frame keeps the types.
LEMMA AssembledType ==
    ASSUME TypeOK, NEW p \in Callers, NEW f, f.n \in Nat, Assembled(p, f)
    PROVE  /\ reader' \in [Callers -> BOOLEAN]
           /\ frame' \in [Callers -> Frames \union {None}]
           /\ answer' \in [Callers -> Verdicts \union {None}]
<1>1. CASE f.cmd = "KEEPALIVE"
  BY <1>1 DEF Assembled, TypeOK
<1>2. CASE f.cmd # "KEEPALIVE"
  <2>1. PICK r \in Verdicts : Answer(p, r)
    <3>1. CASE f.cmd = "BUSY"
      BY <1>2, <3>1, EndedFacts DEF Assembled
    <3>2. CASE f.cmd = "ERROR"
      BY <1>2, <3>2, EndedFacts DEF Assembled
    <3>3. CASE f.cmd \notin {"BUSY", "ERROR"} /\ f.cmd = kind[p]
      BY <1>2, <3>3, EndedFacts DEF Assembled
    <3>4. CASE f.cmd \notin {"BUSY", "ERROR"} /\ f.cmd # kind[p]
      BY <1>2, <3>4, EndedFacts DEF Assembled
    <3> QED BY <3>1, <3>2, <3>3, <3>4
  <2> QED BY <2>1, AnswerType
<1> QED BY <1>1, <1>2

\* The types in five groups: the control state, the flags, the calls, the
\* readers and the queues.
ControlTypes ==
    /\ mu \in Callers \union {None} /\ gate \in Procs \union {None}
    /\ half \in Callers \union {None}
    /\ pc \in [Procs -> {"idle", "lock", "gate", "write", "await", "retry", "cgate", "cwrite",
                         "drain", "close", "xgate", "xwrite", "shut", "release", "closed"}]
    /\ once \in {"new", "running", "done"}
    /\ closeCancel \in {"none", "sent", "failed"}
FlagTypes ==
    /\ activeMSG \in BOOLEAN /\ closed \in BOOLEAN /\ sub \in BOOLEAN
    /\ peripheral \in BOOLEAN /\ link \in BOOLEAN /\ canceling \in BOOLEAN
CallTypes ==
    /\ kind \in [Callers -> Kinds] /\ ctxDone \in [Callers -> BOOLEAN]
    /\ sent \in [Callers -> 0..1] /\ attempt \in [Callers -> 0..attempts]
    /\ result \in [Callers -> Results] /\ attempts \in Nat /\ calls \in 0..MaxCalls
ReadTypes ==
    /\ reader \in [Callers -> BOOLEAN]
    /\ frame \in [Callers -> Frames \union {None}]
    /\ answer \in [Callers -> Verdicts \union {None}]
QueueTypes ==
    /\ inbox \in Seq(Requests) /\ busy \in 0..MaxBusy
    /\ sending \in Seq(Notifications) /\ notes \in Seq(Notifications)

\* The five groups are the type invariant.
LEMMA TypeGroups == TypeOK <=> ControlTypes /\ FlagTypes /\ CallTypes /\ ReadTypes /\ QueueTypes
  BY DEF TypeOK, ControlTypes, FlagTypes, CallTypes, ReadTypes, QueueTypes

\* An answer the authenticator gives is one of a request it has received.
Answering == \E c \in {Head(inbox).cmd, "BUSY", "ERROR"}, l \in Nat \ {0} : Respond(c, l)

\* The authenticator keeps alive, answers, notifies, or goes out of range.
LEMMA EnvironmentCases ==
    ASSUME TypeOK, Environment
    PROVE  KeepAlive \/ Notify \/ Disconnect \/ Answering
<1>1. ASSUME inbox # <<>>, NEW l \in RespLens, Respond(Head(inbox).cmd, l) PROVE Answering
  <2>3. l \in Nat \ {0}
    BY BleAssumption
  <2> QED BY <1>1, <2>3 DEF Answering
<1>2. ASSUME NEW c \in {"BUSY", "ERROR"}, Respond(c, 1) PROVE Answering
  BY <1>2 DEF Answering
<1> QED BY <1>1, <1>2 DEF Environment

\* None of these is a step of a goroutine.
LEMMA EnvironmentIdle == Environment => Idle
  BY DEF Environment, KeepAlive, Notify, Disconnect, Respond

\* Locks, gates, labels and closeOnce keep their types in every step.
LEMMA ControlTypeStep == TypeOK /\ [Next]_vars => ControlTypes'
<1> SUFFICES ASSUME ControlTypes, TypeOK, [Next]_vars PROVE ControlTypes'
  BY TypeGroups
<1> USE BleAssumption DEF Procs, Goto, callVars, closeVars, devVars
<1>1. ASSUME NEW p \in Callers, NEW k \in Kinds, Call(p, k) PROVE ControlTypes'
  BY <1>1 DEF Call, ControlTypes
<1>2. ASSUME NEW p \in Callers, Lock(p) PROVE ControlTypes'
  BY <1>2 DEF Lock, Return, ControlTypes
<1>3. ASSUME NEW p \in Callers, WriteFragment(p) PROVE ControlTypes'
  <2>1. half' \in Callers \union {None}
    BY <1>3, ReceiveType DEF WriteFragment
  <2>2. gate' \in Procs \union {None}
    BY <1>3 DEF WriteFragment, Release, ControlTypes
  <2>3. pc' = pc \/ pc' = [pc EXCEPT ![p] = "await"]
    BY <1>3 DEF WriteFragment
  <2> QED BY <1>3, <2>1, <2>2, <2>3 DEF WriteFragment, ControlTypes
<1>4. ASSUME NEW p \in Callers, NEW d \in BOOLEAN, WriteFails(p, d) PROVE ControlTypes'
  <2>1. half' \in Callers \union {None}
    <3>1. CASE d
      BY <1>4, <3>1, ReceiveType DEF WriteFails
    <3>2. CASE ~d
      BY <1>4, <3>2 DEF WriteFails, ControlTypes
    <3> QED BY <3>1, <3>2
  <2> QED BY <1>4, <2>1 DEF WriteFails, Release, ControlTypes
<1>5. ASSUME NEW p \in Callers, TakeAnswer(p) PROVE ControlTypes'
  BY <1>5 DEF TakeAnswer, Continue, Return, ControlTypes
<1>6. ASSUME NEW p \in Callers, AwaitCanceled(p) \/ Retry(p) \/ DrainExpires(p) PROVE ControlTypes'
  BY <1>6 DEF AwaitCanceled, Retry, DrainExpires, ControlTypes
<1>7. ASSUME NEW p \in Callers, RetryCanceled(p) \/ Drained(p) PROVE ControlTypes'
  BY <1>7 DEF RetryCanceled, Drained, Continue, Return, ControlTypes
<1>8. ASSUME NEW p \in Procs, Acquire(p) PROVE ControlTypes'
  <2>1. GateOf[pc[p]] \in {"write", "cwrite", "xwrite"}
    BY <1>8 DEF Acquire, GateOf
  <2> QED BY <1>8, <2>1 DEF Acquire, ControlTypes
<1>9. ASSUME NEW p \in Procs, CancelWritten(p) PROVE ControlTypes'
  BY <1>9 DEF CancelWritten, ReceiveCancel, Release, ControlTypes
<1>10. ASSUME NEW p \in Procs, CancelFails(p) PROVE ControlTypes'
  BY <1>10 DEF CancelFails, Release, ControlTypes
<1>11. ASSUME NEW p \in Procs, BeginClose(p) \/ Shut(p) PROVE ControlTypes'
  BY <1>11 DEF BeginClose, Shut, ControlTypes
<1>12. ASSUME NEW p \in Procs, ReleaseFirst(p) \/ ReleaseSecond(p) PROVE ControlTypes'
  BY <1>12 DEF ReleaseFirst, ReleaseSecond, ControlTypes
<1>13. ASSUME NEW p \in Procs, CloseReturns(p) PROVE ControlTypes'
  BY <1>13 DEF CloseReturns, Continue, Return, ControlTypes
<1>14. CASE CallClose
  BY <1>14 DEF CallClose, ControlTypes
<1>15. ASSUME NEW p \in Callers, ContextDone(p) \/ ReadFragment(p) \/ ReadFails(p)
       PROVE  ControlTypes'
  BY <1>15 DEF ContextDone, ReadFragment, ReadFails, ControlTypes
<1>16. CASE Environment
  BY <1>16, EnvironmentIdle DEF Idle, ControlTypes
<1>17. CASE UNCHANGED vars
  BY <1>17 DEF vars, ControlTypes
<1> QED
  BY <1>1, <1>2, <1>3, <1>4, <1>5, <1>6, <1>7, <1>8, <1>9, <1>10, <1>11, <1>12, <1>13,
     <1>14, <1>15, <1>16, <1>17 DEF Next, CallerStep, CloseStep

\* So do the flags of the transport and of the link.
LEMMA FlagTypeStep == TypeOK /\ [Next]_vars => FlagTypes'
<1> SUFFICES ASSUME FlagTypes, TypeOK, [Next]_vars PROVE FlagTypes'
  BY TypeGroups
<1> USE DEF callVars, closeVars, devVars, FlagTypes
<1>1. ASSUME NEW p \in Callers, \/ \E k \in Kinds : Call(p, k)
                                \/ ContextDone(p) \/ AwaitCanceled(p) \/ Retry(p) \/ DrainExpires(p)
      PROVE  FlagTypes'
  BY <1>1 DEF Call, ContextDone, AwaitCanceled, Retry, DrainExpires
<1>2. ASSUME NEW p \in Callers, Lock(p) PROVE FlagTypes'
  BY <1>2 DEF Lock, Return
<1>3. ASSUME NEW p \in Callers, WriteFragment(p) \/ (\E d \in BOOLEAN : WriteFails(p, d)) PROVE FlagTypes'
  BY <1>3 DEF WriteFragment, WriteFails
<1>4. ASSUME NEW p \in Callers, ReadFragment(p) \/ ReadFails(p) PROVE FlagTypes'
  BY <1>4 DEF ReadFragment, ReadFails
<1>5. ASSUME NEW p \in Callers, TakeAnswer(p) \/ RetryCanceled(p) \/ Drained(p) PROVE FlagTypes'
  BY <1>5 DEF TakeAnswer, RetryCanceled, Drained, Continue, Return
<1>6. ASSUME NEW p \in Procs, Acquire(p) \/ CancelWritten(p) \/ CancelFails(p) PROVE FlagTypes'
  BY <1>6 DEF Acquire, CancelWritten, ReceiveCancel, CancelFails
<1>7. ASSUME NEW p \in Procs, BeginClose(p) \/ Shut(p) \/ ReleaseFirst(p) \/ ReleaseSecond(p)
      PROVE  FlagTypes'
  BY <1>7 DEF BeginClose, Shut, ReleaseFirst, ReleaseSecond
<1>8. ASSUME NEW p \in Procs, CloseReturns(p) PROVE FlagTypes'
  BY <1>8 DEF CloseReturns, Continue, Return
<1>9. CASE CallClose
  BY <1>9 DEF CallClose
<1>10. CASE Environment
  <2>1. CASE KeepAlive
    BY <2>1 DEF KeepAlive, Idle
  <2>2. CASE Answering
    BY <2>2 DEF Answering, Respond, Idle
  <2>3. CASE Notify
    BY <2>3 DEF Notify, Idle
  <2>4. CASE Disconnect
    BY <2>4 DEF Disconnect, Idle
  <2> QED BY <1>10, <2>1, <2>2, <2>3, <2>4, EnvironmentCases
<1>11. CASE UNCHANGED vars
  BY <1>11 DEF vars
<1> HIDE DEF FlagTypes
<1> QED
  BY <1>1, <1>2, <1>3, <1>4, <1>5, <1>6, <1>7, <1>8, <1>9, <1>10, <1>11
     DEF Next, CallerStep, CloseStep
\* So do the arguments, the counters and the results of the calls.
LEMMA CallTypeStep == TypeOK /\ [Next]_vars => CallTypes'
<1> SUFFICES ASSUME CallTypes, TypeOK, [Next]_vars PROVE CallTypes'
  BY TypeGroups
<1> USE BleAssumption DEF callVars, CallTypes
<1>1. ASSUME NEW p \in Callers, NEW k \in Kinds, Call(p, k) PROVE CallTypes'
  <2>1. calls' \in 0..MaxCalls /\ attempt' \in [Callers -> 0..attempts]
    BY <1>1 DEF Call
  <2>2. ctxDone' \in [Callers -> BOOLEAN]
    BY <1>1 DEF Call
  <2> QED BY <1>1, <2>1, <2>2, EndedFacts DEF Call
<1>2. ASSUME NEW p \in Callers, ContextDone(p) PROVE CallTypes'
  <2>1. ctxDone' \in [Callers -> BOOLEAN]
    BY <1>2 DEF ContextDone
  <2> QED BY <1>2, <2>1 DEF ContextDone
<1>3. ASSUME NEW p \in Callers, Lock(p) PROVE CallTypes'
  <2>1. result' \in [Callers -> Results]
    BY <1>3, EndedFacts DEF Lock, Return
  <2>2. sent' \in [Callers -> 0..1]
    BY <1>3 DEF Lock
  <2>3. UNCHANGED <<kind, ctxDone, attempt, attempts, calls>>
    BY <1>3 DEF Lock
  <2> QED BY <2>1, <2>2, <2>3
<1>4. ASSUME NEW p \in Callers, WriteFragment(p) PROVE CallTypes'
  <2>1. attempts' \in Nat /\ attempt' \in [Callers -> 0..attempts']
    BY <1>4, ReceiveType DEF WriteFragment
  <2>2. sent' \in [Callers -> 0..1]
    <3>1. sent[p] \in 0..1 /\ Fragments(kind[p]) \in {1, 2}
      BY FragmentsFacts
    <3>2. sent' = [sent EXCEPT ![p] = IF sent[p] + 1 < Fragments(kind[p]) THEN sent[p] + 1 ELSE 0]
      BY <1>4 DEF WriteFragment
    <3> QED BY <3>1, <3>2
  <2> QED BY <1>4, <2>1, <2>2 DEF WriteFragment
<1>5. ASSUME NEW p \in Callers, NEW d \in BOOLEAN, WriteFails(p, d) PROVE CallTypes'
  <2>1. attempts' \in Nat /\ attempt' \in [Callers -> 0..attempts']
    <3>1. CASE d
      BY <1>5, <3>1, ReceiveType DEF WriteFails
    <3>2. CASE ~d
      BY <1>5, <3>2 DEF WriteFails
    <3> QED BY <3>1, <3>2
  <2>2. sent' \in [Callers -> 0..1]
    BY <1>5 DEF WriteFails
  <2>3. UNCHANGED <<kind, ctxDone, result, calls>>
    BY <1>5 DEF WriteFails
  <2> QED BY <2>1, <2>2, <2>3
<1>6. ASSUME NEW p \in Callers, TakeAnswer(p) PROVE CallTypes'
  <2>1. answer[p] \in Verdicts
    BY <1>6 DEF TakeAnswer, TypeOK
  <2>2. \/ UNCHANGED result
        \/ answer[p].end \notin {"busy", "io"} /\ result' = [result EXCEPT ![p] = answer[p]]
    BY <1>6 DEF TakeAnswer, Continue, Return
  <2>3. result' \in [Callers -> Results]
    BY <2>1, <2>2, EndedFacts
  <2> QED BY <1>6, <2>3 DEF TakeAnswer
<1>7. ASSUME NEW p \in Callers, RetryCanceled(p) \/ Drained(p) PROVE CallTypes'
  <2>1. result' \in [Callers -> Results]
    BY <1>7, EndedFacts DEF RetryCanceled, Drained, Continue, Return
  <2> QED BY <1>7, <2>1 DEF RetryCanceled, Drained
<1>8. ASSUME NEW p \in Procs, CloseReturns(p) PROVE CallTypes'
  <2>1. result' \in [Callers -> Results]
    BY <1>8, EndedFacts DEF CloseReturns, Continue, Return, Procs
  <2> QED BY <1>8, <2>1 DEF CloseReturns
<1>9. ASSUME NEW p \in Callers, AwaitCanceled(p) \/ Retry(p) \/ DrainExpires(p)
                                \/ ReadFragment(p) \/ ReadFails(p)
      PROVE  CallTypes'
  BY <1>9 DEF AwaitCanceled, Retry, DrainExpires, ReadFragment, ReadFails
<1>10. ASSUME NEW p \in Procs, Acquire(p) \/ CancelWritten(p) \/ CancelFails(p) \/ BeginClose(p)
                               \/ Shut(p) \/ ReleaseFirst(p) \/ ReleaseSecond(p)
       PROVE  CallTypes'
  BY <1>10 DEF Acquire, CancelWritten, CancelFails, BeginClose, Shut, ReleaseFirst, ReleaseSecond
<1>11. CASE CallClose
  BY <1>11 DEF CallClose
<1>12. CASE Environment
  BY <1>12, EnvironmentIdle DEF Idle
<1>13. CASE UNCHANGED vars
  BY <1>13 DEF vars
<1> HIDE DEF CallTypes
<1> QED
  BY <1>1, <1>2, <1>3, <1>4, <1>5, <1>6, <1>7, <1>8, <1>9, <1>10, <1>11, <1>12, <1>13
     DEF Next, CallerStep, CloseStep

\* So do the readers, their assemblers and their result channels.
LEMMA ReadTypeStep == TypeOK /\ [Next]_vars => ReadTypes'
<1> SUFFICES ASSUME ReadTypes, TypeOK, [Next]_vars PROVE ReadTypes'
  BY TypeGroups
<1> USE DEF readVars, ReadTypes
<1>1. ASSUME NEW p \in Callers, WriteFragment(p) PROVE ReadTypes'
  <2>1. reader' \in [Callers -> BOOLEAN]
    BY <1>1 DEF WriteFragment
  <2> QED BY <1>1, <2>1 DEF WriteFragment
<1>2. ASSUME NEW p \in Callers, ReadFragment(p) PROVE ReadTypes'
  <2> DEFINE f == Head(notes)
  <2> DEFINE g == IF frame[p] # None THEN frame[p] ELSE f
  <2>0. notes \in Seq(Notifications)
    BY DEF TypeOK
  <2>1. f \in Notifications
    BY <1>2, <2>0, TailFacts DEF ReadFragment
  <2>2. g.n \in Nat /\ g.cmd \in Answers /\ f.seq \in Nat
    BY <2>1 DEF Notifications, Frames
  <2> HIDE DEF g, f
  <2>3. \/ Answer(p, Ended("framing"))
        \/ Assembled(p, g)
        \/ /\ frame' = [frame EXCEPT ![p] = [n |-> g.n, cmd |-> g.cmd, next |-> f.seq + 1]]
           /\ UNCHANGED <<reader, answer>>
    BY <1>2 DEF ReadFragment, f, g
  <2>4. CASE Answer(p, Ended("framing"))
    BY <2>4, AnswerType, EndedFacts
  <2>5. CASE Assembled(p, g)
    BY <2>2, <2>5, AssembledType
  <2>6. CASE /\ frame' = [frame EXCEPT ![p] = [n |-> g.n, cmd |-> g.cmd, next |-> f.seq + 1]]
             /\ UNCHANGED <<reader, answer>>
    <3>1. [n |-> g.n, cmd |-> g.cmd, next |-> f.seq + 1] \in Frames
      BY <2>2 DEF Frames
    <3> QED BY <2>6, <3>1
  <2> QED BY <2>3, <2>4, <2>5, <2>6
<1>3. ASSUME NEW p \in Callers, ReadFails(p) PROVE ReadTypes'
  BY <1>3, AnswerType, EndedFacts DEF ReadFails
<1>4. ASSUME NEW p \in Callers, TakeAnswer(p) \/ Drained(p) PROVE ReadTypes'
  BY <1>4 DEF TakeAnswer, Drained
<1>5. ASSUME NEW p \in Callers, \/ \E k \in Kinds : Call(p, k)
                                \/ ContextDone(p) \/ Lock(p) \/ (\E d \in BOOLEAN : WriteFails(p, d))
                                \/ AwaitCanceled(p) \/ Retry(p) \/ RetryCanceled(p) \/ DrainExpires(p)
      PROVE  ReadTypes'
  BY <1>5 DEF Call, ContextDone, Lock, WriteFails, AwaitCanceled, Retry, RetryCanceled, DrainExpires
<1>6. ASSUME NEW p \in Procs, CloseStep(p) PROVE ReadTypes'
  BY <1>6 DEF CloseStep, Acquire, CancelWritten, CancelFails, BeginClose, Shut, ReleaseFirst,
              ReleaseSecond, CloseReturns
<1>7. CASE CallClose
  BY <1>7 DEF CallClose
<1>8. CASE Environment
  BY <1>8, EnvironmentIdle DEF Idle
<1>9. CASE UNCHANGED vars
  BY <1>9 DEF vars
<1> HIDE DEF ReadTypes
<1> QED
  BY <1>1, <1>2, <1>3, <1>4, <1>5, <1>6, <1>7, <1>8, <1>9 DEF Next, CallerStep

\* So do the authenticator's queues, and it sends only what answers a request.
LEMMA QueueTypeStep == TypeOK /\ Served /\ [Next]_vars => QueueTypes' /\ Served'
<1> SUFFICES ASSUME QueueTypes, TypeOK, Served, [Next]_vars PROVE QueueTypes' /\ Served'
  BY TypeGroups
<1> USE BleAssumption DEF devVars, QueueTypes
<1>1. ASSUME NEW p \in Callers, Receive(p), UNCHANGED <<sending, notes, busy>>
      PROVE  QueueTypes' /\ Served'
  <2>1. inbox' \in Seq(Requests)
    BY <1>1, ReceiveType
  <2>2. inbox' = inbox \/ \E x \in Requests : inbox' = Append(inbox, x)
    <3>1. attempts' \in Nat /\ kind[p] \in Kinds
      BY <1>1, ReceiveType DEF TypeOK
    <3>2. [n |-> attempts', cmd |-> kind[p]] \in Requests
      BY <3>1 DEF Requests
    <3> QED BY <1>1, <3>2 DEF Receive
  <2>3. inbox # <<>> => inbox' # <<>>
    BY <2>2, AppendFacts
  <2> QED BY <1>1, <2>1, <2>3 DEF Served
<1>2. ASSUME NEW p \in Callers, WriteFragment(p) PROVE QueueTypes' /\ Served'
  BY <1>1, <1>2 DEF WriteFragment
<1>3. ASSUME NEW p \in Callers, NEW d \in BOOLEAN, WriteFails(p, d) PROVE QueueTypes' /\ Served'
  <2>1. CASE d
    BY <1>1, <1>3, <2>1 DEF WriteFails
  <2>2. CASE ~d
    BY <1>3, <2>2 DEF WriteFails, Served
  <2> QED BY <2>1, <2>2
<1>4. ASSUME NEW p \in Callers, ReadFragment(p) PROVE QueueTypes' /\ Served'
  <2>1. notes' \in Seq(Notifications)
    BY <1>4, TailFacts DEF ReadFragment
  <2> QED BY <1>4, <2>1 DEF ReadFragment, Served
<1>5. ASSUME NEW p \in Callers,
             \/ \E k \in Kinds : Call(p, k)
             \/ ContextDone(p) \/ Lock(p) \/ ReadFails(p) \/ TakeAnswer(p) \/ AwaitCanceled(p)
             \/ Retry(p) \/ RetryCanceled(p) \/ Drained(p) \/ DrainExpires(p)
      PROVE  QueueTypes' /\ Served'
  BY <1>5 DEF Call, ContextDone, Lock, ReadFails, TakeAnswer, AwaitCanceled, Retry, RetryCanceled,
              Drained, DrainExpires, Served
<1>6. ASSUME NEW p \in Procs, CloseStep(p) PROVE QueueTypes' /\ Served'
  BY <1>6 DEF CloseStep, Acquire, CancelWritten, CancelFails, BeginClose, Shut, ReleaseFirst,
              ReleaseSecond, CloseReturns, Served
<1>7. CASE CallClose
  BY <1>7 DEF CallClose, Served
<1>8. CASE KeepAlive
  <2>1. Head(inbox) \in Requests
    BY <1>8, TailFacts DEF KeepAlive
  <2>2. Head(inbox).n \in Nat
    BY <2>1 DEF Requests
  <2>3. Fragment(Head(inbox).n, "KEEPALIVE", 0, 1) \in Notifications
    <3> DEFINE n == Head(inbox).n
    <3>1. n \in Nat /\ "KEEPALIVE" \in Answers /\ 0 \in Nat /\ 1 \in Nat
      BY <2>2 DEF Answers
    <3> HIDE DEF n
    <3>2. Fragment(n, "KEEPALIVE", 0, 1) \in Notifications
      BY <3>1, FragmentFacts
    <3> QED BY <3>2 DEF n
  <2>4. notes' \in Seq(Notifications)
    <3> DEFINE x == Fragment(Head(inbox).n, "KEEPALIVE", 0, 1)
    <3>1. x \in Notifications /\ notes' = <<x>>
      BY <1>8, <2>3 DEF KeepAlive
    <3> HIDE DEF x
    <3> QED BY <3>1
  <2>5. UNCHANGED <<inbox, sending, busy>> /\ inbox # <<>>
    BY <1>8 DEF KeepAlive
  <2> QED BY <2>4, <2>5 DEF Served
<1>9. CASE Answering
  <2>1. PICK c \in {Head(inbox).cmd, "BUSY", "ERROR"}, l \in Nat : Respond(c, l)
    BY <1>9 DEF Answering
  <2>2. Head(inbox) \in Requests
    BY <2>1, TailFacts DEF Respond
  <2>3. Head(inbox).n \in Nat /\ c \in Answers
    BY <2>2 DEF Requests, Answers
  <2>4. sending' \in Seq(Notifications)
    BY <2>1, <2>3, ResponseFacts DEF Respond
  <2> QED BY <2>1, <2>4 DEF Respond, Served
<1>10. CASE Notify
  <2>1. Head(sending) \in Notifications /\ sending' \in Seq(Notifications) /\ Len(sending') = Len(sending) - 1
        /\ inbox # <<>>
    BY <1>10, TailFacts DEF Notify, Served
  <2>2. notes' \in Seq(Notifications)
    BY <1>10, <2>1, AppendFacts DEF Notify
  <2>3. CASE Len(sending) = 1
    <3>1. inbox' \in Seq(Requests)
      <4>1. inbox' = Tail(inbox)
        BY <1>10, <2>3 DEF Notify
      <4> QED BY <2>1, <4>1, TailFacts
    <3>2. sending' = <<>>
      BY <2>1, <2>3
    <3> QED BY <1>10, <2>1, <2>2, <3>1, <3>2 DEF Notify, Served
  <2>4. CASE Len(sending) # 1
    BY <1>10, <2>1, <2>2, <2>4 DEF Notify, Served
  <2> QED BY <2>3, <2>4
<1>11. CASE Disconnect
  BY <1>11 DEF Disconnect, Served
<1>12. CASE UNCHANGED vars
  BY <1>12 DEF vars, Served
<1> HIDE DEF QueueTypes
<1> QED
  BY <1>2, <1>3, <1>4, <1>5, <1>6, <1>7, <1>8, <1>9, <1>10, <1>11, <1>12, EnvironmentCases
     DEF Next, CallerStep

\* Every step of a caller, of its reader, of Close and of the authenticator
\* keeps the types.
LEMMA TypeStep == TypeOK /\ Served /\ [Next]_vars => TypeOK' /\ Served'
<1> SUFFICES ASSUME TypeOK, Served, [Next]_vars PROVE TypeOK' /\ Served'
  OBVIOUS
<1>1. ControlTypes' /\ FlagTypes' /\ CallTypes' /\ ReadTypes' /\ QueueTypes' /\ Served'
  BY ControlTypeStep, FlagTypeStep, CallTypeStep, ReadTypeStep, QueueTypeStep
<1>2. (ControlTypes /\ FlagTypes /\ CallTypes /\ ReadTypes /\ QueueTypes)' => TypeOK'
  BY DEF TypeOK, ControlTypes, FlagTypes, CallTypes, ReadTypes, QueueTypes
<1> QED BY <1>1, <1>2

-----------------------------------------------------------------------------
(* The mutex, the gate and closeOnce. *)

\* commandMu is taken by Lock alone and given back by the one return of the
\* call, so one caller at a time is inside CBOR or Ping.
LEMMA HolderStep == TypeOK /\ Holder /\ [Next]_vars => Holder'
<1> SUFFICES ASSUME ControlTypes, Holder, TypeOK, [Next]_vars PROVE Holder'
  BY TypeGroups
<1> USE BleAssumption DEF Procs, Goto, callVars, ControlTypes, Holder
<1>1. ASSUME NEW p \in Callers, NEW k \in Kinds, Call(p, k) PROVE Holder'
  BY <1>1 DEF Call
<1>2. ASSUME NEW p \in Callers, Lock(p) PROVE Holder'
  <2>1. CASE ctxDone[p]
    BY <1>2, <2>1 DEF Lock, Return
  <2>2. CASE ~ctxDone[p]
    BY <1>2, <2>2 DEF Lock
  <2> QED BY <2>1, <2>2
<1>3. ASSUME NEW p \in Callers, WriteFragment(p) PROVE Holder'
  <2>1. (pc' = pc \/ pc' = [pc EXCEPT ![p] = "await"]) /\ mu' = mu /\ pc[p] = "write"
    BY <1>3 DEF WriteFragment
  <2> QED BY <2>1
<1>4. ASSUME NEW p \in Callers, NEW d \in BOOLEAN, WriteFails(p, d) PROVE Holder'
  <2>1. pc' = [pc EXCEPT ![p] = "close"] /\ mu' = mu /\ pc[p] \in {"gate", "write"}
    BY <1>4 DEF WriteFails
  <2> QED BY <2>1
<1>5. ASSUME NEW p \in Callers, TakeAnswer(p) \/ Drained(p) \/ RetryCanceled(p) PROVE Holder'
  <2>1. /\ pc[p] \in {"await", "drain", "retry"}
        /\ \/ pc' = [pc EXCEPT ![p] = "idle"] /\ mu' = None
           \/ pc' = [pc EXCEPT ![p] = "retry"] /\ mu' = mu
           \/ pc' = [pc EXCEPT ![p] = "close"] /\ mu' = mu
    BY <1>5 DEF TakeAnswer, Drained, RetryCanceled, Continue, Return
  <2> QED BY <2>1
<1>6. ASSUME NEW p \in Callers, AwaitCanceled(p) \/ Retry(p) \/ DrainExpires(p) PROVE Holder'
  <2>1. /\ pc[p] \in {"await", "drain", "retry"} /\ mu' = mu
        /\ \E l \in {"cgate", "close", "gate"} : pc' = [pc EXCEPT ![p] = l]
    BY <1>6 DEF AwaitCanceled, Retry, DrainExpires
  <2> QED BY <2>1
<1>7. ASSUME NEW p \in Procs, Acquire(p) PROVE Holder'
  <2>1. \/ pc[p] \in {"gate", "cgate"} /\ GateOf[pc[p]] \in {"write", "cwrite"}
        \/ pc[p] = "xgate" /\ GateOf[pc[p]] = "xwrite"
    BY <1>7 DEF Acquire, GateOf
  <2>2. pc' = [pc EXCEPT ![p] = GateOf[pc[p]]] /\ mu' = mu
    BY <1>7 DEF Acquire
  <2> QED BY <2>1, <2>2
<1>8. ASSUME NEW p \in Procs, CancelWritten(p) \/ CancelFails(p) PROVE Holder'
  <2>1. /\ mu' = mu
        /\ \/ pc[p] \in {"cgate", "cwrite"} /\ \E l \in {"drain", "close"} : pc' = [pc EXCEPT ![p] = l]
           \/ pc[p] \in {"xgate", "xwrite"} /\ pc' = [pc EXCEPT ![p] = "shut"]
    BY <1>8 DEF CancelWritten, CancelFails
  <2> QED BY <2>1
<1>9. ASSUME NEW p \in Procs, BeginClose(p) \/ Shut(p) \/ ReleaseFirst(p) \/ ReleaseSecond(p)
      PROVE  Holder'
  <2>1. /\ mu' = mu /\ pc[p] \in {"close", "shut", "release"}
        /\ pc' = pc \/ \E l \in {"xgate", "shut", "release", "close"} : pc' = [pc EXCEPT ![p] = l]
    BY <1>9 DEF BeginClose, Shut, ReleaseFirst, ReleaseSecond
  <2> QED BY <2>1
<1>10. ASSUME NEW p \in Procs, CloseReturns(p) PROVE Holder'
  <2>1. CASE p = Closer
    BY <1>10, <2>1 DEF CloseReturns, Continue
  <2>2. CASE p # Closer
    BY <1>10, <2>2 DEF CloseReturns, Return
  <2> QED BY <2>1, <2>2
<1>11. CASE CallClose
  BY <1>11 DEF CallClose
<1>12. ASSUME NEW p \in Callers, ContextDone(p) \/ ReadFragment(p) \/ ReadFails(p) PROVE Holder'
  BY <1>12 DEF ContextDone, ReadFragment, ReadFails
<1>13. CASE Environment
  BY <1>13, EnvironmentIdle DEF Idle
<1>14. CASE UNCHANGED vars
  BY <1>14 DEF vars
<1> HIDE DEF Holder
<1> QED
  BY <1>1, <1>2, <1>3, <1>4, <1>5, <1>6, <1>7, <1>8, <1>9, <1>10, <1>11, <1>12, <1>13, <1>14
     DEF Next, CallerStep, CloseStep

\* fidoControlPointWriteGate keeps a CANCEL, of the caller or of Close, out of
\* a frame that is being written.
LEMMA GatedStep == TypeOK /\ Holder /\ Gated /\ [Next]_vars => Gated'
<1> SUFFICES ASSUME ControlTypes, Holder, Gated, TypeOK, [Next]_vars PROVE Gated'
  BY TypeGroups
<1>0. /\ sent \in [Callers -> 0..1] /\ kind \in [Callers -> Kinds]
      /\ \A p \in Callers : Fragments(kind[p]) \in {1, 2}
  BY FragmentsFacts DEF TypeOK
<1> USE <1>0, BleAssumption DEF Procs, Goto, callVars, devVars, ControlTypes, Gated
<1>1. ASSUME NEW p \in Callers, NEW k \in Kinds, Call(p, k) PROVE Gated'
  BY <1>1 DEF Call
<1>2. ASSUME NEW p \in Callers, Lock(p) PROVE Gated'
  <2>1. CASE ctxDone[p]
    BY <1>2, <2>1 DEF Lock, Return
  <2>2. CASE ~ctxDone[p]
    BY <1>2, <2>2 DEF Lock
  <2> QED BY <2>1, <2>2
<1>3. ASSUME NEW p \in Callers, WriteFragment(p) PROVE Gated'
  <2>1. CASE sent[p] + 1 < Fragments(kind[p])
    <3>1. UNCHANGED <<pc, gate>> /\ half' = p /\ sent' = [sent EXCEPT ![p] = sent[p] + 1] /\ pc[p] = "write"
      BY <1>3, <2>1 DEF WriteFragment, Receive
    <3>2. \A q \in Callers : q # p => sent[q] = 0
      BY <3>1, <1>0
    <3> QED BY <3>1, <3>2
  <2>2. CASE ~(sent[p] + 1 < Fragments(kind[p]))
    <3>1. /\ pc' = [pc EXCEPT ![p] = "await"] /\ gate' = None /\ sent' = [sent EXCEPT ![p] = 0]
          /\ pc[p] = "write"
      BY <1>3, <2>2 DEF WriteFragment, Release
    <3>2. \A q \in Callers : sent'[q] = 0
      BY <3>1
    <3> QED BY <3>1, <3>2
  <2> QED BY <2>1, <2>2
<1>4. ASSUME NEW p \in Callers, NEW d \in BOOLEAN, WriteFails(p, d) PROVE Gated'
  <2>1. /\ pc' = [pc EXCEPT ![p] = "close"] /\ sent' = [sent EXCEPT ![p] = 0]
        /\ gate' = (IF gate = p THEN None ELSE gate)
        /\ pc[p] = "write" \/ (pc[p] = "gate" /\ half' = half)
    BY <1>4 DEF WriteFails, Release
  <2>2. \A q \in Procs : pc'[q] \in {"write", "cwrite", "xwrite"} <=> gate' = q
    BY <2>1
  <2>3. \A q \in Callers : sent'[q] > 0 => pc'[q] = "write" /\ half' = q
    BY <2>1
  <2> QED BY <2>2, <2>3
<1>5. ASSUME NEW p \in Callers, TakeAnswer(p) \/ Drained(p) \/ RetryCanceled(p) PROVE Gated'
  <2>1. /\ pc[p] \in {"await", "drain", "retry"}
        /\ \E l \in {"idle", "retry", "close"} : pc' = [pc EXCEPT ![p] = l]
        /\ UNCHANGED <<gate, sent, half>>
    BY <1>5 DEF TakeAnswer, Drained, RetryCanceled, Continue, Return
  <2> QED BY <2>1
<1>6. ASSUME NEW p \in Callers, AwaitCanceled(p) \/ Retry(p) \/ DrainExpires(p) PROVE Gated'
  <2>1. /\ pc[p] \in {"await", "drain", "retry"} /\ UNCHANGED <<gate, sent, half>>
        /\ \E l \in {"cgate", "close", "gate"} : pc' = [pc EXCEPT ![p] = l]
    BY <1>6 DEF AwaitCanceled, Retry, DrainExpires
  <2> QED BY <2>1
<1>7. ASSUME NEW p \in Procs, Acquire(p) PROVE Gated'
  <2>1. GateOf[pc[p]] \in {"write", "cwrite", "xwrite"} /\ pc[p] \notin {"write", "cwrite", "xwrite"}
    BY <1>7 DEF Acquire, GateOf
  <2>2. pc' = [pc EXCEPT ![p] = GateOf[pc[p]]] /\ gate = None /\ gate' = p /\ UNCHANGED <<sent, half>>
    BY <1>7 DEF Acquire
  <2>3. \A q \in Procs : pc[q] \notin {"write", "cwrite", "xwrite"}
    BY <2>2
  <2> QED BY <2>1, <2>2, <2>3
<1>8. ASSUME NEW p \in Procs, CancelWritten(p) \/ CancelFails(p) PROVE Gated'
  <2>1. /\ \E l \in {"drain", "close", "shut"} : pc' = [pc EXCEPT ![p] = l]
        /\ pc[p] \in {"cgate", "cwrite", "xgate", "xwrite"} /\ sent' = sent
        /\ gate' = (IF gate = p THEN None ELSE gate)
        /\ half' = half \/ pc[p] \in {"cwrite", "xwrite"}
    BY <1>8 DEF CancelWritten, CancelFails, Release
  <2>2. \A q \in Callers : sent[q] > 0 => q # p
    BY <2>1
  <2>3. \A q \in Callers : sent[q] > 0 => half' = half
    BY <2>1, <2>2
  <2>4. \A q \in Procs : pc'[q] \in {"write", "cwrite", "xwrite"} <=> gate' = q
    BY <2>1
  <2> QED BY <2>1, <2>2, <2>3, <2>4
<1>9. ASSUME NEW p \in Procs, BeginClose(p) \/ Shut(p) \/ ReleaseFirst(p) \/ ReleaseSecond(p) \/ CloseReturns(p)
      PROVE  Gated'
  <2>1. /\ UNCHANGED <<gate, sent, half>> /\ pc[p] \in {"close", "shut", "release"}
        /\ pc' = pc \/ \E l \in {"xgate", "shut", "release", "close", "closed", "idle"} : pc' = [pc EXCEPT ![p] = l]
    BY <1>9 DEF BeginClose, Shut, ReleaseFirst, ReleaseSecond, CloseReturns, Continue, Return
  <2> QED BY <2>1
<1>11. CASE CallClose
  BY <1>11 DEF CallClose
<1>12. ASSUME NEW p \in Callers, ContextDone(p) \/ ReadFragment(p) \/ ReadFails(p) PROVE Gated'
  BY <1>12 DEF ContextDone, ReadFragment, ReadFails
<1>13. CASE Environment
  BY <1>13, EnvironmentIdle DEF Idle
<1>14. CASE UNCHANGED vars
  BY <1>14 DEF vars
<1> HIDE DEF Gated
<1> QED
  BY <1>1, <1>2, <1>3, <1>4, <1>5, <1>6, <1>7, <1>8, <1>9, <1>11, <1>12, <1>13, <1>14
     DEF Next, CallerStep, CloseStep

\* closeOnce runs its function once; a caller is told of the invalidation only
\* after it is done.
LEMMA OnceStep == TypeOK /\ Once /\ [Next]_vars => Once'
<1> SUFFICES ASSUME ControlTypes, Once, TypeOK, [Next]_vars PROVE Once'
  BY TypeGroups
<1>0. /\ result \in [Callers -> Results]
      /\ closed \in BOOLEAN /\ sub \in BOOLEAN /\ peripheral \in BOOLEAN
  BY DEF TypeOK
<1> USE <1>0, BleAssumption DEF Procs, Goto, callVars, closeVars, ControlTypes, Once, Runs
<1>1. ASSUME NEW p \in Procs, NEW l, pc' = [pc EXCEPT ![p] = l],
             l \notin {"xgate", "xwrite", "shut", "release"}, UNCHANGED closeVars,
             UNCHANGED result \/ \E r \in Results : (p \in Callers /\ result' = [result EXCEPT ![p] = r]
                                               /\ (r.end = "invalidated" => once = "done"))
      PROVE  Once'
  BY <1>1
<1>2. ASSUME NEW p \in Callers, NEW k \in Kinds, Call(p, k) PROVE Once'
  BY <1>1, <1>2, EndedFacts DEF Call
<1>3. ASSUME NEW p \in Callers, Lock(p) PROVE Once'
  <2>1. CASE ctxDone[p]
    BY <1>1, <1>3, <2>1, EndedFacts DEF Lock, Return
  <2>2. CASE ~ctxDone[p]
    BY <1>1, <1>3, <2>2 DEF Lock
  <2> QED BY <2>1, <2>2
<1>4. ASSUME NEW p \in Callers, WriteFragment(p) PROVE Once'
  <2>1. UNCHANGED <<closeVars, result>> /\ (pc' = pc \/ pc' = [pc EXCEPT ![p] = "await"])
    BY <1>4 DEF WriteFragment
  <2> QED BY <2>1, <1>1
<1>5. ASSUME NEW p \in Callers, NEW d \in BOOLEAN, WriteFails(p, d) PROVE Once'
  BY <1>1, <1>5 DEF WriteFails
<1>6. ASSUME NEW p \in Callers, TakeAnswer(p) PROVE Once'
  <2>1. answer[p] \in Verdicts
    BY <1>6 DEF TakeAnswer, TypeOK
  <2>2. \/ UNCHANGED result
        \/ answer[p].end \notin {"busy", "io"} /\ result' = [result EXCEPT ![p] = answer[p]]
    BY <1>6 DEF TakeAnswer, Continue, Return
  <2>3. \E l \in {"idle", "retry", "close"} : pc' = [pc EXCEPT ![p] = l]
    BY <1>6 DEF TakeAnswer, Continue, Return
  <2>4. UNCHANGED closeVars
    BY <1>6 DEF TakeAnswer
  <2> QED BY <1>1, <2>1, <2>2, <2>3, <2>4, EndedFacts
<1>7. ASSUME NEW p \in Callers, Drained(p) \/ RetryCanceled(p) PROVE Once'
  <2>1. /\ UNCHANGED closeVars
        /\ \E l \in {"idle", "close"} : pc' = [pc EXCEPT ![p] = l]
        /\ UNCHANGED result \/ result' = [result EXCEPT ![p] = Ended("ctx")]
    BY <1>7 DEF Drained, RetryCanceled, Continue, Return
  <2> QED BY <1>1, <2>1, EndedFacts
<1>8. ASSUME NEW p \in Callers, AwaitCanceled(p) \/ Retry(p) \/ DrainExpires(p) PROVE Once'
  <2>1. /\ UNCHANGED <<closeVars, result>>
        /\ \E l \in {"cgate", "close", "gate"} : pc' = [pc EXCEPT ![p] = l]
    BY <1>8 DEF AwaitCanceled, Retry, DrainExpires
  <2> QED BY <1>1, <2>1
<1>9. ASSUME NEW p \in Procs, Acquire(p) PROVE Once'
  <2>1. pc[p] = "xgate" \/ GateOf[pc[p]] \in {"write", "cwrite"}
    BY <1>9 DEF Acquire, GateOf
  <2>2. GateOf[pc[p]] \in {"write", "cwrite", "xwrite"}
    BY <1>9 DEF Acquire, GateOf
  <2>3. pc' = [pc EXCEPT ![p] = GateOf[pc[p]]] /\ UNCHANGED <<closeVars, result>>
    BY <1>9 DEF Acquire
  <2> QED BY <2>1, <2>2, <2>3
<1>10. ASSUME NEW p \in Procs, CancelWritten(p) \/ CancelFails(p) PROVE Once'
  <2>1. /\ UNCHANGED <<once, closed, sub, peripheral, result>>
        /\ \/ pc[p] \in {"cgate", "cwrite"} /\ \E l \in {"drain", "close"} : pc' = [pc EXCEPT ![p] = l]
           \/ pc[p] \in {"xgate", "xwrite"} /\ pc' = [pc EXCEPT ![p] = "shut"]
    BY <1>10 DEF CancelWritten, CancelFails
  <2> QED BY <2>1
<1>11. ASSUME NEW p \in Procs, BeginClose(p) PROVE Once'
  <2>1. /\ once = "new" /\ once' = "running" /\ UNCHANGED <<closed, sub, peripheral, result>>
        /\ \E l \in {"xgate", "shut"} : pc' = [pc EXCEPT ![p] = l]
    BY <1>11 DEF BeginClose
  <2>2. \A q \in Procs : ~Runs(q)
    BY <2>1
  <2> QED BY <2>1, <2>2
<1>12. ASSUME NEW p \in Procs, Shut(p) PROVE Once'
  BY <1>12 DEF Shut
<1>13. ASSUME NEW p \in Procs, ReleaseFirst(p) PROVE Once'
  BY <1>13 DEF ReleaseFirst
<1>14. ASSUME NEW p \in Procs, ReleaseSecond(p) PROVE Once'
  <2>1. /\ pc[p] = "release" /\ pc' = [pc EXCEPT ![p] = "close"] /\ once' = "done"
        /\ sub' = FALSE /\ peripheral' = FALSE /\ UNCHANGED <<closed, result>>
    BY <1>14 DEF ReleaseSecond
  <2>2. \A q \in Procs : Runs(q) => q = p
    BY <2>1
  <2>3. \A q \in Procs : ~(Runs(q)')
    BY <2>1, <2>2
  <2> QED BY <2>1, <2>2, <2>3
<1>15. ASSUME NEW p \in Procs, CloseReturns(p) PROVE Once'
  <2>1. CASE p = Closer
    BY <1>1, <1>15, <2>1 DEF CloseReturns, Continue
  <2>2. CASE p # Closer
    BY <1>1, <1>15, <2>2, EndedFacts DEF CloseReturns, Return
  <2> QED BY <2>1, <2>2
<1>16. CASE CallClose
  BY <1>1, <1>16 DEF CallClose
<1>17. ASSUME NEW p \in Callers, ContextDone(p) \/ ReadFragment(p) \/ ReadFails(p) PROVE Once'
  <2>1. UNCHANGED <<pc, once, closed, peripheral, result>>
    BY <1>17 DEF ContextDone, ReadFragment, ReadFails
  <2>2. CASE ReadFails(p)
    <3>1. sub' = (sub /\ closed)
      BY <2>2 DEF ReadFails
    <3>2. ~sub => ~sub'
      BY <3>1
    <3> QED BY <2>1, <3>2
  <2>3. CASE ContextDone(p) \/ ReadFragment(p)
    BY <2>1, <2>3 DEF ContextDone, ReadFragment
  <2> QED BY <1>17, <2>2, <2>3
<1>18. CASE Environment
  BY <1>18, EnvironmentIdle DEF Idle
<1>19. CASE UNCHANGED vars
  BY <1>19 DEF vars
<1> HIDE DEF Once
<1> QED
  BY <1>2, <1>3, <1>4, <1>5, <1>6, <1>7, <1>8, <1>9, <1>10, <1>11, <1>12, <1>13, <1>14,
     <1>15, <1>16, <1>17, <1>18, <1>19 DEF Next, CallerStep, CloseStep

-----------------------------------------------------------------------------
(* The exchange. *)

\* The arguments of a call.
LEMMA CallFacts ==
    ASSUME TypeOK, NEW p \in Callers
    PROVE  attempt[p] \in Nat /\ attempt[p] <= attempts /\ attempts \in Nat /\ kind[p] \in {"MSG", "PING"}
<1>1. attempt \in [Callers -> 0..attempts] /\ attempts \in Nat /\ kind \in [Callers -> Kinds]
  BY DEF TypeOK
<1>2. attempt[p] \in 0..attempts
  BY <1>1
<1>3. kind[p] \in {"MSG", "PING"}
  BY <1>1, BleAssumption
<1>4. attempt[p] \in Nat /\ attempt[p] <= attempts
  BY <1>1, <1>2
<1> QED BY <1>1, <1>3, <1>4

\* A step that leaves the reader, the queues and the request of an exchange
\* alone leaves it where it is; a CANCEL marks only a request that is there.
LEMMA StageKept ==
    ASSUME NEW p \in Callers, TypeOK, Stage(p),
           UNCHANGED <<reader, answer, frame, inbox, sending, notes>>,
           attempt'[p] = attempt[p], kind'[p] = kind[p],
           canceling' => canceling \/ inbox # <<>>
    PROVE  Stage(p)'
<1>0. canceling \in BOOLEAN
  BY DEF TypeOK
<1>1. CASE Processing(p)
  BY <1>1 DEF Processing, Request, Stage
<1>2. CASE Responding(p)
  <2>1. \A c, l, k, d : Stream(p, c, l, k, d) => Stream(p, c, l, k, d)'
    BY DEF Stream
  <2>2. \E c \in {kind[p], "BUSY", "ERROR"}, l \in Nat, k \in {0, 1}, d \in Nat : Stream(p, c, l, k, d)'
    BY <1>2, <2>1 DEF Responding
  <2>3. canceling' => sending' # <<>>
    BY <1>2 DEF Responding
  <2>4. (inbox = IF sending = <<>> THEN <<>> ELSE <<Request(p)>>)'
    BY <1>2 DEF Responding, Request
  <2>5. Responding(p)'
    BY <1>2, <2>2, <2>3, <2>4 DEF Responding
  <2> QED BY <2>5 DEF Stage
<1>3. CASE Answered(p)
  BY <1>3 DEF Answered, Stage
<1>4. CASE Broken(p)
  BY <1>4 DEF Broken, Stage
<1> QED BY <1>1, <1>2, <1>3, <1>4 DEF Stage

\* A keep-alive is queued only while the request is processed and the queue is
\* empty.
LEMMA KeepAliveStage ==
    ASSUME NEW p \in Callers, TypeOK, Stage(p), KeepAlive
    PROVE  Stage(p)'
<1>0. /\ inbox # <<>> /\ sending = <<>> /\ notes = <<>>
      /\ notes' = <<Fragment(Head(inbox).n, "KEEPALIVE", 0, 1)>>
      /\ UNCHANGED <<inbox, sending, canceling, reader, answer, frame, attempt, kind>>
  BY DEF KeepAlive, Idle, readVars, callVars
<1>1. CASE Processing(p)
  <2>1. Head(inbox) \in Requests
    BY <1>0, TailFacts DEF TypeOK
  <2>2. Head(inbox).n \in Nat
    BY <2>1 DEF Requests
  <2>3. IsKeepAlive(Fragment(Head(inbox).n, "KEEPALIVE", 0, 1))
    BY <2>2, FragmentFacts DEF IsKeepAlive, Answers
  <2>4. Len(notes') = 1 /\ \A i \in 1..Len(notes') : IsKeepAlive(notes'[i])
    BY <1>0, <2>3
  <2>5. Processing(p)'
    BY <1>0, <1>1, <2>4 DEF Processing, Request
  <2> QED BY <2>5 DEF Stage
<1>2. CASE Responding(p) \/ Answered(p)
  BY <1>0, <1>2 DEF Responding, Answered
<1>3. CASE Broken(p)
  BY <1>0, <1>3 DEF Broken, Stage
<1> QED BY <1>1, <1>2, <1>3 DEF Stage

\* The authenticator answers the request of the exchange, behind at most one
\* keep-alive that the reader has not taken.
LEMMA AnsweringStage ==
    ASSUME NEW p \in Callers, TypeOK, Stage(p), Answering
    PROVE  Stage(p)'
<1>1. PICK c \in {Head(inbox).cmd, "BUSY", "ERROR"}, l \in Nat \ {0} : Respond(c, l)
  BY DEF Answering
<1>0. /\ inbox # <<>> /\ sending = <<>> /\ sending' = Response(Head(inbox).n, c, l)
      /\ UNCHANGED <<inbox, notes, canceling, reader, answer, frame, attempt, kind>>
  BY <1>1 DEF Respond, Idle, readVars, callVars
<1>2. CASE Processing(p)
  <2>1. inbox = <<Request(p)>> /\ Head(inbox) = Request(p)
    BY <1>2 DEF Processing
  <2>2. Head(inbox).n = attempt[p] /\ Head(inbox).cmd = kind[p]
    BY <2>1 DEF Request
  <2>3. attempt[p] \in Nat /\ kind[p] \in {"MSG", "PING"}
    BY CallFacts
  <2>4. c \in {kind[p], "BUSY", "ERROR"} /\ c \in Answers
    BY <2>2, <2>3 DEF Answers
  <2>5. /\ Len(sending') = l
        /\ \A i \in 1..l : sending'[i] = Fragment(attempt[p], c, i - 1, l)
    <3>1. sending' = Response(attempt[p], c, l) /\ l \in Nat
      BY <1>0, <2>2
    <3>2. /\ Len(Response(attempt[p], c, l)) = l
          /\ \A i \in 1..l : Response(attempt[p], c, l)[i] = Fragment(attempt[p], c, i - 1, l)
      <4> DEFINE n == attempt[p]
      <4>1. n \in Nat /\ c \in Answers /\ l \in Nat
        BY <2>3, <2>4
      <4> HIDE DEF n
      <4>2. Len(Response(n, c, l)) = l /\ \A i \in 1..l : Response(n, c, l)[i] = Fragment(n, c, i - 1, l)
        BY <4>1, ResponseFacts
      <4> QED BY <4>2 DEF n
    <3> QED BY <3>1, <3>2
  <2>6. notes \in Seq(Notifications) /\ Len(notes) \in {0, 1}
    BY <1>2 DEF TypeOK, Processing
  <2>7. \A i \in 1..Len(notes) : IsKeepAlive(notes[i])
    BY <1>2 DEF Processing
  <2> PICK k \in {0, 1} : k = Len(notes)
    BY <2>6
  <2>8. Stream(p, c, l, k, 0)'
    <3>1. frame'[p] = None /\ Len(notes') = Len(notes) /\ notes' = notes
      BY <1>0, <1>2 DEF Processing
    <3> QED BY <1>0, <2>5, <2>6, <2>7, <3>1 DEF Stream
  <2>9. sending' # <<>>
    BY <2>5
  <2>10. Responding(p)'
    <3>1. reader'[p] /\ answer'[p] = None /\ inbox' = <<Request(p)'>>
      BY <1>0, <1>2, <2>1 DEF Processing, Request
    <3>2. c \in {kind'[p], "BUSY", "ERROR"} /\ l \in Nat /\ 0 \in Nat
      BY <1>0, <2>4
    <3> QED BY <2>8, <2>9, <3>1, <3>2 DEF Responding
  <2> QED BY <2>10 DEF Stage
<1>3. CASE Responding(p) \/ Answered(p)
  BY <1>0, <1>3 DEF Responding, Answered
<1>4. CASE Broken(p)
  BY <1>0, <1>4 DEF Broken, Stage
<1> QED BY <1>2, <1>3, <1>4 DEF Stage

\* A fragment moves from the authenticator to the queue; with the last one the
\* request, and a CANCEL of it, are over.
LEMMA NotifyStage ==
    ASSUME NEW p \in Callers, TypeOK, Stage(p), Notify
    PROVE  Stage(p)'
<1>0. /\ sending # <<>> /\ sending' = Tail(sending) /\ notes' = Append(notes, Head(sending))
      /\ IF Len(sending) = 1 THEN inbox' = Tail(inbox) /\ canceling' = FALSE
                             ELSE UNCHANGED <<inbox, canceling>>
      /\ UNCHANGED <<reader, answer, frame, attempt, kind>>
  BY DEF Notify, Idle, readVars, callVars
<1>1. CASE Responding(p)
  <2>1. PICK c \in {kind[p], "BUSY", "ERROR"}, l \in Nat, k \in {0, 1}, d \in Nat : Stream(p, c, l, k, d)
    BY <1>1 DEF Responding
  <2>2. sending \in Seq(Notifications) /\ notes \in Seq(Notifications)
    BY DEF TypeOK
  <2>3. /\ Head(sending) \in Notifications /\ Head(sending) = sending[1]
        /\ Len(sending) \in Nat \ {0} /\ Len(sending') = Len(sending) - 1
        /\ \A i \in 1..Len(sending') : sending'[i] = sending[i + 1] /\ i + 1 \in 1..Len(sending)
        /\ sending' \in Seq(Notifications)
    BY <1>0, <2>2, TailFacts
  <2>4. /\ Len(notes') = Len(notes) + 1 /\ notes'[Len(notes) + 1] = sending[1]
        /\ \A i \in 1..Len(notes) : notes'[i] = notes[i]
        /\ Len(notes) \in Nat
    BY <1>0, <2>2, <2>3, AppendFacts
  <2>5. frame'[p] = frame[p] /\ attempt'[p] = attempt[p] /\ kind'[p] = kind[p]
    BY <1>0
  <2>6. Stream(p, c, l, k, d)'
    <3>0. k <= Len(notes) /\ d + Len(notes) - k + Len(sending) = l /\ d < l
      BY <2>1 DEF Stream
    <3>1. sending[1] = Fragment(attempt[p], c, d + Len(notes) - k, l)
      BY <2>1, <2>3, <2>4 DEF Stream
    <3>2. \A i \in 1..Len(notes') :
             IF i <= k THEN IsKeepAlive(notes'[i])
                       ELSE notes'[i] = Fragment(attempt[p], c, d + i - k - 1, l)
      <4>1. SUFFICES ASSUME NEW i \in 1..Len(notes')
                     PROVE  IF i <= k THEN IsKeepAlive(notes'[i])
                            ELSE notes'[i] = Fragment(attempt[p], c, d + i - k - 1, l)
        OBVIOUS
      <4>2. CASE i = Len(notes) + 1
        BY <2>4, <3>0, <3>1, <4>2
      <4>3. CASE i \in 1..Len(notes)
        BY <2>1, <2>4, <4>3 DEF Stream
      <4> QED BY <2>4, <4>2, <4>3
    <3>3. \A i \in 1..Len(sending') :
             sending'[i] = Fragment(attempt[p], c, d + Len(notes') - k + i - 1, l)
      <4>1. SUFFICES ASSUME NEW i \in 1..Len(sending')
                     PROVE  sending'[i] = Fragment(attempt[p], c, d + Len(notes') - k + i - 1, l)
        OBVIOUS
      <4>2. sending'[i] = sending[i + 1] /\ i + 1 \in 1..Len(sending)
        BY <2>3
      <4>3. sending[i + 1] = Fragment(attempt[p], c, d + Len(notes) - k + (i + 1) - 1, l)
        BY <2>1, <4>2 DEF Stream
      <4>4. i \in Nat /\ Len(notes) \in Nat /\ Len(notes') = Len(notes) + 1
        BY <2>4
      <4>5. d + Len(notes) - k + (i + 1) - 1 = d + Len(notes') - k + i - 1
        BY <4>4
      <4> QED BY <4>2, <4>3, <4>5
    <3>4. (d = 0 /\ frame[p] = None) \/ (d > 0 /\ k = 0 /\ frame[p] = [n |-> attempt[p], cmd |-> c, next |-> d])
      BY <2>1 DEF Stream
    <3>5. k <= Len(notes') /\ d + Len(notes') - k + Len(sending') = l
      <4>1. /\ Len(notes) \in Nat /\ Len(notes') = Len(notes) + 1
            /\ Len(sending) \in Nat /\ Len(sending') = Len(sending) - 1
        BY <2>3, <2>4
      <4> QED BY <3>0, <4>1
    <3> QED BY <2>5, <3>0, <3>2, <3>3, <3>4, <3>5 DEF Stream
  <2>7. inbox = <<Request(p)>>
    BY <1>0, <1>1 DEF Responding
  <2>8. (inbox' = IF sending' = <<>> THEN <<>> ELSE <<Request(p)'>>) /\ (canceling' => sending' # <<>>)
    <3>1. CASE Len(sending) = 1
      BY <1>0, <2>3, <2>7, <3>1
    <3>2. CASE Len(sending) # 1
      <4>1. sending' # <<>>
        BY <2>3, <3>2
      <4>2. Request(p)' = Request(p)
        BY <2>5 DEF Request
      <4> QED BY <1>0, <2>7, <3>2, <4>1, <4>2
    <3> QED BY <3>1, <3>2
  <2>9. Responding(p)'
    BY <1>0, <1>1, <2>5, <2>6, <2>8 DEF Responding
  <2> QED BY <2>9 DEF Stage
<1>2. CASE Processing(p) \/ Answered(p)
  BY <1>0, <1>2 DEF Processing, Answered
<1>3. CASE Broken(p)
  BY <1>0, <1>3 DEF Broken, Stage
<1> QED BY <1>1, <1>2, <1>3 DEF Stage

\* The reader takes a notification: it skips a keep-alive, assembles the frame
\* in order, and finishes with the answer to the request of its exchange when
\* nothing more is to come.
LEMMA ReadStage ==
    ASSUME NEW p \in Callers, TypeOK, pc[p] \in Exchanging, Stage(p), ReadFragment(p)
    PROVE  Stage(p)'
<1> DEFINE f == Head(notes)
           g == IF frame[p] # None THEN frame[p] ELSE f
           assembling == frame[p] # None
<1>0. /\ reader[p] /\ notes # <<>> /\ notes' = Tail(notes)
      /\ UNCHANGED <<inbox, sending, canceling, attempt, kind>>
  BY DEF ReadFragment, callVars
<1>1. ~((f.seq = 0) = assembling \/ (assembling /\ f.seq # frame[p].next)) =>
         IF f.last THEN Assembled(p, g)
         ELSE /\ frame' = [frame EXCEPT ![p] = [n |-> g.n, cmd |-> g.cmd, next |-> f.seq + 1]]
              /\ UNCHANGED <<reader, answer>>
  BY DEF ReadFragment
<1>2. /\ notes \in Seq(Notifications) /\ sending \in Seq(Notifications)
      /\ reader \in [Callers -> BOOLEAN] /\ frame \in [Callers -> Frames \union {None}]
      /\ answer \in [Callers -> Verdicts \union {None}]
      /\ canceling \in BOOLEAN
  BY DEF TypeOK
<1>3. /\ f \in Notifications /\ f = notes[1] /\ Len(notes) \in Nat \ {0} /\ Len(notes') = Len(notes) - 1
      /\ \A i \in 1..Len(notes') : notes'[i] = notes[i + 1] /\ i + 1 \in 1..Len(notes)
      /\ Len(sending) \in Nat
  BY <1>0, <1>2, TailFacts
<1>4. attempt[p] \in Nat /\ kind[p] \in {"MSG", "PING"}
  BY CallFacts
<1> HIDE DEF f, g
\* A keep-alive outside a frame is skipped.
<1>5. ASSUME frame[p] = None, IsKeepAlive(f) PROVE frame'[p] = None /\ UNCHANGED <<reader, answer>>
  <2>1. g = f /\ f.cmd = "KEEPALIVE" /\ f.seq = 0 /\ f.last
    BY <1>5 DEF g, IsKeepAlive
  <2>2. Assembled(p, g)
    BY <1>1, <1>5, <2>1
  <2> QED BY <1>2, <2>1, <2>2 DEF Assembled
<1>6. CASE Processing(p)
  <2>1. frame[p] = None /\ IsKeepAlive(f) /\ Len(notes) = 1
    BY <1>3, <1>6 DEF Processing
  <2>2. frame'[p] = None /\ UNCHANGED <<reader, answer>>
    BY <1>5, <2>1
  <2>3. Len(notes') = 0
    BY <1>3, <2>1
  <2>4. Processing(p)'
    BY <1>0, <1>6, <2>2, <2>3 DEF Processing, Request
  <2> QED BY <2>4 DEF Stage
<1>7. CASE Responding(p)
  <2>1. PICK c \in {kind[p], "BUSY", "ERROR"}, l \in Nat, k \in {0, 1}, d \in Nat : Stream(p, c, l, k, d)
    BY <1>7 DEF Responding
  <2>0. attempt'[p] = attempt[p] /\ kind'[p] = kind[p] /\ Request(p)' = Request(p) /\ c \in Answers
        /\ c # "KEEPALIVE"
    BY <1>0, <1>4 DEF Request, Answers
  <2>2. /\ k <= Len(notes) /\ d + Len(notes) - k + Len(sending) = l /\ d < l
        /\ (d = 0 /\ frame[p] = None) \/ (d > 0 /\ k = 0 /\ frame[p] = [n |-> attempt[p], cmd |-> c, next |-> d])
    BY <2>1 DEF Stream
  <2>3. \A i \in 1..Len(notes) :
          IF i <= k THEN IsKeepAlive(notes[i])
                    ELSE notes[i] = Fragment(attempt[p], c, d + i - k - 1, l)
    BY <2>1 DEF Stream
  <2>4. \A i \in 1..Len(sending) :
          sending[i] = Fragment(attempt[p], c, d + Len(notes) - k + i - 1, l)
    BY <2>1 DEF Stream
  <2>5. ASSUME reader'[p], answer'[p] = None,
               NEW k1 \in {0, 1}, NEW d1 \in Nat, d1 - k1 = d - k + 1, k1 <= k, d1 < l, k1 <= Len(notes'),
               \/ d1 = 0 /\ frame'[p] = None
               \/ d1 > 0 /\ k1 = 0 /\ frame'[p] = [n |-> attempt[p], cmd |-> c, next |-> d1]
        PROVE  Stage(p)'
    <3>1. \A i \in 1..Len(notes') :
             IF i <= k1 THEN IsKeepAlive(notes'[i])
                        ELSE notes'[i] = Fragment(attempt[p], c, d1 + i - k1 - 1, l)
      <4> SUFFICES ASSUME NEW i \in 1..Len(notes')
                   PROVE  IF i <= k1 THEN IsKeepAlive(notes'[i])
                                     ELSE notes'[i] = Fragment(attempt[p], c, d1 + i - k1 - 1, l)
        OBVIOUS
      <4>1. notes'[i] = notes[i + 1] /\ i + 1 \in 1..Len(notes) /\ i \in Nat /\ i > 0
        BY <1>3
      <4>2. k1 = 0
        BY <2>2, <2>5
      <4>3. notes[i + 1] = Fragment(attempt[p], c, d + (i + 1) - k - 1, l)
        BY <2>3, <4>1
      <4>4. d + (i + 1) - k - 1 = d1 + i - k1 - 1
        BY <2>5, <4>1
      <4> QED BY <4>1, <4>2, <4>3, <4>4
    <3>2. d + Len(notes) - k = d1 + Len(notes') - k1
      <4>1. Len(notes) \in Nat /\ Len(notes') = Len(notes) - 1
        BY <1>3
      <4>2. d1 - k1 = d - k + 1
        BY <2>5
      <4> QED BY <4>1, <4>2
    <3>3. \A i \in 1..Len(sending) :
             sending[i] = Fragment(attempt[p], c, d1 + Len(notes') - k1 + i - 1, l)
      BY <2>4, <3>2
    <3>4. d1 + Len(notes') - k1 + Len(sending) = l
      BY <2>2, <3>2
    <3>5. Stream(p, c, l, k1, d1)'
      BY <1>0, <2>0, <2>5, <3>1, <3>3, <3>4 DEF Stream
    <3>6. Responding(p)'
      BY <1>0, <1>7, <2>0, <2>5, <3>5 DEF Responding
    <3> QED BY <3>6 DEF Stage
  <2>6. CASE k = 1
    <3>1. IsKeepAlive(f) /\ d = 0 /\ frame[p] = None
      BY <1>3, <2>2, <2>3, <2>6
    <3>2. frame'[p] = None /\ UNCHANGED <<reader, answer>>
      BY <1>5, <3>1
    <3>3. reader'[p] /\ answer'[p] = None
      BY <1>7, <3>2 DEF Responding
    <3>4. Len(notes') >= 0
      BY <1>3
    <3> QED BY <2>2, <2>5, <2>6, <3>1, <3>2, <3>3, <3>4
  <2>7. CASE k = 0
    <3>1. f = Fragment(attempt[p], c, d, l)
      BY <1>3, <2>3, <2>7
    <3>2. f.n = attempt[p] /\ f.cmd = c /\ f.seq = d /\ (f.last <=> d = l - 1)
      BY <3>1 DEF Fragment
    <3>3. g.n = attempt[p] /\ g.cmd = c
      BY <2>2, <3>2 DEF g
    <3>4. ~((f.seq = 0) = assembling \/ (assembling /\ f.seq # frame[p].next))
      <4>0. [n |-> attempt[p], cmd |-> c, next |-> d] # None
        <5>1. [n |-> attempt[p], cmd |-> c, next |-> d] \in Frames
          BY <1>4, <2>0 DEF Frames
        <5> QED BY <5>1, NoneAssumption
      <4>1. CASE d = 0
        BY <2>2, <3>2, <4>1
      <4>2. CASE d > 0
        BY <2>2, <3>2, <4>0, <4>2
      <4> QED BY <4>1, <4>2
    <3>5. CASE ~f.last
      <4>1. /\ frame' = [frame EXCEPT ![p] = [n |-> g.n, cmd |-> g.cmd, next |-> f.seq + 1]]
            /\ UNCHANGED <<reader, answer>>
        BY <1>1, <3>4, <3>5
      <4>2. frame'[p] = [n |-> attempt[p], cmd |-> c, next |-> d + 1]
        BY <1>2, <3>2, <3>3, <4>1
      <4>3. reader'[p] /\ answer'[p] = None
        BY <1>7, <4>1 DEF Responding
      <4>4. d + 1 < l /\ d + 1 > 0 /\ d + 1 \in Nat /\ Len(notes') >= 0
        BY <1>3, <2>2, <3>2, <3>5
      <4> QED BY <2>5, <2>7, <4>2, <4>3, <4>4
    <3>6. CASE f.last
      <4>1. Assembled(p, g)
        BY <1>1, <3>4, <3>6
      <4>2. \E r \in Verdicts : /\ Answer(p, r) /\ r.end \in {"response", "busy", "error"}
                                /\ r.end = "response" => r.n = attempt[p]
        <5>1. CASE c = "BUSY"
          <6>1. Answer(p, Ended("busy"))
            BY <1>4, <2>0, <3>3, <4>1, <5>1 DEF Assembled
          <6> QED BY <6>1, EndedFacts
        <5>2. CASE c = "ERROR"
          <6>1. Answer(p, Ended("error"))
            BY <1>4, <2>0, <3>3, <4>1, <5>2 DEF Assembled
          <6> QED BY <6>1, EndedFacts
        <5>3. CASE c = kind[p]
          <6>1. Answer(p, [end |-> "response", n |-> attempt[p]])
            BY <1>4, <3>3, <4>1, <5>3 DEF Assembled
          <6> QED BY <1>4, <6>1, EndedFacts
        <5> QED BY <5>1, <5>2, <5>3
      <4>3. PICK r \in Verdicts : /\ Answer(p, r) /\ r.end \in {"response", "busy", "error"}
                                  /\ r.end = "response" => r.n = attempt[p]
        BY <4>2
      <4>4. ~reader'[p] /\ answer'[p] = r
        BY <1>2, <4>3 DEF Answer, Exchanging
      <4>5. Len(notes) = 1 /\ Len(sending) = 0
        BY <1>3, <2>2, <2>7, <3>2, <3>6
      <4>6. notes' = <<>> /\ sending = <<>>
        BY <1>0, <1>2, <4>5
      <4>7. inbox = <<>> /\ ~canceling
        BY <1>7, <4>6 DEF Responding
      <4>8. r # None
        BY <4>3, NoneAssumption
      <4>9. Answered(p)'
        BY <1>0, <2>0, <4>3, <4>4, <4>6, <4>7, <4>8 DEF Answered
      <4> QED BY <4>9 DEF Stage
    <3> QED BY <3>5, <3>6
  <2> QED BY <2>6, <2>7
<1>8. CASE Answered(p) \/ Broken(p)
  BY <1>0, <1>8 DEF Answered, Broken
<1> QED BY <1>6, <1>7, <1>8 DEF Stage

-----------------------------------------------------------------------------
(* Results, and the connection between two commands. *)

\* A call gets its result when it returns.
LEMMA PendingStep == TypeOK /\ Pending /\ [Next]_vars => Pending'
<1> SUFFICES ASSUME ControlTypes, TypeOK, Pending, [Next]_vars PROVE Pending'
  BY TypeGroups
<1>0. result \in [Callers -> Results]
  BY DEF TypeOK
<1> USE <1>0, BleAssumption DEF Procs, Goto, callVars, ControlTypes, Pending
<1>1. ASSUME NEW p \in Procs, NEW l, pc' = [pc EXCEPT ![p] = l], UNCHANGED result,
             p \in Callers => pc[p] # "idle"
      PROVE  Pending'
  BY <1>1
<1>2. ASSUME NEW p \in Callers, NEW r, Return(p, r) PROVE Pending'
  BY <1>2 DEF Return
<1>3. ASSUME NEW p \in Callers, NEW k \in Kinds, Call(p, k) PROVE Pending'
  BY <1>3, EndedFacts DEF Call
<1>4. ASSUME NEW p \in Callers, Lock(p) PROVE Pending'
  BY <1>1, <1>2, <1>4 DEF Lock
<1>5. ASSUME NEW p \in Callers, WriteFragment(p) PROVE Pending'
  <2>1. UNCHANGED result /\ pc[p] = "write" /\ (pc' = pc \/ pc' = [pc EXCEPT ![p] = "await"])
    BY <1>5 DEF WriteFragment
  <2> QED BY <2>1
<1>6. ASSUME NEW p \in Callers, NEW d \in BOOLEAN, WriteFails(p, d) PROVE Pending'
  BY <1>1, <1>6 DEF WriteFails
<1>7. ASSUME NEW p \in Callers, TakeAnswer(p) PROVE Pending'
  <2>1. Continue(p, "retry") \/ Continue(p, "close") \/ Return(p, answer[p])
    BY <1>7 DEF TakeAnswer
  <2> QED BY <1>1, <1>2, <1>7, <2>1 DEF TakeAnswer, Continue
<1>8. ASSUME NEW p \in Callers, Drained(p) \/ RetryCanceled(p) PROVE Pending'
  <2>1. Continue(p, "close") \/ Return(p, Ended("ctx"))
    BY <1>8 DEF Drained, RetryCanceled
  <2> QED BY <1>1, <1>2, <1>8, <2>1 DEF Drained, RetryCanceled, Continue
<1>9. ASSUME NEW p \in Callers, AwaitCanceled(p) \/ Retry(p) \/ DrainExpires(p) PROVE Pending'
  <2>1. /\ UNCHANGED result /\ pc[p] # "idle"
        /\ \E l \in {"cgate", "close", "gate"} : pc' = [pc EXCEPT ![p] = l]
    BY <1>9 DEF AwaitCanceled, Retry, DrainExpires
  <2> QED BY <1>1, <2>1
<1>10. ASSUME NEW p \in Procs, Acquire(p) PROVE Pending'
  <2>1. pc[p] # "idle"
    BY <1>10 DEF Acquire, GateOf
  <2> QED BY <1>1, <1>10, <2>1 DEF Acquire
<1>11. ASSUME NEW p \in Procs, CancelWritten(p) \/ CancelFails(p) PROVE Pending'
  <2>1. /\ UNCHANGED result /\ pc[p] # "idle"
        /\ \E l \in {"drain", "close", "shut"} : pc' = [pc EXCEPT ![p] = l]
    BY <1>11 DEF CancelWritten, CancelFails
  <2> QED BY <1>1, <2>1
<1>12. ASSUME NEW p \in Procs, BeginClose(p) \/ Shut(p) \/ ReleaseFirst(p) \/ ReleaseSecond(p) PROVE Pending'
  <2>1. /\ UNCHANGED result /\ pc[p] # "idle"
        /\ pc' = pc \/ \E l \in {"xgate", "shut", "release", "close"} : pc' = [pc EXCEPT ![p] = l]
    BY <1>12 DEF BeginClose, Shut, ReleaseFirst, ReleaseSecond
  <2> QED BY <1>1, <2>1
<1>13. ASSUME NEW p \in Procs, CloseReturns(p) PROVE Pending'
  BY <1>1, <1>2, <1>13 DEF CloseReturns, Continue
<1>14. CASE CallClose
  BY <1>1, <1>14 DEF CallClose
<1>15. ASSUME NEW p \in Callers, ContextDone(p) \/ ReadFragment(p) \/ ReadFails(p) PROVE Pending'
  BY <1>15 DEF ContextDone, ReadFragment, ReadFails
<1>16. CASE Environment
  BY <1>16, EnvironmentIdle DEF Idle
<1>17. CASE UNCHANGED vars
  BY <1>17 DEF vars
<1> HIDE DEF Pending
<1> QED
  BY <1>3, <1>4, <1>5, <1>6, <1>7, <1>8, <1>9, <1>10, <1>11, <1>12, <1>13, <1>14, <1>15,
     <1>16, <1>17 DEF Next, CallerStep, CloseStep

\* A command returns what its own exchange read.
LEMMA OwnStep == TypeOK /\ Pending /\ Exchange /\ OwnResponse /\ [Next]_vars => OwnResponse'
<1> SUFFICES ASSUME TypeOK, Pending, Exchange, OwnResponse, [Next]_vars PROVE OwnResponse'
  OBVIOUS
<1>0. result \in [Callers -> Results] /\ attempt \in [Callers -> 0..attempts]
  BY DEF TypeOK
<1> USE <1>0 DEF callVars, OwnResponse
<1>1. ASSUME NEW p \in Callers, NEW r \in Results, r.end = "response" => r.n = attempt[p],
             result' = [result EXCEPT ![p] = r], UNCHANGED attempt
      PROVE  OwnResponse'
  BY <1>1
<1>2. ASSUME NEW p \in Callers, NEW k \in Kinds, Call(p, k) PROVE OwnResponse'
  BY <1>2, EndedFacts DEF Call
<1>3. ASSUME NEW p \in Callers, Lock(p) PROVE OwnResponse'
  BY <1>1, <1>3, EndedFacts DEF Lock, Return
<1>4. ASSUME NEW p \in Callers, Receive(p), pc[p] = "write", UNCHANGED result PROVE OwnResponse'
  <2>1. result[p].end = "none"
    BY <1>4 DEF Pending
  <2>2. UNCHANGED attempt \/ attempt' = [attempt EXCEPT ![p] = attempts']
    BY <1>4 DEF Receive
  <2> QED BY <1>4, <2>1, <2>2
<1>5. ASSUME NEW p \in Callers, WriteFragment(p) PROVE OwnResponse'
  BY <1>4, <1>5 DEF WriteFragment
<1>6. ASSUME NEW p \in Callers, NEW d \in BOOLEAN, WriteFails(p, d) PROVE OwnResponse'
  <2>1. CASE d
    BY <1>4, <1>6, <2>1 DEF WriteFails
  <2>2. CASE ~d
    BY <1>6, <2>2 DEF WriteFails
  <2> QED BY <2>1, <2>2
<1>7. ASSUME NEW p \in Callers, TakeAnswer(p) PROVE OwnResponse'
  <2>1. answer[p] \in Verdicts /\ answer[p] # None /\ UNCHANGED attempt /\ pc[p] = "await"
    BY <1>7 DEF TakeAnswer, TypeOK
  <2>2. Stage(p)
    BY <2>1 DEF Exchange, Exchanging
  <2>3. answer[p].end = "response" => answer[p].n = attempt[p]
    BY <2>1, <2>2 DEF Stage, Processing, Responding, Answered, Broken
  <2>4. \/ UNCHANGED result
        \/ answer[p].end \notin {"busy", "io"} /\ result' = [result EXCEPT ![p] = answer[p]]
    BY <1>7 DEF TakeAnswer, Continue, Return
  <2>5. CASE UNCHANGED result
    BY <2>1, <2>5
  <2>6. CASE answer[p].end \notin {"busy", "io"} /\ result' = [result EXCEPT ![p] = answer[p]]
    BY <1>1, <2>1, <2>3, <2>6, EndedFacts
  <2> QED BY <2>4, <2>5, <2>6
<1>8. ASSUME NEW p \in Callers, Drained(p) \/ RetryCanceled(p) PROVE OwnResponse'
  <2>1. UNCHANGED attempt /\ (UNCHANGED result \/ result' = [result EXCEPT ![p] = Ended("ctx")])
    BY <1>8 DEF Drained, RetryCanceled, Continue, Return
  <2> QED BY <1>1, <2>1, EndedFacts
<1>9. ASSUME NEW p \in Procs, CloseReturns(p) PROVE OwnResponse'
  <2>1. UNCHANGED attempt /\ (UNCHANGED result \/ (p \in Callers /\ result' = [result EXCEPT ![p] = Ended("invalidated")]))
    BY <1>9 DEF CloseReturns, Continue, Return, Procs
  <2> QED BY <1>1, <2>1, EndedFacts
<1>10. ASSUME NEW p \in Callers, ContextDone(p) \/ ReadFragment(p) \/ ReadFails(p) \/ AwaitCanceled(p)
                                 \/ Retry(p) \/ DrainExpires(p)
       PROVE  OwnResponse'
  BY <1>10 DEF ContextDone, ReadFragment, ReadFails, AwaitCanceled, Retry, DrainExpires
<1>11. ASSUME NEW p \in Procs, Acquire(p) \/ CancelWritten(p) \/ CancelFails(p) \/ BeginClose(p)
                               \/ Shut(p) \/ ReleaseFirst(p) \/ ReleaseSecond(p)
       PROVE  OwnResponse'
  BY <1>11 DEF Acquire, CancelWritten, CancelFails, BeginClose, Shut, ReleaseFirst, ReleaseSecond
<1>12. CASE CallClose
  BY <1>12 DEF CallClose
<1>13. CASE Environment
  BY <1>13, EnvironmentIdle DEF Idle
<1>14. CASE UNCHANGED vars
  BY <1>14 DEF vars
<1> HIDE DEF OwnResponse
<1> QED
  BY <1>2, <1>3, <1>5, <1>6, <1>7, <1>8, <1>9, <1>10, <1>11, <1>12, <1>13, <1>14
     DEF Next, CallerStep, CloseStep

\* An exchange that is over, by its answer or by the end of the connection,
\* leaves nothing on a connection that goes on.
LEMMA CleanStep ==
    TypeOK /\ Holder /\ Once /\ Exchange /\ CleanStart /\ [Next]_vars => CleanStart'
<1> SUFFICES ASSUME ControlTypes, TypeOK, Holder, Once, Exchange, CleanStart, [Next]_vars
             PROVE  CleanStart'
  BY TypeGroups
<1>0. /\ canceling \in BOOLEAN /\ reader \in [Callers -> BOOLEAN]
      /\ link \in BOOLEAN /\ peripheral \in BOOLEAN
  BY DEF TypeOK
<1> USE <1>0, BleAssumption DEF Procs, Goto, callVars, readVars, closeVars, devVars, ControlTypes,
                            Engaged, Exchanging, Connected
<1>1. ASSUME UNCHANGED <<link, peripheral, reader, inbox, sending, notes, canceling>>,
             \A q \in Callers : Engaged(q) => Engaged(q)'
      PROVE  CleanStart'
  BY <1>1 DEF CleanStart, Clean
<1>2. ASSUME NEW p \in Procs, NEW l, pc' = [pc EXCEPT ![p] = l], p \in Callers /\ Engaged(p) => Engaged(p)',
             UNCHANGED <<link, peripheral, reader, inbox, sending, notes, canceling>>
      PROVE  CleanStart'
  BY <1>1, <1>2
<1>3. ASSUME NEW p \in Callers, Engaged(p)' PROVE CleanStart'
  BY <1>3 DEF CleanStart
<1>4. ASSUME NEW p \in Callers, NEW k \in Kinds, Call(p, k) PROVE CleanStart'
  BY <1>2, <1>4 DEF Call
<1>5. ASSUME NEW p \in Callers, Lock(p) PROVE CleanStart'
  BY <1>2, <1>5 DEF Lock, Return
<1>6. ASSUME NEW p \in Callers, WriteFragment(p) PROVE CleanStart'
  <2>1. CASE sent[p] + 1 < Fragments(kind[p])
    BY <1>1, <1>6, <2>1 DEF WriteFragment, Receive
  <2>2. CASE ~(sent[p] + 1 < Fragments(kind[p]))
    <3>1. pc' = [pc EXCEPT ![p] = "await"]
      BY <1>6, <2>2 DEF WriteFragment
    <3> QED BY <1>3, <3>1
  <2> QED BY <2>1, <2>2
<1>7. ASSUME NEW p \in Callers, NEW d \in BOOLEAN, WriteFails(p, d) PROVE CleanStart'
  <2>1. pc' = [pc EXCEPT ![p] = "close"]
    BY <1>7 DEF WriteFails
  <2> QED BY <1>3, <2>1
<1>8. ASSUME NEW p \in Callers, TakeAnswer(p) \/ Drained(p) PROVE CleanStart'
  <2>1. /\ pc[p] \in {"await", "drain"} /\ answer[p] # None
        /\ UNCHANGED <<link, peripheral, reader, inbox, sending, notes, canceling>>
    BY <1>8 DEF TakeAnswer, Drained
  <2>2. Stage(p) /\ \A q \in Callers : reader[q] => q = p
    BY <2>1 DEF Exchange
  <2>3. CASE answer[p].end = "io"
    <3>1. pc' = [pc EXCEPT ![p] = "close"]
      BY <1>8, <2>3 DEF TakeAnswer, Drained, Continue
    <3> QED BY <1>3, <3>1
  <2>4. CASE answer[p].end # "io"
    <3>1. Answered(p)
      BY <2>1, <2>2, <2>4 DEF Stage, Processing, Responding, Broken
    <3>2. Clean
      BY <2>2, <3>1 DEF Answered, Clean
    <3>3. Clean'
      BY <2>1, <3>2 DEF Clean
    <3> QED BY <3>3 DEF CleanStart
  <2> QED BY <2>3, <2>4
<1>9. ASSUME NEW p \in Callers, RetryCanceled(p) PROVE CleanStart'
  BY <1>2, <1>9 DEF RetryCanceled, Return
<1>10. ASSUME NEW p \in Callers, AwaitCanceled(p) \/ DrainExpires(p) PROVE CleanStart'
  <2>1. \E l \in {"cgate", "close"} : pc' = [pc EXCEPT ![p] = l]
    BY <1>10 DEF AwaitCanceled, DrainExpires
  <2> QED BY <1>3, <2>1
<1>11. ASSUME NEW p \in Callers, Retry(p) PROVE CleanStart'
  BY <1>2, <1>11 DEF Retry
<1>12. ASSUME NEW p \in Procs, Acquire(p) PROVE CleanStart'
  <2>1. \/ pc[p] = "gate" /\ GateOf[pc[p]] = "write"
        \/ pc[p] = "cgate" /\ GateOf[pc[p]] = "cwrite"
        \/ pc[p] = "xgate" /\ GateOf[pc[p]] = "xwrite"
    BY <1>12 DEF Acquire, GateOf
  <2> QED BY <1>2, <1>12, <2>1 DEF Acquire
<1>13. ASSUME NEW p \in Procs, CancelWritten(p) PROVE CleanStart'
  <2>1. /\ UNCHANGED <<link, peripheral, reader, inbox, sending, notes>>
        /\ canceling' = (canceling \/ (inbox # <<>> /\ Head(inbox).cmd = "MSG"))
        /\ pc[p] \in {"cwrite", "xwrite"}
        /\ \E l \in {"drain", "shut"} : pc' = [pc EXCEPT ![p] = l]
    BY <1>13 DEF CancelWritten, ReceiveCancel
  <2>2. \A q \in Callers : Engaged(q) => Engaged(q)'
    BY <2>1
  <2>3. ~canceling /\ inbox = <<>> => ~canceling'
    BY <2>1
  <2>4. Clean => Clean'
    BY <2>1, <2>3 DEF Clean
  <2> QED BY <2>1, <2>2, <2>4 DEF CleanStart
<1>14. ASSUME NEW p \in Procs, CancelFails(p) PROVE CleanStart'
  <2>1. /\ UNCHANGED <<link, peripheral, reader, inbox, sending, notes, canceling>>
        /\ \E l \in {"close", "shut"} : pc' = [pc EXCEPT ![p] = l]
    BY <1>14 DEF CancelFails
  <2> QED BY <1>2, <2>1
<1>15. ASSUME NEW p \in Procs, BeginClose(p) \/ Shut(p) PROVE CleanStart'
  <2>1. /\ UNCHANGED <<link, peripheral, reader, inbox, sending, notes, canceling>>
        /\ \E l \in {"xgate", "shut", "release"} : pc' = [pc EXCEPT ![p] = l]
    BY <1>15 DEF BeginClose, Shut
  <2> QED BY <1>2, <2>1
<1>16. ASSUME NEW p \in Procs, ReleaseFirst(p) PROVE CleanStart'
  <2>1. UNCHANGED <<pc, link, reader, inbox, sending, notes, canceling>> /\ (peripheral' => peripheral)
    BY <1>16 DEF ReleaseFirst
  <2> QED BY <2>1 DEF CleanStart, Clean
<1>17. ASSUME NEW p \in Procs, ReleaseSecond(p) PROVE CleanStart'
  BY <1>17 DEF ReleaseSecond, CleanStart
<1>18. ASSUME NEW p \in Procs, CloseReturns(p) PROVE CleanStart'
  <2>1. ~peripheral /\ peripheral' = peripheral
    BY <1>18 DEF CloseReturns, Once
  <2> QED BY <2>1 DEF CleanStart
<1>19. CASE CallClose
  BY <1>2, <1>19 DEF CallClose
<1>20. ASSUME NEW p \in Callers, ContextDone(p) PROVE CleanStart'
  BY <1>1, <1>20 DEF ContextDone
<1>21. ASSUME NEW p \in Callers, ReadFragment(p) \/ ReadFails(p) PROVE CleanStart'
  <2>1. reader[p] /\ UNCHANGED <<pc, link, peripheral>>
    BY <1>21 DEF ReadFragment, ReadFails
  <2>2. ~Clean
    BY <2>1 DEF Clean
  <2> QED BY <2>1, <2>2 DEF CleanStart
<1>22. CASE Environment
  <2>1. UNCHANGED <<pc, peripheral>>
    BY <1>22, EnvironmentIdle DEF Idle
  <2>2. (UNCHANGED link /\ ~Clean) \/ link' = FALSE
    BY <1>22, EnvironmentCases DEF KeepAlive, Notify, Disconnect, Answering, Respond, Clean
  <2> QED BY <2>1, <2>2 DEF CleanStart
<1>23. CASE UNCHANGED vars
  BY <1>1, <1>23 DEF vars
<1> QED
  BY <1>4, <1>5, <1>6, <1>7, <1>8, <1>9, <1>10, <1>11, <1>12, <1>13, <1>14, <1>15, <1>16,
     <1>17, <1>18, <1>19, <1>20, <1>21, <1>22, <1>23 DEF Next, CallerStep, CloseStep

\* A request completed on a clean connection is the one the authenticator
\* processes, and its reader starts with an empty assembler.
LEMMA RequestStage ==
    ASSUME NEW p \in Callers, TypeOK, Holder, Gated, CleanStart, WriteFragment(p),
           ~(sent[p] + 1 < Fragments(kind[p]))
    PROVE  Stage(p)' /\ \A q \in Callers : reader'[q] => q = p
<1>0. /\ reader \in [Callers -> BOOLEAN] /\ frame \in [Callers -> Frames \union {None}]
      /\ answer \in [Callers -> Verdicts \union {None}] /\ attempt \in [Callers -> 0..attempts]
      /\ inbox \in Seq(Requests)
  BY DEF TypeOK
<1>1. Clean
  <2>1. Connected /\ pc[p] = "write"
    BY DEF WriteFragment
  <2>2. \A q \in Callers : ~Engaged(q)
    BY <2>1 DEF Holder, Engaged, Exchanging
  <2> QED BY <2>1, <2>2 DEF CleanStart
<1>2. /\ reader' = [reader EXCEPT ![p] = TRUE] /\ frame' = [frame EXCEPT ![p] = None]
      /\ answer' = [answer EXCEPT ![p] = None] /\ UNCHANGED <<kind, sending, canceling, notes>>
  BY DEF WriteFragment
<1>3. sent[p] > 0 => half = p
  BY DEF Gated
<1>4. attempt' = [attempt EXCEPT ![p] = attempts'] /\ inbox' = Append(inbox, [n |-> attempts', cmd |-> kind[p]])
  BY <1>3 DEF WriteFragment, Receive
<1>5. attempt'[p] = attempts' /\ kind'[p] = kind[p]
  BY <1>0, <1>2, <1>4
<1>6. inbox' = <<Request(p)'>>
  <2>1. inbox = <<>>
    BY <1>1 DEF Clean
  <2>2. Request(p)' = [n |-> attempts', cmd |-> kind[p]]
    BY <1>5 DEF Request
  <2> QED BY <1>4, <2>1, <2>2
<1>7. sending' = <<>> /\ notes' = <<>>
  BY <1>1, <1>2 DEF Clean
<1>8. reader'[p] /\ frame'[p] = None /\ answer'[p] = None
  BY <1>0, <1>2
<1>9. Processing(p)'
  BY <1>6, <1>7, <1>8 DEF Processing
<1>10. \A q \in Callers : reader'[q] => q = p
  BY <1>0, <1>1, <1>2 DEF Clean
<1> QED BY <1>9, <1>10 DEF Stage

\* An exchange advances from its request to its answer, whatever other callers
\* and Close do meanwhile.
LEMMA ExchangeStep ==
    TypeOK /\ Holder /\ Gated /\ CleanStart /\ Exchange /\ [Next]_vars => Exchange'
<1> SUFFICES ASSUME ControlTypes, TypeOK, Holder, Gated, CleanStart, Exchange, [Next]_vars,
                    NEW p \in Callers, pc'[p] \in Exchanging
             PROVE  Stage(p)' /\ \A q \in Callers : reader'[q] => q = p
  BY TypeGroups DEF Exchange
<1> DEFINE Goal == Stage(p)' /\ \A q \in Callers : reader'[q] => q = p
<1>0. /\ reader \in [Callers -> BOOLEAN] /\ answer \in [Callers -> Verdicts \union {None}]
      /\ kind \in [Callers -> Kinds] /\ attempt \in [Callers -> 0..attempts]
      /\ canceling \in BOOLEAN
  BY DEF TypeOK
<1>1. ASSUME pc[p] \in Exchanging
      PROVE  /\ Stage(p) /\ \A q \in Callers : reader[q] => q = p
             /\ \A q \in Callers : q # p => pc[q] \in {"idle", "lock"}
  BY <1>1 DEF Exchange, Holder, Exchanging
<1>2. ASSUME pc[p] \in Exchanging, UNCHANGED <<reader, answer, frame, inbox, sending, notes>>,
             attempt'[p] = attempt[p], kind'[p] = kind[p],
             canceling' => canceling \/ inbox # <<>>
      PROVE  Goal
  BY <1>1, <1>2, StageKept
<1> USE <1>0, BleAssumption DEF Procs, Goto, callVars, readVars, closeVars, devVars, ControlTypes, Exchanging
<1> HIDE DEF Goal
<1>3. ASSUME NEW q \in Callers, NEW k \in Kinds, Call(q, k) PROVE Goal
  <2>1. q # p /\ pc[p] \in Exchanging
    BY <1>3 DEF Call
  <2>2. /\ UNCHANGED <<reader, answer, frame, inbox, sending, notes, canceling>>
        /\ attempt'[p] = attempt[p] /\ kind'[p] = kind[p]
    BY <1>3, <2>1 DEF Call
  <2> QED BY <1>2, <2>1, <2>2
<1>4. ASSUME NEW q \in Callers, Lock(q) PROVE Goal
  <2>1. UNCHANGED <<reader, answer, frame, inbox, sending, notes, canceling, attempt, kind>>
    BY <1>4 DEF Lock
  <2>2. pc[q] = "lock" /\ \E l \in {"idle", "gate"} : pc' = [pc EXCEPT ![q] = l]
    BY <1>4 DEF Lock, Return
  <2> QED BY <1>2, <2>1, <2>2
<1>5. ASSUME NEW q \in Callers, WriteFragment(q) PROVE Goal
  <2>1. pc[q] = "write"
    BY <1>5 DEF WriteFragment
  <2>2. pc[p] \notin Exchanging
    BY <1>1, <2>1
  <2>3. CASE sent[q] + 1 < Fragments(kind[q])
    BY <1>5, <2>2, <2>3 DEF WriteFragment
  <2>4. CASE ~(sent[q] + 1 < Fragments(kind[q]))
    <3>1. pc' = [pc EXCEPT ![q] = "await"]
      BY <1>5, <2>4 DEF WriteFragment
    <3>2. q = p
      BY <2>2, <3>1
    <3> QED BY <1>5, <2>4, <3>2, RequestStage DEF Goal
  <2> QED BY <2>3, <2>4
<1>6. ASSUME NEW q \in Callers, NEW d \in BOOLEAN, WriteFails(q, d) PROVE Goal
  <2>1. pc[q] \in {"gate", "write"} /\ pc' = [pc EXCEPT ![q] = "close"]
    BY <1>6 DEF WriteFails
  <2> QED BY <1>1, <2>1
<1>7. ASSUME NEW q \in Callers, TakeAnswer(q) \/ Drained(q) PROVE Goal
  <2>1. pc[q] \in {"await", "drain"} /\ \E l \in {"retry", "close", "idle"} : pc' = [pc EXCEPT ![q] = l]
    BY <1>7 DEF TakeAnswer, Drained, Continue, Return
  <2> QED BY <1>1, <2>1
<1>8. ASSUME NEW q \in Callers, RetryCanceled(q) \/ Retry(q) PROVE Goal
  <2>1. pc[q] = "retry" /\ \E l \in {"gate", "idle"} : pc' = [pc EXCEPT ![q] = l]
    BY <1>8 DEF RetryCanceled, Retry, Return
  <2> QED BY <1>1, <2>1
<1>9. ASSUME NEW q \in Callers, AwaitCanceled(q) \/ DrainExpires(q) PROVE Goal
  <2>1. /\ pc[q] \in {"await", "drain"} /\ \E l \in {"cgate", "close"} : pc' = [pc EXCEPT ![q] = l]
        /\ UNCHANGED <<reader, answer, frame, inbox, sending, notes, canceling, attempt, kind>>
    BY <1>9 DEF AwaitCanceled, DrainExpires
  <2>2. pc[p] \in Exchanging
    BY <2>1
  <2> QED BY <1>2, <2>1, <2>2
<1>10. ASSUME NEW q \in Procs, Acquire(q) PROVE Goal
  <2>1. \/ pc[q] = "gate" /\ GateOf[pc[q]] = "write"
        \/ pc[q] = "cgate" /\ GateOf[pc[q]] = "cwrite"
        \/ pc[q] = "xgate" /\ GateOf[pc[q]] = "xwrite"
    BY <1>10 DEF Acquire, GateOf
  <2>2. /\ pc' = [pc EXCEPT ![q] = GateOf[pc[q]]]
        /\ UNCHANGED <<reader, answer, frame, inbox, sending, notes, canceling, attempt, kind>>
    BY <1>10 DEF Acquire
  <2>3. pc[p] \in Exchanging
    BY <2>1, <2>2
  <2> QED BY <1>2, <2>2, <2>3
<1>11. ASSUME NEW q \in Procs, CancelWritten(q) PROVE Goal
  <2>1. /\ UNCHANGED <<reader, answer, frame, inbox, sending, notes, attempt, kind>>
        /\ canceling' = (canceling \/ (inbox # <<>> /\ Head(inbox).cmd = "MSG"))
        /\ \/ pc[q] = "cwrite" /\ pc' = [pc EXCEPT ![q] = "drain"]
           \/ pc[q] = "xwrite" /\ pc' = [pc EXCEPT ![q] = "shut"]
    BY <1>11 DEF CancelWritten, ReceiveCancel
  <2>2. pc[p] \in Exchanging
    BY <2>1
  <2>3. canceling' => canceling \/ inbox # <<>>
    BY <2>1
  <2> QED BY <1>2, <2>1, <2>2, <2>3
<1>12. ASSUME NEW q \in Procs, CancelFails(q) \/ BeginClose(q) \/ Shut(q) \/ ReleaseFirst(q)
                               \/ ReleaseSecond(q) \/ CloseReturns(q)
       PROVE  Goal
  <2>1. UNCHANGED <<reader, answer, frame, inbox, sending, notes, canceling, attempt, kind>>
    BY <1>12 DEF CancelFails, BeginClose, Shut, ReleaseFirst, ReleaseSecond, CloseReturns
  <2>2. pc' = pc \/ \E l \in {"close", "shut", "xgate", "release", "closed", "idle"} : pc' = [pc EXCEPT ![q] = l]
    BY <1>12 DEF CancelFails, BeginClose, Shut, ReleaseFirst, ReleaseSecond, CloseReturns, Continue, Return
  <2>3. pc[p] \in Exchanging
    BY <2>2
  <2> QED BY <1>2, <2>1, <2>3
<1>13. ASSUME CallClose PROVE Goal
  <2>1. /\ UNCHANGED <<reader, answer, frame, inbox, sending, notes, canceling, attempt, kind>>
        /\ pc' = [pc EXCEPT ![Closer] = "close"]
    BY <1>13 DEF CallClose
  <2>2. pc[p] \in Exchanging
    BY <2>1
  <2> QED BY <1>2, <2>1, <2>2
<1>14. ASSUME NEW q \in Callers, ContextDone(q) PROVE Goal
  BY <1>2, <1>14 DEF ContextDone
<1>15. ASSUME NEW q \in Callers, ReadFragment(q) PROVE Goal
  <2>1. reader[q] /\ UNCHANGED pc
    BY <1>15 DEF ReadFragment
  <2>2. pc[p] \in Exchanging /\ q = p
    BY <1>1, <2>1
  <2>3. Stage(p)'
    BY <1>1, <1>15, <2>2, ReadStage
  <2>4. \A r \in Callers : reader'[r] => reader[r]
    <3>1. reader' = reader \/ reader' = [reader EXCEPT ![q] = FALSE]
      BY <1>15 DEF ReadFragment, Assembled, Answer
    <3> QED BY <3>1
  <2> QED BY <1>1, <2>2, <2>3, <2>4 DEF Goal
<1>16. ASSUME NEW q \in Callers, ReadFails(q) PROVE Goal
  <2>1. reader[q] /\ UNCHANGED pc
    BY <1>16 DEF ReadFails
  <2>2. pc[p] \in Exchanging /\ q = p
    BY <1>1, <2>1
  <2>3. reader' = [reader EXCEPT ![p] = FALSE] /\ answer' = [answer EXCEPT ![p] = Ended("io")]
    BY <1>16, <2>2 DEF ReadFails, Answer
  <2>4. Broken(p)'
    <3>1. Ended("io") # None /\ Ended("io").end = "io"
      BY EndedFacts, NoneAssumption
    <3> QED BY <2>3, <3>1 DEF Broken
  <2>5. \A r \in Callers : reader'[r] => reader[r]
    BY <2>3
  <2> QED BY <1>1, <2>2, <2>4, <2>5 DEF Goal, Stage
<1>17. ASSUME Environment PROVE Goal
  <2>1. UNCHANGED <<pc, reader, answer, frame, attempt, kind>>
    BY <1>17, EnvironmentIdle DEF Idle
  <2>2. pc[p] \in Exchanging
    BY <2>1
  <2>3. Stage(p) /\ \A q \in Callers : reader'[q] => q = p
    BY <1>1, <2>1, <2>2
  <2>4. CASE Disconnect
    <3>1. UNCHANGED <<inbox, sending, notes, canceling>>
      BY <2>4 DEF Disconnect
    <3> QED BY <1>2, <2>1, <2>2, <3>1
  <2> QED BY <1>17, <2>3, <2>4, EnvironmentCases, KeepAliveStage, AnsweringStage, NotifyStage DEF Goal
<1>18. ASSUME UNCHANGED vars PROVE Goal
  <2>1. UNCHANGED <<pc, reader, answer, frame, inbox, sending, notes, canceling, attempt, kind>>
    BY <1>18 DEF vars
  <2> QED BY <1>2, <2>1
<1>19. ASSUME NEW q \in Callers, CallerStep(q) PROVE Goal
  BY <1>3, <1>4, <1>5, <1>6, <1>7, <1>8, <1>9, <1>14, <1>15, <1>16, <1>19 DEF CallerStep
<1>20. ASSUME NEW q \in Procs, CloseStep(q) PROVE Goal
  BY <1>10, <1>11, <1>12, <1>20 DEF CloseStep
<1>21. Goal
  BY <1>13, <1>17, <1>18, <1>19, <1>20 DEF Next
<1> QED BY <1>21 DEF Goal

-----------------------------------------------------------------------------
\* After Open the connection is clean, nothing is held and nothing is closed.
LEMMA InitInvariant == Init => IInv
<1> SUFFICES ASSUME Init PROVE IInv
  OBVIOUS
<1> USE BleAssumption
<1>1. ControlTypes /\ FlagTypes
  BY DEF Init, ControlTypes, FlagTypes, Procs
<1>2. CallTypes
  <2>1. (CHOOSE k \in Kinds : TRUE) \in Kinds
    OBVIOUS
  <2>2. kind \in [Callers -> Kinds] /\ result \in [Callers -> Results]
    BY <2>1, EndedFacts DEF Init
  <2>3. ctxDone \in [Callers -> BOOLEAN]
    BY DEF Init
  <2>4. sent \in [Callers -> 0..1] /\ attempt \in [Callers -> 0..attempts] /\ attempts \in Nat
    BY DEF Init
  <2>5. calls \in 0..MaxCalls
    BY DEF Init
  <2> QED BY <2>2, <2>3, <2>4, <2>5 DEF CallTypes
<1>3. ReadTypes
  <2>1. reader \in [Callers -> BOOLEAN]
    BY DEF Init
  <2> QED BY <2>1 DEF Init, ReadTypes
<1>4. QueueTypes /\ Served
  BY DEF Init, QueueTypes, Served
<1>5. TypeOK
  BY <1>1, <1>2, <1>3, <1>4, TypeGroups
<1>6. Control
  BY EndedFacts DEF Init, Control, Holder, Gated, Once, Runs, Procs
<1>7. Wire
  BY EndedFacts DEF Init, Wire, Exchange, Exchanging, CleanStart, Clean, Pending, OwnResponse, Procs
<1> QED BY <1>4, <1>5, <1>6, <1>7 DEF IInv

\* The invariant of the transport: the types, the mutex, the gate, closeOnce,
\* the stage of the exchange and the state of the connection between commands.
THEOREM Invariance == Spec => []IInv
<1>1. IInv /\ [Next]_vars => IInv'
  <2> SUFFICES ASSUME IInv, [Next]_vars PROVE IInv'
    OBVIOUS
  <2>0. TypeOK /\ Served /\ Holder /\ Gated /\ Once /\ Exchange /\ CleanStart /\ Pending /\ OwnResponse
    BY DEF IInv, Control, Wire
  <2>1. TypeOK' /\ Served'
    BY <2>0, TypeStep
  <2>2. Holder' /\ Gated' /\ Once'
    BY <2>0, HolderStep, GatedStep, OnceStep
  <2>3. Exchange' /\ CleanStart' /\ Pending' /\ OwnResponse'
    BY <2>0, ExchangeStep, CleanStep, PendingStep, OwnStep
  <2> QED BY <2>1, <2>2, <2>3 DEF IInv, Control, Wire
<1> QED BY <1>1, InitInvariant, PTL DEF Spec

\* The variables keep their types in every behaviour.
THEOREM TypeCorrect == Spec => []TypeOK
<1>1. IInv => TypeOK
  BY DEF IInv
<1> QED BY <1>1, Invariance, PTL

\* The write gate keeps every CANCEL, of the canceled call and of Close, out of
\* a request that is half written (writeRequest).
THEOREM FramesNotCut == Spec => []FrameIntact
<1>1. IInv => FrameIntact
  BY DEF IInv, Control, Gated, FrameIntact
<1> QED BY <1>1, Invariance, PTL

\* A command that succeeds returns the answer to the request it sent last,
\* after any cancellation, drain or busy retry before it (exchange).
THEOREM ResponseIsOwn == Spec => []OwnResponse
<1>1. IInv => OwnResponse
  BY DEF IInv, Wire
<1> QED BY <1>1, Invariance, PTL

\* Between two commands on an open connection nothing of the earlier one is
\* left, neither a reader nor a queued or due notification nor a CANCEL
\* (cancelAndDrain, closeOnIOError).
THEOREM ConnectionClean == Spec => []CleanBetweenCalls
<1>1. IInv => CleanBetweenCalls
  <2> SUFFICES ASSUME IInv, mu = None, once = "new", link PROVE Clean
    BY DEF CleanBetweenCalls, Clean
  <2>1. Connected
    BY DEF IInv, Control, Once, Connected
  <2>2. \A p \in Callers : pc[p] \in {"idle", "lock"}
    BY BleAssumption DEF IInv, Control, Holder
  <2>3. \A p \in Callers : ~Engaged(p)
    BY <2>2 DEF Engaged, Exchanging
  <2> QED BY <2>1, <2>3 DEF IInv, Wire, CleanStart
<1> QED BY <1>1, Invariance, PTL

\* A caller told that the device is invalidated finds the subscription and the
\* peripheral closed, whoever ran closeOnce.
THEOREM InvalidatedClosed == Spec => []InvalidatedIsClosed
<1>1. IInv => InvalidatedIsClosed
  BY DEF IInv, Control, Once, InvalidatedIsClosed
<1> QED BY <1>1, Invariance, PTL
=============================================================================
