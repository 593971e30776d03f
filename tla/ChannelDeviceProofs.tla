------------------------- MODULE ChannelDeviceProofs -------------------------
(* Proofs about ChannelDevice, for any channels, closers and report bound. *)
EXTENDS ChannelDevice, WellFoundedInduction, TLAPS

\* How the reader goroutine's control point determines what it holds and
\* whether the terminal error is published.
ReaderControl ==
    /\ reader = "enqueue" => report # None
    /\ reader \in {"finish", "finishNotify", "exit", "stopped"} => failed # None
    /\ readErr # None <=> reader \in {"finishNotify", "exit", "stopped"}

\* Who may have canceled the reader, given who owns the device.
CauseControl ==
    /\ owner = "init" => cause = None
    /\ owner = "open" => cause \in {None, "closed"}
    /\ failed = "canceled" => cause # None
    /\ readErr = "canceled" => failed = "canceled"
    /\ owner = "open" => readErr # "canceled"

\* Progress of closeOnce.
CloseControl ==
    /\ owner # "open" => once = "free"
    /\ once = "free" => open /\ \A p \in Closers : closer[p] = "idle"
    /\ once = "done" => ~open /\ reader = "stopped"
    /\ \A p \in Closers :
          /\ closer[p] = "waitStopped" => ~open
          /\ closer[p] = "done" => once = "done"

\* The inductive invariant.
IInv == TypeOK /\ NoLostWakeup /\ ReaderControl /\ CauseControl /\ CloseControl

\* Every step keeps every variable in its type.  The reader's control point is
\* needed: what enqueue appends is a report only because readReports holds one.
LEMMA TypeStep == TypeOK /\ ReaderControl /\ [Next]_vars => TypeOK'
<1> SUFFICES ASSUME TypeOK, ReaderControl, [Next]_vars PROVE TypeOK'
  OBVIOUS
<1> USE ReportsAssumption DEF TypeOK, readerVars, callerVars, ownerVars, closerVars
<1>1. ASSUME NEW c \in Channels, ReadReport(c) PROVE TypeOK'
  <2>1. report' \in Reports
    BY <1>1 DEF ReadReport, Reports
  <2>2. QED
    BY <1>1, <2>1 DEF ReadReport
<1>2. ASSUME NEW c \in Channels, SetCID(c) PROVE TypeOK'
  BY <1>2 DEF SetCID
<1>3. ASSUME NEW e \in {"canceled", "io"}, ReadFails(e) PROVE TypeOK'
  BY <1>3 DEF ReadFails
<1>4. CASE Enqueue
  <2>1. report \in Reports
    BY <1>4 DEF Enqueue, ReaderControl
  <2>2. Append(pending, report) \in Seq(Reports)
    BY <2>1
  <2>3. pending' \in Seq(Reports) /\ reader' \in {"read", "notify"} /\ report' = None
    BY <1>4, <2>2 DEF Enqueue
  <2>4. QED
    BY <1>4, <2>3 DEF Enqueue
<1>5. CASE Notify
  <2>1. wake' \in BOOLEAN
    BY <1>5 DEF Notify
  <2>2. QED
    BY <1>5, <2>1 DEF Notify
<1>6. CASE Finish
  BY <1>6 DEF Finish, Errors
<1>7. CASE CloseStopped
  BY <1>7 DEF CloseStopped
<1>8. CASE ReadCall
  <2>1. ctxDone' \in BOOLEAN
    BY <1>8 DEF ReadCall
  <2>2. QED
    BY <1>8, <2>1 DEF ReadCall
<1>9. CASE ContextDone
  <2>1. ctxDone' \in BOOLEAN
    BY <1>9 DEF ContextDone
  <2>2. QED
    BY <1>9, <2>1 DEF ContextDone
<1>10. CASE NextReport
  <2>1. CASE pending = <<>>
    BY <1>10, <2>1 DEF NextReport
  <2>2. CASE pending # <<>>
    <3>1. Head(pending) \in Reports /\ Tail(pending) \in Seq(Reports)
      BY <2>2
    <3>2. got' \in Seq(Reports)
      <4> DEFINE r == Head(pending)
      <4>1. r \in Reports /\ got \in Seq(Reports)
        BY <3>1
      <4> HIDE DEF r
      <4>2. Append(got, r) \in Seq(Reports)
        BY <4>1
      <4>3. QED
        BY <1>10, <2>2, <4>2 DEF NextReport, r
    <3>3. pending' \in Seq(Reports) /\ caller' = "idle"
      BY <1>10, <2>2, <3>1 DEF NextReport
    <3>4. QED
      BY <1>10, <3>2, <3>3 DEF NextReport
  <2>3. QED
    BY <2>1, <2>2
<1>11. CASE Woken
  <2>1. wake' \in BOOLEAN
    BY <1>11 DEF Woken
  <2>2. QED
    BY <1>11, <2>1 DEF Woken
<1>12. CASE ReadCanceled
  BY <1>12 DEF ReadCanceled
<1>13. CASE Stop
  BY <1>13 DEF Stop
<1>14. CASE StopReturns
  BY <1>14 DEF StopReturns
<1>15. ASSUME NEW p \in Closers, CloseCall(p) PROVE TypeOK'
  BY <1>15 DEF CloseCall
<1>16. ASSUME NEW p \in Closers, CloseDevice(p) PROVE TypeOK'
  <2>1. open' \in BOOLEAN
    BY <1>16 DEF CloseDevice
  <2>2. QED
    BY <1>16, <2>1 DEF CloseDevice
<1>17. ASSUME NEW p \in Closers, CloseReturns(p) PROVE TypeOK'
  BY <1>17 DEF CloseReturns
<1>18. CASE UNCHANGED vars
  BY <1>18 DEF vars
<1>19. QED
  BY <1>1, <1>2, <1>3, <1>4, <1>5, <1>6, <1>7, <1>8, <1>9, <1>10,
     <1>11, <1>12, <1>13, <1>14, <1>15, <1>16, <1>17, <1>18
     DEF Next, ReaderStep, CallerStep, CloserStep

\* Every step keeps the rest of the inductive invariant.
LEMMA ControlStep ==
    IInv /\ [Next]_vars
        => NoLostWakeup' /\ ReaderControl' /\ CauseControl' /\ CloseControl'
<1> SUFFICES ASSUME IInv, [Next]_vars
             PROVE  NoLostWakeup' /\ ReaderControl' /\ CauseControl' /\ CloseControl'
  OBVIOUS
<1> DEFINE Goal == NoLostWakeup' /\ ReaderControl' /\ CauseControl' /\ CloseControl'
<1>0. TypeOK /\ NoLostWakeup /\ ReaderControl /\ CauseControl /\ CloseControl
  BY DEF IInv
<1> USE NoneAssumption DEF readerVars, callerVars, ownerVars, closerVars, Errors
<1>1. ASSUME NEW c \in Channels, ReadReport(c) PROVE Goal
  <2>1. NoLostWakeup'
    BY <1>0, <1>1 DEF ReadReport, TypeOK, NoLostWakeup
  <2>2. ReaderControl'
    <3>1. report' \in Reports
      BY <1>0, <1>1, ReportsAssumption DEF ReadReport, TypeOK, Reports
    <3>2. QED
      BY <1>0, <1>1, <3>1 DEF ReadReport, TypeOK, ReaderControl
  <2>3. CauseControl'
    BY <1>0, <1>1 DEF ReadReport, TypeOK, CauseControl, ReaderControl
  <2>4. CloseControl'
    BY <1>0, <1>1 DEF ReadReport, TypeOK, CloseControl
  <2>5. QED
    BY <2>1, <2>2, <2>3, <2>4
<1>2. ASSUME NEW c \in Channels, SetCID(c) PROVE Goal
  <2>1. NoLostWakeup'
    BY <1>0, <1>2 DEF SetCID, TypeOK, NoLostWakeup
  <2>2. ReaderControl'
    BY <1>0, <1>2 DEF SetCID, TypeOK, ReaderControl
  <2>3. CauseControl'
    BY <1>0, <1>2 DEF SetCID, TypeOK, CauseControl, ReaderControl
  <2>4. CloseControl'
    BY <1>0, <1>2 DEF SetCID, TypeOK, CloseControl
  <2>5. QED
    BY <2>1, <2>2, <2>3, <2>4
<1>3. ASSUME NEW e \in {"canceled", "io"}, ReadFails(e) PROVE Goal
  <2>1. NoLostWakeup'
    BY <1>0, <1>3 DEF ReadFails, TypeOK, NoLostWakeup
  <2>2. ReaderControl'
    BY <1>0, <1>3 DEF ReadFails, TypeOK, ReaderControl
  <2>3. CauseControl'
    BY <1>0, <1>3 DEF ReadFails, TypeOK, CauseControl, ReaderControl
  <2>4. CloseControl'
    BY <1>0, <1>3 DEF ReadFails, TypeOK, CloseControl
  <2>5. QED
    BY <2>1, <2>2, <2>3, <2>4
<1>4. ASSUME Enqueue PROVE Goal
  <2>1. NoLostWakeup'
    BY <1>0, <1>4 DEF Enqueue, TypeOK, NoLostWakeup
  <2>2. ReaderControl'
    BY <1>0, <1>4 DEF Enqueue, TypeOK, ReaderControl
  <2>3. CauseControl'
    BY <1>0, <1>4 DEF Enqueue, TypeOK, CauseControl, ReaderControl
  <2>4. CloseControl'
    BY <1>0, <1>4 DEF Enqueue, TypeOK, CloseControl
  <2>5. QED
    BY <2>1, <2>2, <2>3, <2>4
<1>5. ASSUME Notify PROVE Goal
  <2>1. NoLostWakeup'
    BY <1>0, <1>5 DEF Notify, TypeOK, NoLostWakeup
  <2>2. ReaderControl'
    BY <1>0, <1>5 DEF Notify, TypeOK, ReaderControl
  <2>3. CauseControl'
    BY <1>0, <1>5 DEF Notify, TypeOK, CauseControl, ReaderControl
  <2>4. CloseControl'
    BY <1>0, <1>5 DEF Notify, TypeOK, CloseControl
  <2>5. QED
    BY <2>1, <2>2, <2>3, <2>4
<1>6. ASSUME Finish PROVE Goal
  <2>1. NoLostWakeup'
    BY <1>0, <1>6 DEF Finish, TypeOK, NoLostWakeup
  <2>2. ReaderControl'
    BY <1>0, <1>6 DEF Finish, TypeOK, ReaderControl
  <2>3. CauseControl'
    BY <1>0, <1>6 DEF Finish, TypeOK, CauseControl, ReaderControl
  <2>4. CloseControl'
    BY <1>0, <1>6 DEF Finish, TypeOK, CloseControl
  <2>5. QED
    BY <2>1, <2>2, <2>3, <2>4
<1>7. ASSUME CloseStopped PROVE Goal
  <2>1. NoLostWakeup'
    BY <1>0, <1>7 DEF CloseStopped, TypeOK, NoLostWakeup
  <2>2. ReaderControl'
    BY <1>0, <1>7 DEF CloseStopped, TypeOK, ReaderControl
  <2>3. CauseControl'
    BY <1>0, <1>7 DEF CloseStopped, TypeOK, CauseControl, ReaderControl
  <2>4. CloseControl'
    BY <1>0, <1>7 DEF CloseStopped, TypeOK, CloseControl
  <2>5. QED
    BY <2>1, <2>2, <2>3, <2>4
<1>8. ASSUME ReadCall PROVE Goal
  <2>1. NoLostWakeup'
    BY <1>0, <1>8 DEF ReadCall, TypeOK, NoLostWakeup
  <2>2. ReaderControl'
    BY <1>0, <1>8 DEF ReadCall, TypeOK, ReaderControl
  <2>3. CauseControl'
    BY <1>0, <1>8 DEF ReadCall, TypeOK, CauseControl, ReaderControl
  <2>4. CloseControl'
    BY <1>0, <1>8 DEF ReadCall, TypeOK, CloseControl
  <2>5. QED
    BY <2>1, <2>2, <2>3, <2>4
<1>9. ASSUME ContextDone PROVE Goal
  <2>1. NoLostWakeup'
    BY <1>0, <1>9 DEF ContextDone, TypeOK, NoLostWakeup
  <2>2. ReaderControl'
    BY <1>0, <1>9 DEF ContextDone, TypeOK, ReaderControl
  <2>3. CauseControl'
    BY <1>0, <1>9 DEF ContextDone, TypeOK, CauseControl, ReaderControl
  <2>4. CloseControl'
    BY <1>0, <1>9 DEF ContextDone, TypeOK, CloseControl
  <2>5. QED
    BY <2>1, <2>2, <2>3, <2>4
<1>10. ASSUME NextReport PROVE Goal
  <2>1. NoLostWakeup'
    BY <1>0, <1>10 DEF NextReport, TypeOK, NoLostWakeup
  <2>2. ReaderControl'
    BY <1>0, <1>10 DEF NextReport, TypeOK, ReaderControl
  <2>3. CauseControl'
    BY <1>0, <1>10 DEF NextReport, TypeOK, CauseControl, ReaderControl
  <2>4. CloseControl'
    BY <1>0, <1>10 DEF NextReport, TypeOK, CloseControl
  <2>5. QED
    BY <2>1, <2>2, <2>3, <2>4
<1>11. ASSUME Woken PROVE Goal
  <2>1. NoLostWakeup'
    BY <1>0, <1>11 DEF Woken, TypeOK, NoLostWakeup
  <2>2. ReaderControl'
    BY <1>0, <1>11 DEF Woken, TypeOK, ReaderControl
  <2>3. CauseControl'
    BY <1>0, <1>11 DEF Woken, TypeOK, CauseControl, ReaderControl
  <2>4. CloseControl'
    BY <1>0, <1>11 DEF Woken, TypeOK, CloseControl
  <2>5. QED
    BY <2>1, <2>2, <2>3, <2>4
<1>12. ASSUME ReadCanceled PROVE Goal
  <2>1. NoLostWakeup'
    BY <1>0, <1>12 DEF ReadCanceled, TypeOK, NoLostWakeup
  <2>2. ReaderControl'
    BY <1>0, <1>12 DEF ReadCanceled, TypeOK, ReaderControl
  <2>3. CauseControl'
    BY <1>0, <1>12 DEF ReadCanceled, TypeOK, CauseControl, ReaderControl
  <2>4. CloseControl'
    BY <1>0, <1>12 DEF ReadCanceled, TypeOK, CloseControl
  <2>5. QED
    BY <2>1, <2>2, <2>3, <2>4
<1>13. ASSUME Stop PROVE Goal
  <2>1. NoLostWakeup'
    BY <1>0, <1>13 DEF Stop, TypeOK, NoLostWakeup
  <2>2. ReaderControl'
    BY <1>0, <1>13 DEF Stop, TypeOK, ReaderControl
  <2>3. CauseControl'
    BY <1>0, <1>13 DEF Stop, TypeOK, CauseControl, ReaderControl
  <2>4. CloseControl'
    BY <1>0, <1>13 DEF Stop, TypeOK, CloseControl
  <2>5. QED
    BY <2>1, <2>2, <2>3, <2>4
<1>14. ASSUME StopReturns PROVE Goal
  <2>1. NoLostWakeup'
    BY <1>0, <1>14 DEF StopReturns, TypeOK, NoLostWakeup
  <2>2. ReaderControl'
    BY <1>0, <1>14 DEF StopReturns, TypeOK, ReaderControl
  <2>3. CauseControl'
    BY <1>0, <1>14 DEF StopReturns, TypeOK, CauseControl, ReaderControl
  <2>4. CloseControl'
    BY <1>0, <1>14 DEF StopReturns, TypeOK, CloseControl
  <2>5. QED
    BY <2>1, <2>2, <2>3, <2>4
<1>15. ASSUME NEW p \in Closers, CloseCall(p) PROVE Goal
  <2>1. NoLostWakeup'
    BY <1>0, <1>15 DEF CloseCall, TypeOK, NoLostWakeup
  <2>2. ReaderControl'
    BY <1>0, <1>15 DEF CloseCall, TypeOK, ReaderControl
  <2>3. CauseControl'
    BY <1>0, <1>15 DEF CloseCall, TypeOK, CauseControl, ReaderControl
  <2>4. CloseControl'
    BY <1>0, <1>15 DEF CloseCall, TypeOK, CloseControl
  <2>5. QED
    BY <2>1, <2>2, <2>3, <2>4
<1>16. ASSUME NEW p \in Closers, CloseDevice(p) PROVE Goal
  <2>1. NoLostWakeup'
    BY <1>0, <1>16 DEF CloseDevice, TypeOK, NoLostWakeup
  <2>2. ReaderControl'
    BY <1>0, <1>16 DEF CloseDevice, TypeOK, ReaderControl
  <2>3. CauseControl'
    BY <1>0, <1>16 DEF CloseDevice, TypeOK, CauseControl, ReaderControl
  <2>4. CloseControl'
    BY <1>0, <1>16 DEF CloseDevice, TypeOK, CloseControl
  <2>5. QED
    BY <2>1, <2>2, <2>3, <2>4
<1>17. ASSUME NEW p \in Closers, CloseReturns(p) PROVE Goal
  <2>1. NoLostWakeup'
    BY <1>0, <1>17 DEF CloseReturns, TypeOK, NoLostWakeup
  <2>2. ReaderControl'
    BY <1>0, <1>17 DEF CloseReturns, TypeOK, ReaderControl
  <2>3. CauseControl'
    BY <1>0, <1>17 DEF CloseReturns, TypeOK, CauseControl, ReaderControl
  <2>4. CloseControl'
    BY <1>0, <1>17 DEF CloseReturns, TypeOK, CloseControl
  <2>5. QED
    BY <2>1, <2>2, <2>3, <2>4
<1>18. ASSUME UNCHANGED vars PROVE Goal
  BY <1>0, <1>18 DEF vars, NoLostWakeup, ReaderControl, CauseControl, CloseControl
<1>19. QED
  BY <1>1, <1>2, <1>3, <1>4, <1>5, <1>6, <1>7, <1>8, <1>9, <1>10,
     <1>11, <1>12, <1>13, <1>14, <1>15, <1>16, <1>17, <1>18
     DEF Next, ReaderStep, CallerStep, CloserStep

\* The inductive invariant holds in every reachable state.
THEOREM Invariant == Spec => []IInv
<1>1. Init => IInv
  <2> SUFFICES ASSUME Init PROVE IInv
    OBVIOUS
  <2> USE ReportsAssumption, NoneAssumption DEF Init, Errors
  <2>1. wake \in BOOLEAN /\ open \in BOOLEAN /\ ctxDone \in BOOLEAN
    OBVIOUS
  <2>2. TypeOK
    BY <2>1 DEF TypeOK
  <2>3. NoLostWakeup /\ ReaderControl /\ CauseControl
    BY DEF NoLostWakeup, ReaderControl, CauseControl
  <2>4. CloseControl
    BY DEF CloseControl
  <2>5. QED
    BY <2>2, <2>3, <2>4 DEF IInv
<1>2. IInv /\ [Next]_vars => IInv'
  BY TypeStep, ControlStep DEF IInv
<1>3. QED
  BY <1>1, <1>2, PTL DEF Spec

\* Every variable of channelDevice and its goroutines stays in its type.
THEOREM TypeCorrect == Spec => []TypeOK
<1>1. IInv => TypeOK
  BY DEF IInv
<1>2. QED
  BY <1>1, Invariant, PTL

\* Read never sleeps in its select while a report or the terminal error waits
\* for it without a wake-up on its way, although notify drops wake-ups that
\* find the slot full.
THEOREM WakeupsKept == Spec => []NoLostWakeup
<1>1. IInv => NoLostWakeup
  BY DEF IInv
<1>2. QED
  BY <1>1, Invariant, PTL

\* A failed Open leaves the device open; Close returns to nobody before the
\* device is closed and the reader goroutine has left it.
THEOREM OwnershipKept == Spec => []Ownership
<1>1. IInv => Ownership
  BY DEF IInv, CloseControl, Ownership
<1>2. QED
  BY <1>1, Invariant, PTL

\* finish never publishes the bare context error to a caller of an opened
\* transport: a Read ended by Close cannot be mistaken for its own cancellation.
THEOREM CloseNeverLooksCanceled == Spec => []CloseIsNotCancellation
<1>1. IInv => CloseIsNotCancellation
  BY DEF IInv, CauseControl, CloseIsNotCancellation
<1>2. QED
  BY <1>1, Invariant, PTL

\* Once readReports has published its error the queue only shrinks and the
\* error stays: enqueue and finish belong to the goroutine that ended.
THEOREM TerminalError == Spec => TerminalErrorIsFinal
<1>1. IInv /\ [Next]_vars
        => [readErr # None => readErr' = readErr /\ Len(pending') <= Len(pending)]_vars
  <2> SUFFICES ASSUME IInv, [Next]_vars, readErr # None
               PROVE  readErr' = readErr /\ Len(pending') <= Len(pending)
    OBVIOUS
  <2>1. pending \in Seq(Reports)
    BY DEF IInv, TypeOK
  <2>2. Len(pending) \in Nat
    BY <2>1
  <2>3. reader \notin {"enqueue", "finish"}
    BY DEF IInv, ReaderControl
  <2>4. CASE pending' = pending /\ readErr' = readErr
    BY <2>2, <2>4
  <2>5. ASSUME NEW c \in Channels, SetCID(c) PROVE readErr' = readErr /\ pending' = <<>>
    BY <2>5 DEF SetCID
  <2>6. CASE NextReport
    <3>1. CASE pending = <<>>
      BY <2>2, <2>6, <3>1 DEF NextReport
    <3>2. CASE pending # <<>>
      <4>1. Len(Tail(pending)) = Len(pending) - 1
        BY <2>1, <3>2
      <4>2. QED
        BY <2>2, <2>6, <3>2, <4>1 DEF NextReport
    <3>3. QED
      BY <3>1, <3>2
  <2>7. \/ pending' = pending /\ readErr' = readErr
        \/ \E c \in Channels : SetCID(c)
        \/ NextReport
    BY <2>3 DEF Next, vars, readerVars, callerVars, ownerVars, closerVars,
          ReaderStep, CallerStep, CloserStep, ReadReport, ReadFails, Enqueue,
          Notify, Finish, CloseStopped, ReadCall, ContextDone, Woken,
          ReadCanceled, Stop, StopReturns, CloseCall, CloseDevice, CloseReturns
  <2>8. QED
    BY <2>2, <2>4, <2>5, <2>6, <2>7
<1>2. QED
  BY <1>1, Invariant, PTL DEF Spec, TerminalErrorIsFinal

\* Safety of the refinement: the goroutine, the filtered queue and the wake
\* channel implement the abstract FIFO channel of ReportChannel.
THEOREM Refinement == Spec => Abstract!Spec
<1>1. Init => Abstract!Init
  BY DEF Init, Abstract!Init
<1>2. IInv /\ [Next]_vars => [Abstract!Next]_(Abstract!vars)
  <2> SUFFICES ASSUME IInv, [Next]_vars
               PROVE  Abstract!Next \/ UNCHANGED Abstract!vars
    OBVIOUS
  <2> USE DEF Abstract!vars, readerVars, callerVars, ownerVars, closerVars
  <2>1. ASSUME NEW c \in Channels, SetCID(c) PROVE Abstract!Rebind(c)
    BY <2>1 DEF SetCID, Abstract!Rebind
  <2>2. CASE Enqueue
    <3>1. report \in Reports /\ readErr = None
      BY <2>2 DEF IInv, TypeOK, ReaderControl, Enqueue
    <3>2. CASE report.cid = cid
      <4>1. Abstract!Arrive(report)
        BY <2>2, <3>1, <3>2 DEF Enqueue, Abstract!Arrive
      <4>2. QED
        BY <3>1, <4>1 DEF Abstract!Next
    <3>3. CASE report.cid # cid
      BY <2>2, <3>3 DEF Enqueue
    <3>4. QED
      BY <3>2, <3>3
  <2>3. CASE Finish
    <3>1. readErr' \in Errors /\ readErr = None
      BY <2>3, NoneAssumption DEF IInv, TypeOK, ReaderControl, Finish, Errors
    <3>2. Abstract!Fail(readErr')
      BY <2>3, <3>1 DEF Finish, Abstract!Fail
    <3>3. QED
      BY <3>1, <3>2 DEF Abstract!Next
  <2>4. CASE ReadCall
    BY <2>4 DEF ReadCall, Abstract!Call, Abstract!Next
  <2>5. CASE NextReport
    BY <2>5 DEF NextReport, Abstract!Take, Abstract!TakeFailure, Abstract!Next
  <2>6. CASE ReadCanceled
    BY <2>6 DEF ReadCanceled, Abstract!GiveUp, Abstract!Next
  <2>7. \/ \E c \in Channels : SetCID(c)
        \/ Enqueue \/ Finish \/ ReadCall \/ NextReport \/ ReadCanceled
        \/ UNCHANGED Abstract!vars
    BY DEF Next, vars, ReaderStep, CallerStep, CloserStep, ReadReport, ReadFails,
          Notify, CloseStopped, ContextDone, Woken, Stop, StopReturns,
          CloseCall, CloseDevice, CloseReturns
  <2>8. QED
    BY <2>1, <2>2, <2>3, <2>4, <2>5, <2>6, <2>7 DEF Abstract!Next
<1>3. QED
  BY <1>1, <1>2, Invariant, PTL DEF Spec, Abstract!Spec

-----------------------------------------------------------------------------
(* The order of the reports. *)

\* A set of numbers that has a member has a least one.
LEMMA LeastMember ==
    ASSUME NEW P, P \subseteq Nat, P # {}
    PROVE  \E x \in P : \A y \in P : x <= y
<1> DEFINE R == OpToRel(<, Nat)
<1>1. IsWellFoundedOn(R, Nat)
  BY NatLessThanWellFounded
<1>2. \A x, y \in Nat : x < y => <<x, y>> \in R
  BY DEF OpToRel
<1> HIDE DEF R
<1>3. PICK x \in P : \A y \in P : ~(<<y, x>> \in R)
  BY <1>1, WFMin
<1>4. \A y \in P : x <= y
  <2> SUFFICES ASSUME NEW y \in P PROVE x <= y
    OBVIOUS
  <2>1. x \in Nat /\ y \in Nat /\ ~(<<y, x>> \in R)
    BY <1>3
  <2>2. ~(y < x)
    BY <1>2, <2>1
  <2> QED BY <2>1, <2>2
<1> QED BY <1>3, <1>4

\* f[n] is the selection from the first n reports of s, for n up to m.
Selects(f, s, c, m) ==
    f = [n \in 0..m |-> IF n = 0 THEN <<>> ELSE Admit(f[n - 1], s[n], c)]

\* There is such a function: the recursion of Selected is well founded.
LEMMA SelectsExists ==
    ASSUME NEW s, NEW c, NEW m \in Nat
    PROVE  \E f : Selects(f, s, c, m)
<1> DEFINE P == {n \in Nat : ~ \E f : Selects(f, s, c, n)}
<1> SUFFICES ASSUME P # {} PROVE FALSE
  OBVIOUS
<1>1. PICK n \in P : \A k \in P : n <= k
  <2>1. P \subseteq Nat
    OBVIOUS
  <2> HIDE DEF P
  <2> QED BY <2>1, LeastMember
<1>2. n \in Nat /\ \A f : ~Selects(f, s, c, n)
  BY <1>1
<1>3. n # 0
  <2> SUFFICES ASSUME n = 0 PROVE FALSE
    OBVIOUS
  <2> DEFINE f == [i \in 0..0 |-> <<>>]
  <2>1. f = [i \in 0..0 |-> IF i = 0 THEN <<>> ELSE Admit(f[i - 1], s[i], c)]
    OBVIOUS
  <2> HIDE DEF f
  <2> QED BY <1>2, <2>1 DEF Selects
<1>4. n - 1 \in Nat /\ n - 1 \notin P
  BY <1>1, <1>2, <1>3
<1>5. PICK f : Selects(f, s, c, n - 1)
  BY <1>4
<1> DEFINE g == [i \in 0..n |-> IF i = n THEN Admit(f[n - 1], s[n], c) ELSE f[i]]
<1>6. g = [i \in 0..n |-> IF i = 0 THEN <<>> ELSE Admit(g[i - 1], s[i], c)]
  <2> SUFFICES ASSUME NEW i \in 0..n
               PROVE  g[i] = IF i = 0 THEN <<>> ELSE Admit(g[i - 1], s[i], c)
    BY <1>2
  <2>1. CASE i = 0
    <3>1. g[i] = f[0] /\ 0 \in 0..(n - 1)
      BY <1>2, <1>3, <2>1
    <3>2. f[0] = <<>>
      BY <1>5, <3>1 DEF Selects
    <3> QED BY <2>1, <3>1, <3>2
  <2>2. CASE i # 0 /\ i # n
    <3>1. i \in 0..(n - 1) /\ i - 1 \in 0..n /\ i - 1 # n /\ i # n
      BY <1>2, <2>2
    <3>2. g[i] = f[i] /\ g[i - 1] = f[i - 1]
      BY <3>1
    <3>3. f[i] = Admit(f[i - 1], s[i], c)
      BY <1>5, <2>2, <3>1 DEF Selects
    <3> HIDE DEF g
    <3> QED BY <2>2, <3>2, <3>3
  <2>3. CASE i = n
    <3>1. n - 1 \in 0..n /\ n - 1 # n /\ n \in 0..n
      BY <1>2, <1>4
    <3>2. g[n] = Admit(f[n - 1], s[n], c) /\ g[n - 1] = f[n - 1]
      BY <3>1
    <3> HIDE DEF g
    <3> QED BY <1>3, <2>3, <3>2
  <2> QED BY <2>1, <2>2, <2>3
<1> HIDE DEF g
<1> QED BY <1>2, <1>6 DEF Selects

\* And one only, which depends on no report after the place it is asked for.
LEMMA SelectsUnique ==
    ASSUME NEW s, NEW t, NEW c, NEW m \in Nat, NEW l \in Nat, m <= l,
           \A n \in 1..m : s[n] = t[n],
           NEW f, Selects(f, s, c, m), NEW g, Selects(g, t, c, l)
    PROVE  f[m] = g[m]
<1> DEFINE P == {n \in Nat : n <= m /\ f[n] # g[n]}
<1> SUFFICES ASSUME P # {} PROVE FALSE
  OBVIOUS
<1>1. PICK n \in P : \A k \in P : n <= k
  <2>1. P \subseteq Nat
    OBVIOUS
  <2> HIDE DEF P
  <2> QED BY <2>1, LeastMember
<1>2. n \in Nat /\ n <= m /\ f[n] # g[n]
  BY <1>1
<1>3. n \in 0..m /\ n \in 0..l
  BY <1>2
<1>4. /\ f[n] = IF n = 0 THEN <<>> ELSE Admit(f[n - 1], s[n], c)
      /\ g[n] = IF n = 0 THEN <<>> ELSE Admit(g[n - 1], t[n], c)
  BY <1>3 DEF Selects
<1>5. n # 0
  BY <1>2, <1>4
<1>6. n - 1 \in Nat /\ n - 1 <= m /\ n - 1 \notin P
  BY <1>1, <1>2, <1>5
<1>7. f[n - 1] = g[n - 1] /\ s[n] = t[n]
  BY <1>2, <1>5, <1>6
<1> QED BY <1>2, <1>4, <1>5, <1>7

\* Selected is the last value of that function.
LEMMA SelectedFacts ==
    ASSUME NEW s \in Seq(Reports), NEW c
    PROVE  \E f : Selects(f, s, c, Len(s)) /\ Selected(s, c) = f[Len(s)]
<1> DEFINE F == CHOOSE f : f = [n \in 0..Len(s) |-> IF n = 0 THEN <<>> ELSE Admit(f[n - 1], s[n], c)]
<1>1. Selected(s, c) = F[Len(s)]
  BY DEF Selected
<1>2. \E f : f = [n \in 0..Len(s) |-> IF n = 0 THEN <<>> ELSE Admit(f[n - 1], s[n], c)]
  <2>1. Len(s) \in Nat
    OBVIOUS
  <2>2. \E f : Selects(f, s, c, Len(s))
    BY <2>1, SelectsExists
  <2> QED BY <2>2 DEF Selects
<1>3. F = [n \in 0..Len(s) |-> IF n = 0 THEN <<>> ELSE Admit(F[n - 1], s[n], c)]
  BY <1>2
<1> HIDE DEF F
<1> QED BY <1>1, <1>3 DEF Selects

\* No report is selected from an empty sequence.
LEMMA SelectedEmpty == ASSUME NEW c PROVE Selected(<<>>, c) = <<>>
<1>1. <<>> \in Seq(Reports) /\ Len(<<>>) = 0
  OBVIOUS
<1>2. PICK f : Selects(f, <<>>, c, 0) /\ Selected(<<>>, c) = f[0]
  BY <1>1, SelectedFacts
<1> QED BY <1>2 DEF Selects

\* One report more is selected if it is one of the channel.
LEMMA SelectedAppend ==
    ASSUME NEW s \in Seq(Reports), NEW r \in Reports, NEW c
    PROVE  Selected(Append(s, r), c) = Admit(Selected(s, c), r, c)
<1> DEFINE t == Append(s, r)
           l == Len(s)
<1>1. /\ t \in Seq(Reports) /\ Len(t) = l + 1 /\ t[l + 1] = r
      /\ l \in Nat /\ \A n \in 1..l : s[n] = t[n]
  OBVIOUS
<1> HIDE DEF t
<1>2. PICK f : Selects(f, s, c, l) /\ Selected(s, c) = f[l]
  BY SelectedFacts
<1>3. PICK g : Selects(g, t, c, l + 1) /\ Selected(t, c) = g[l + 1]
  BY <1>1, SelectedFacts
<1> HIDE DEF l
<1>4. f[l] = g[l]
  <2>1. l + 1 \in Nat /\ l <= l + 1
    BY <1>1
  <2> QED BY <1>1, <1>2, <1>3, <2>1, SelectsUnique
<1>5. g[l + 1] = Admit(g[(l + 1) - 1], t[l + 1], c)
  <2>1. l + 1 \in 0..(l + 1) /\ l + 1 # 0
    BY <1>1
  <2> QED BY <1>3, <2>1 DEF Selects
<1>6. (l + 1) - 1 = l
  BY <1>1
<1> QED BY <1>1, <1>2, <1>3, <1>4, <1>5, <1>6 DEF t

\* What the reader holds for the queue.
Held == IF report # None /\ report.cid = cid THEN <<report>> ELSE <<>>

\* A report is held only from ReadFull to enqueue; without that, the report on
\* the wire could be counted twice.
Order == InOrderOnce /\ (reader # "enqueue" => report = None)

\* What Selected gives for the reports on the wire that SetCID starts from.
LEMMA SelectedHeld ==
    ASSUME NEW r \in Reports, NEW c
    PROVE  Selected(<<r>>, c) = IF r.cid = c THEN <<r>> ELSE <<>>
<1>1. <<>> \in Seq(Reports) /\ Append(<<>>, r) = <<r>>
  OBVIOUS
<1>2. Selected(Append(<<>>, r), c) = Admit(Selected(<<>>, c), r, c)
  BY <1>1, SelectedAppend
<1> QED BY <1>1, <1>2, SelectedEmpty DEF Admit

\* Appending to the second of two sequences appends to both.
LEMMA AppendOver ==
    ASSUME NEW q \in Seq(Reports), NEW s \in Seq(Reports), NEW r \in Reports
    PROVE  q \o s \o <<r>> = q \o Append(s, r) \o <<>>
<1> DEFINE u == q \o s \o <<r>>
           v == q \o Append(s, r) \o <<>>
<1>1. u \in Seq(Reports) /\ v \in Seq(Reports) /\ Len(u) = Len(v)
  OBVIOUS
<1>2. \A n \in 1..Len(u) : u[n] = v[n]
  OBVIOUS
<1> HIDE DEF u, v
<1>3. u = [n \in 1..Len(u) |-> u[n]] /\ v = [n \in 1..Len(v) |-> v[n]]
  BY <1>1
<1>4. u = v
  BY <1>1, <1>2, <1>3
<1> QED BY <1>4 DEF u, v

\* Each step hands the reports on, from the wire to the reader, the queue and
\* the caller, without losing, repeating or overtaking one.
LEMMA OrderStep == IInv /\ IInv' /\ Order /\ [Next]_vars => Order'
<1> SUFFICES ASSUME IInv, IInv', Order, [Next]_vars PROVE Order'
  OBVIOUS
<1> USE DEF readerVars, callerVars, ownerVars, closerVars
<1>0. /\ wire \in Seq(Reports) /\ got \in Seq(Reports) /\ pending \in Seq(Reports)
      /\ report \in Reports \union {None} /\ None \notin Reports
      /\ reader = "enqueue" => report # None
      /\ reader # "enqueue" => report = None
      /\ Selected(wire, cid) = got \o pending \o Held
  BY NoneAssumption DEF IInv, TypeOK, ReaderControl, Order, InOrderOnce, Held
<1>1. ASSUME NEW c \in Channels, ReadReport(c) PROVE Order'
  <2>1. report = None /\ cid' = cid /\ got' = got /\ pending' = pending /\ reader' = "enqueue"
    BY <1>0, <1>1 DEF ReadReport
  <2>2. report' \in Reports
    BY <1>1, NoneAssumption, ReportsAssumption DEF ReadReport, IInv, TypeOK, Reports
  <2>3. wire' = Append(wire, report')
    BY <1>1 DEF ReadReport
  <2>4. Selected(wire', cid') = Admit(Selected(wire, cid), report', cid)
    <3> DEFINE r == report'
    <3>1. r \in Reports
      BY <2>2
    <3> HIDE DEF r
    <3>2. Selected(Append(wire, r), cid) = Admit(Selected(wire, cid), r, cid)
      BY <1>0, <3>1, SelectedAppend
    <3> QED BY <2>1, <2>3, <3>2 DEF r
  <2>5. Selected(wire, cid) = got \o pending
    <3>1. Held = <<>> /\ got \o pending \in Seq(Reports)
      BY <1>0, <2>1 DEF Held
    <3> QED BY <1>0, <3>1
  <2>6. Selected(wire', cid') = got' \o pending' \o Held'
    <3> DEFINE r == report'
               q == got \o pending
    <3>1. r \in Reports /\ q \in Seq(Reports) /\ r # None
      BY <1>0, <2>2
    <3>2. Held' = IF r.cid = cid THEN <<r>> ELSE <<>>
      BY <2>1, <3>1 DEF Held
    <3>3. Selected(wire', cid') = Admit(q, r, cid)
      BY <2>4, <2>5
    <3>4. got' \o pending' = q
      BY <2>1
    <3> HIDE DEF r, q
    <3>5. Append(q, r) = q \o <<r>> /\ q = q \o <<>>
      BY <3>1
    <3> QED BY <3>2, <3>3, <3>4, <3>5 DEF Admit
  <2> QED BY <2>1, <2>6 DEF Order, InOrderOnce, Held
<1>2. ASSUME NEW c \in Channels, SetCID(c) PROVE Order'
  <2>1. /\ cid' = c /\ got' = <<>> /\ pending' = <<>> /\ report' = report /\ reader' = reader
        /\ wire' = IF report = None THEN <<>> ELSE <<report>>
    BY <1>2 DEF SetCID
  <2>2. Selected(wire', cid') = Held'
    <3>1. CASE report = None
      BY <2>1, <3>1, SelectedEmpty DEF Held
    <3>2. CASE report # None
      <4>1. report \in Reports
        BY <1>0, <3>2
      <4>2. Selected(<<report>>, c) = IF report.cid = c THEN <<report>> ELSE <<>>
        BY <4>1, SelectedHeld
      <4> QED BY <2>1, <3>2, <4>2 DEF Held
    <3> QED BY <3>1, <3>2
  <2>3. got' \o pending' \o Held' = Held'
    <3>1. CASE Held' = <<>>
      BY <2>1, <3>1
    <3>2. CASE Held' = <<report>> /\ report # None
      <4>1. report \in Reports
        BY <1>0, <3>2
      <4>2. <<>> \o <<>> \o <<report>> = <<report>>
        BY <4>1
      <4> QED BY <2>1, <3>2, <4>2
    <3>3. Held' = <<>> \/ (Held' = <<report>> /\ report # None)
      BY <2>1 DEF Held
    <3> QED BY <3>1, <3>2, <3>3
  <2> QED BY <1>0, <2>1, <2>2, <2>3 DEF Order, InOrderOnce, Held
<1>3. CASE Enqueue
  <2>1. /\ cid' = cid /\ got' = got /\ wire' = wire /\ report' = None
        /\ reader = "enqueue" /\ reader' # "enqueue"
    BY <1>3 DEF Enqueue
  <2>2. report \in Reports /\ report # None /\ Held' = <<>>
    BY <1>0, <2>1 DEF Held
  <2>3. \/ Held = <<report>> /\ pending' = Append(pending, report)
        \/ Held = <<>> /\ pending' = pending
    <3>1. CASE report.cid = cid
      BY <1>3, <2>2, <3>1 DEF Enqueue, Held
    <3>2. CASE report.cid # cid
      BY <1>3, <2>2, <3>2 DEF Enqueue, Held
    <3> QED BY <3>1, <3>2
  <2>4. got \o pending \o Held = got \o pending' \o <<>>
    <3>1. CASE Held = <<report>> /\ pending' = Append(pending, report)
      <4> QED BY <1>0, <2>2, <3>1, AppendOver
    <3>2. CASE Held = <<>> /\ pending' = pending
      BY <3>2
    <3> QED BY <2>3, <3>1, <3>2
  <2> QED BY <1>0, <2>1, <2>2, <2>4 DEF Order, InOrderOnce, Held
<1>4. CASE NextReport
  <2>1. /\ cid' = cid /\ wire' = wire /\ report' = report /\ reader' = reader /\ Held' = Held
    BY <1>4 DEF NextReport, Held
  <2>2. got' \o pending' = got \o pending
    <3>1. CASE pending = <<>>
      BY <1>4, <3>1 DEF NextReport
    <3>2. CASE pending # <<>>
      <4>1. got' = Append(got, Head(pending)) /\ pending' = Tail(pending)
        BY <1>4, <3>2 DEF NextReport
      <4>2. Append(got, Head(pending)) \o Tail(pending) = got \o pending
        BY <1>0, <3>2
      <4> QED BY <4>1, <4>2
    <3> QED BY <3>1, <3>2
  <2> QED BY <1>0, <2>1, <2>2 DEF Order, InOrderOnce, Held
<1>5. CASE UNCHANGED <<cid, got, pending, wire, report>> /\ (reader' = "enqueue" => reader = "enqueue")
           /\ (reader = "enqueue" => reader' = "enqueue")
  BY <1>0, <1>5 DEF Order, InOrderOnce, Held
<1>6. ASSUME NEW e \in {"canceled", "io"}, ReadFails(e) PROVE Order'
  BY <1>5, <1>6 DEF ReadFails
<1>7. ASSUME Notify \/ Finish \/ CloseStopped PROVE Order'
  BY <1>5, <1>7 DEF Notify, Finish, CloseStopped
<1>8. ASSUME ReadCall \/ ContextDone \/ Woken \/ ReadCanceled PROVE Order'
  BY <1>5, <1>8 DEF ReadCall, ContextDone, Woken, ReadCanceled
<1>9. ASSUME Stop \/ StopReturns PROVE Order'
  BY <1>5, <1>9 DEF Stop, StopReturns
<1>10. ASSUME NEW p \in Closers, CloseCall(p) \/ CloseDevice(p) \/ CloseReturns(p) PROVE Order'
  BY <1>5, <1>10 DEF CloseCall, CloseDevice, CloseReturns
<1>11. CASE UNCHANGED vars
  BY <1>5, <1>11 DEF vars
<1> QED
  BY <1>1, <1>2, <1>3, <1>4, <1>6, <1>7, <1>8, <1>9, <1>10, <1>11
     DEF Next, ReaderStep, CallerStep, CloserStep

\* Read returns the reports of the bound channel in the order the endpoint
\* delivered them, each once: nextReport, enqueue and setCID, in any order with
\* the reader goroutine, lose and repeat none.
THEOREM ReportsInOrder == Spec => []InOrderOnce
<1>1. Init => Order
  <2> SUFFICES ASSUME Init PROVE Order
    OBVIOUS
  <2>1. <<>> \o <<>> \o <<>> = <<>>
    OBVIOUS
  <2> QED BY <2>1, SelectedEmpty DEF Init, Order, InOrderOnce
<1>2. IInv /\ IInv' /\ Order /\ [Next]_vars => Order'
  BY OrderStep
<1>3. Order => InOrderOnce
  BY DEF Order
<1> QED BY <1>1, <1>2, <1>3, Invariant, PTL DEF Spec
=============================================================================
