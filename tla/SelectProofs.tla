---------------------------- MODULE SelectProofs ----------------------------
(***************************************************************************)
(* Proofs about Select, for any finite set of authenticators: its types,   *)
(* which transports are left open, and that the authenticator it returns   *)
(* was touched.                                                            *)
(***************************************************************************)
EXTENDS Select, FiniteSetTheorems, TLAPS

\* The goroutines that have put their result into the channel.
Done == {d \in Candidates : sel[d] = "done"}

\* Every result put into the channel was taken by the loop or is still in it:
\* this bounds the number of results taken by the number of devices.
Counted == /\ \A d \in Candidates : sel[d] # "none" => d \in devices
           /\ received + Len(results) = Cardinality(Done)

\* What holds before the goroutines start, and that enumeration ends then.
Phases == /\ phase = "enumerate" => /\ \A d \in Candidates : sel[d] = "none"
                                    /\ winner = None /\ toClose = {}
                                    /\ results = <<>>
          /\ phase # "enumerate" => todo = {}
          /\ winner \notin toClose

\* The transports that are open at each control point of Select.
Opened == /\ \A d \in todo : transport[d] = "none" /\ d \notin devices
          /\ phase \in {"enumerate", "select"} => Open = devices
          /\ phase = "close" => Open = toClose \union ({winner} \ {None})
          /\ OneSurvivor

\* Until the first device is closed a success in the channel, or on its way
\* into it, is a touch: this is what closing the losers first would break.
Confirmed ==
    /\ \A i \in 1..Len(results) : sel[results[i]] = "done"
    /\ phase \in {"enumerate", "select"} =>
           \A d \in Candidates : sel[d] \in {"send", "done"} /\ outcome[d] = "nil" => d \in touched
    /\ winner # None => winner \in touched
    /\ SelectedWasTouched

IInv == TypeOK /\ Counted /\ Phases /\ Opened /\ Confirmed

-----------------------------------------------------------------------------
(* Operators. *)

\* The cardinalities of the set of devices and of the set of goroutines that
\* are done are natural numbers, and the second is at most the first.
LEMMA DoneBounded ==
    ASSUME TypeOK, \A d \in Candidates : sel[d] # "none" => d \in devices
    PROVE  /\ IsFiniteSet(devices) /\ Cardinality(devices) \in Nat
           /\ IsFiniteSet(Done) /\ Cardinality(Done) \in Nat
           /\ Cardinality(Done) <= Cardinality(devices)
<1>1. IsFiniteSet(devices)
  BY SelectAssumption, FS_Subset DEF TypeOK
<1>2. Done \in SUBSET devices
  BY DEF Done
<1> QED
  BY <1>1, <1>2, FS_Subset, FS_CardinalityType

\* Taking the head off a queue leaves its other elements in it, in order, and
\* one place less is used: what the select statement's receive does.
LEMMA TailFacts ==
    ASSUME NEW S, NEW q \in Seq(S), q # <<>>
    PROVE  /\ Head(q) \in S /\ Head(q) = q[1] /\ 1 \in 1..Len(q)
           /\ Tail(q) \in Seq(S) /\ Len(Tail(q)) = Len(q) - 1
           /\ \A i \in 1..Len(Tail(q)) : Tail(q)[i] = q[i + 1] /\ i + 1 \in 1..Len(q)
  OBVIOUS

\* A send adds one element behind the others.
LEMMA AppendFacts ==
    ASSUME NEW S, NEW q \in Seq(S), NEW x \in S
    PROVE  /\ Append(q, x) \in Seq(S) /\ Len(Append(q, x)) = Len(q) + 1
           /\ \A i \in 1..Len(Append(q, x)) :
                  \/ Append(q, x)[i] = x
                  \/ i \in 1..Len(q) /\ Append(q, x)[i] = q[i]
  OBVIOUS

-----------------------------------------------------------------------------
(* The types, and the count of the results. *)

\* Every action of Select, of its goroutines and of the caller's context
\* preserves the types and the count of results; the bound on received is the
\* one that makes the channel's capacity, the number of devices, enough.
LEMMA TypeStep == IInv /\ [Next]_vars => TypeOK' /\ Counted'
<1> SUFFICES ASSUME IInv, [Next]_vars PROVE TypeOK' /\ Counted'
  OBVIOUS
<1> USE SelectAssumption DEF IInv
<1>0. /\ IsFiniteSet(devices) /\ Cardinality(devices) \in Nat
      /\ IsFiniteSet(Done) /\ Cardinality(Done) \in Nat
      /\ Cardinality(Done) <= Cardinality(devices)
  BY DoneBounded DEF Counted
<1>a. Len(results) \in Nat /\ received \in Nat
  BY <1>0 DEF TypeOK
<1>1. ASSUME NEW d \in Candidates, Enumerate(d) PROVE TypeOK' /\ Counted'
  <2>1. devices' \subseteq Candidates /\ devices \subseteq devices'
    BY <1>1 DEF Enumerate, TypeOK
  <2>2. Cardinality(devices) <= Cardinality(devices') /\ Cardinality(devices') \in Nat
    BY <2>1, FS_Subset, FS_CardinalityType
  <2>3. results = <<>> /\ phase = "enumerate"
    BY <1>1 DEF Enumerate, Phases
  <2>4. TypeOK'
    BY <1>1, <2>1, <2>2, <2>3, <1>0 DEF Enumerate, TypeOK, selVars, closeVars
  <2>5. Done' = Done
    BY <1>1 DEF Enumerate, selVars, Done
  <2>6. Counted'
    BY <1>1, <2>1, <2>5 DEF Enumerate, selVars, Counted
  <2> QED BY <2>4, <2>6
<1>2. CASE StartSelection
  <2>1. TypeOK'
    <3>1. CASE Cardinality(devices) > 1
      BY <1>2, <3>1 DEF StartSelection, TypeOK, enumVars, closeVars
    <3>2. CASE ~(Cardinality(devices) > 1)
      <4>1. ret' \in devices \union {"error"}
        BY <1>2, <3>2 DEF StartSelection
      <4> QED
        BY <1>2, <3>2, <4>1 DEF StartSelection, TypeOK, enumVars, closeVars
    <3> QED BY <3>1, <3>2
  <2>2. Done = {} /\ Done' = {}
    BY <1>2 DEF StartSelection, Done, Phases, TypeOK
  <2>3. Counted'
    BY <1>2, <2>2 DEF StartSelection, enumVars, Counted, Phases
  <2> QED BY <2>1, <2>3
<1>3. CASE ContextDone
  <2>1. TypeOK'
    BY <1>3 DEF ContextDone, TypeOK, enumVars, selVars, closeVars
  <2>2. Done' = Done
    BY <1>3 DEF ContextDone, selVars, Done
  <2> QED
    BY <1>3, <2>1, <2>2 DEF ContextDone, enumVars, selVars, Counted
<1>4. ASSUME NEW d \in Candidates, NEW r \in Answers, SelectionReturns(d, r)
      PROVE TypeOK' /\ Counted'
  <2>1. d \in devices
    BY <1>4 DEF SelectionReturns, Counted
  <2>2. touched' \subseteq devices
    BY <1>4, <2>1 DEF SelectionReturns, TypeOK
  <2>3. TypeOK'
    BY <1>4, <2>2 DEF SelectionReturns, normalizeSelectionError, TypeOK, enumVars, closeVars
  <2>4. Done' = Done
    BY <1>4 DEF SelectionReturns, Done, TypeOK
  <2>5. \A e \in Candidates : sel'[e] # "none" => e \in devices
    BY <1>4, <2>1 DEF SelectionReturns, TypeOK, Counted
  <2> QED
    BY <1>4, <2>3, <2>4, <2>5 DEF SelectionReturns, enumVars, Counted
<1>5. ASSUME NEW d \in Candidates, Send(d) PROVE TypeOK' /\ Counted'
  <2>1. d \in devices
    BY <1>5 DEF Send, Counted
  <2>2. results' \in Seq(devices) /\ Len(results') = Len(results) + 1
    BY <1>5, <2>1, AppendFacts DEF Send, TypeOK
  <2>3. TypeOK'
    BY <1>5, <2>2 DEF Send, TypeOK, enumVars, closeVars
  <2>4. Done' = Done \union {d} /\ d \notin Done
    BY <1>5 DEF Send, Done, TypeOK
  <2>5. Cardinality(Done') = Cardinality(Done) + 1
    BY <2>4, <1>0, FS_AddElement
  <2>6. \A e \in Candidates : sel'[e] # "none" => e \in devices
    BY <1>5, <2>1 DEF Send, TypeOK, Counted
  <2>7. received' + Len(results') = Cardinality(Done')
    BY <1>5, <1>a, <2>2, <2>5 DEF Send, Counted
  <2> QED
    BY <1>5, <2>3, <2>6, <2>7 DEF Send, enumVars, Counted
<1>6. CASE Receive
  <2>1. /\ Head(results) \in devices /\ results' \in Seq(devices)
        /\ Len(results') = Len(results) - 1 /\ Len(results) \in Nat \ {0}
    BY <1>6, <1>a, TailFacts DEF Receive, TypeOK
  <2>2. received' = received + 1 /\ received + 1 <= Cardinality(devices)
    BY <1>6, <1>0, <1>a, <2>1 DEF Receive, Counted
  <2>3. received' \in 0..Cardinality(devices)
    BY <1>0, <1>a, <2>2
  <2>4. /\ winner' \in devices \union {None} /\ toClose' \subseteq devices
        /\ phase' \in {"select", "close"} /\ canceled' \in BOOLEAN /\ phase = "select"
    BY <1>6, <2>1 DEF Receive, BeginClose, TypeOK
  <2>5. TypeOK'
    BY <1>6, <2>1, <2>3, <2>4 DEF Receive, TypeOK, enumVars, selVars
  <2>6. Done' = Done
    BY <1>6 DEF Receive, Done, selVars
  <2>7. received' + Len(results') = Cardinality(Done')
    BY <1>a, <2>1, <2>2, <2>6 DEF Counted
  <2> QED
    BY <1>6, <2>5, <2>7 DEF Receive, enumVars, selVars, Counted
<1>7. CASE ContextSeen
  <2>1. TypeOK'
    BY <1>7 DEF ContextSeen, BeginClose, TypeOK, enumVars, selVars
  <2>2. Done' = Done
    BY <1>7 DEF ContextSeen, Done, selVars
  <2> QED
    BY <1>7, <2>1, <2>2 DEF ContextSeen, enumVars, selVars, Counted
<1>8. ASSUME NEW d \in Candidates, NEW failed \in BOOLEAN, CloseOne(d, failed)
      PROVE TypeOK' /\ Counted'
  <2>0. closeErr' \in BOOLEAN
    BY <1>8 DEF CloseOne
  <2>1. TypeOK'
    BY <1>8, <2>0 DEF CloseOne, TypeOK, enumVars, selVars
  <2>2. Done' = Done
    BY <1>8 DEF CloseOne, Done, selVars
  <2> QED
    BY <1>8, <2>1, <2>2 DEF CloseOne, enumVars, selVars, Counted
<1>9. CASE Return
  <2>1. transport' \in [Candidates -> {"none", "open", "closed"}]
    BY <1>9 DEF Return, TypeOK
  <2>2. ret' \in devices \union {"error"}
    BY <1>9 DEF Return, TypeOK
  <2>3. TypeOK'
    BY <1>9, <2>1, <2>2 DEF Return, TypeOK, enumVars, selVars, closeVars
  <2>4. Done' = Done
    BY <1>9 DEF Return, Done, selVars
  <2> QED
    BY <1>9, <2>3, <2>4 DEF Return, enumVars, selVars, Counted
<1>10. CASE UNCHANGED vars
  <2>1. Done' = Done
    BY <1>10 DEF vars, Done
  <2> QED
    BY <1>10, <2>1 DEF vars, TypeOK, Counted
<1> QED
  BY <1>1, <1>2, <1>3, <1>4, <1>5, <1>6, <1>7, <1>8, <1>9, <1>10 DEF Next, SelectStep
-----------------------------------------------------------------------------
(* The control points and the open transports. *)

\* Every action preserves what the control points say about the enumeration
\* and about the devices closeDevices was given.
LEMMA PhaseStep == IInv /\ [Next]_vars => Phases'
<1> SUFFICES ASSUME IInv, [Next]_vars PROVE Phases'
  OBVIOUS
<1> USE SelectAssumption DEF IInv, Phases
<1>1. ASSUME NEW d \in Candidates, Enumerate(d) PROVE Phases'
  BY <1>1 DEF Enumerate, selVars, closeVars
<1>2. CASE StartSelection
  BY <1>2 DEF StartSelection, enumVars, closeVars
<1>3. CASE ContextDone
  BY <1>3 DEF ContextDone, enumVars, selVars, closeVars
<1>4. ASSUME NEW d \in Candidates, NEW r \in Answers, SelectionReturns(d, r) PROVE Phases'
  BY <1>4 DEF SelectionReturns, enumVars, closeVars
<1>5. ASSUME NEW d \in Candidates, Send(d) PROVE Phases'
  BY <1>5 DEF Send, enumVars, closeVars
<1>6. CASE Receive
  BY <1>6 DEF Receive, BeginClose, enumVars, selVars
<1>7. CASE ContextSeen
  BY <1>7 DEF ContextSeen, BeginClose, enumVars, selVars
<1>8. ASSUME NEW d \in Candidates, NEW failed \in BOOLEAN, CloseOne(d, failed) PROVE Phases'
  BY <1>8 DEF CloseOne, enumVars, selVars
<1>9. CASE Return
  BY <1>9 DEF Return, enumVars, selVars, closeVars
<1>10. CASE UNCHANGED vars
  BY <1>10 DEF vars
<1> QED
  BY <1>1, <1>2, <1>3, <1>4, <1>5, <1>6, <1>7, <1>8, <1>9, <1>10 DEF Next, SelectStep

\* Every action preserves the account of the open transports: the loop gives
\* closeDevices all of them but the winner's, and Return, which runs when
\* there is none left to close, closes the winner's if one failed to close.
LEMMA OpenStep == IInv /\ [Next]_vars => Opened'
<1> SUFFICES ASSUME IInv, [Next]_vars PROVE Opened'
  OBVIOUS
<1> USE SelectAssumption DEF IInv
<1>1. ASSUME NEW d \in Candidates, Enumerate(d) PROVE Opened'
  <2>1. phase = "enumerate" /\ phase' = "enumerate" /\ todo' = todo \ {d} /\ d \in todo
    BY <1>1 DEF Enumerate
  <2>2. \A e \in todo' : transport'[e] = "none" /\ e \notin devices'
    BY <1>1, <2>1 DEF Enumerate, Opened, TypeOK
  <2>3. Open' = devices'
    BY <1>1, <2>1 DEF Enumerate, Opened, Open, TypeOK
  <2> QED
    BY <2>1, <2>2, <2>3 DEF Opened, OneSurvivor
<1>2. CASE StartSelection
  <2>1. Open = devices /\ Open' = Open /\ devices' = devices /\ todo' = todo /\ todo = {}
    BY <1>2 DEF StartSelection, enumVars, Opened, Open
  <2>2. CASE Cardinality(devices) > 1
    BY <1>2, <2>1, <2>2 DEF StartSelection, Opened, OneSurvivor
  <2>3. CASE ~(Cardinality(devices) > 1)
    <3>1. IsFiniteSet(devices) /\ Cardinality(devices) \in Nat
      BY DoneBounded DEF Counted
    <3>2. devices = {} \/ \E d : devices = {d}
      <4>1. Cardinality(devices) = 0 \/ Cardinality(devices) = 1
        BY <2>3, <3>1
      <4> QED
        BY <3>1, <4>1, FS_EmptySet, FS_Singleton
    <3>3. phase' = "returned"
      BY <1>2, <2>3 DEF StartSelection
    <3>4. CASE devices = {}
      BY <1>2, <2>1, <2>3, <3>3, <3>4 DEF StartSelection, Opened, OneSurvivor
    <3>5. CASE devices # {}
      <4>1. PICK d : devices = {d}
        BY <3>2, <3>5
      <4>2. ret' = d /\ d \in Candidates
        BY <1>2, <2>3, <4>1 DEF StartSelection, TypeOK
      <4> QED
        BY <2>1, <3>3, <4>1, <4>2 DEF Opened, OneSurvivor
    <3> QED BY <3>4, <3>5
  <2> QED BY <2>2, <2>3
<1>3. CASE ContextDone
  BY <1>3 DEF ContextDone, enumVars, closeVars, Opened, Open, OneSurvivor
<1>4. ASSUME NEW d \in Candidates, NEW r \in Answers, SelectionReturns(d, r) PROVE Opened'
  BY <1>4 DEF SelectionReturns, enumVars, closeVars, Opened, Open, OneSurvivor
<1>5. ASSUME NEW d \in Candidates, Send(d) PROVE Opened'
  BY <1>5 DEF Send, enumVars, closeVars, Opened, Open, OneSurvivor
<1>6. CASE Receive
  <2>1. Open' = Open /\ devices' = devices /\ todo' = todo /\ transport' = transport
    BY <1>6 DEF Receive, enumVars, Open
  <2>2. Open = devices /\ phase = "select"
    BY <1>6 DEF Receive, Opened
  <2>3. CASE phase' = "select"
    BY <2>1, <2>2, <2>3 DEF Opened, OneSurvivor
  <2>4. CASE phase' = "close"
    <3>1. toClose' = devices \ {winner'} /\ (winner' = None \/ winner' = Head(results))
      BY <1>6, <2>2, <2>4 DEF Receive, BeginClose
    <3>2. Head(results) \in devices
      BY <1>6, TailFacts DEF Receive, TypeOK
    <3>3. Open' = toClose' \union ({winner'} \ {None})
      BY <2>1, <2>2, <3>1, <3>2 DEF TypeOK
    <3> QED
      BY <2>1, <2>4, <3>3 DEF Opened, OneSurvivor
  <2> QED
    BY <1>6, <2>3, <2>4 DEF Receive, BeginClose
<1>7. CASE ContextSeen
  <2>1. toClose' = devices \ {None} /\ winner' = None /\ phase' = "close" /\ phase = "select"
    BY <1>7 DEF ContextSeen, BeginClose
  <2>2. Open' = Open /\ devices' = devices /\ todo' = todo /\ transport' = transport
    BY <1>7 DEF ContextSeen, enumVars, Open
  <2>3. Open' = toClose' \union ({winner'} \ {None})
    BY <2>1, <2>2 DEF Opened, TypeOK
  <2> QED
    BY <2>1, <2>2, <2>3 DEF Opened, OneSurvivor
<1>8. ASSUME NEW d \in Candidates, NEW failed \in BOOLEAN, CloseOne(d, failed) PROVE Opened'
  <2>1. /\ toClose' = toClose \ {d} /\ winner' = winner /\ phase = "close" /\ phase' = "close"
        /\ todo' = todo /\ todo = {} /\ d \in toClose
    BY <1>8 DEF CloseOne, enumVars, Phases
  <2>2. Open' = Open \ {d}
    BY <1>8 DEF CloseOne, Open, TypeOK
  <2>3. Open' = toClose' \union ({winner'} \ {None})
    BY <2>1, <2>2 DEF Opened, Phases
  <2> QED
    BY <2>1, <2>3 DEF Opened, OneSurvivor
<1>9. CASE Return
  <2>1. /\ phase = "close" /\ phase' = "returned" /\ todo' = todo /\ todo = {}
        /\ Open = {winner} \ {None}
    BY <1>9 DEF Return, enumVars, Opened, Phases
  <2>2. CASE winner # None /\ ~closeErr
    <3>1. ret' = winner /\ winner \in Candidates /\ Open' = Open
      BY <1>9, <2>2 DEF Return, Open, TypeOK
    <3> QED
      BY <2>1, <2>2, <3>1 DEF Opened, OneSurvivor
  <2>3. CASE ~(winner # None /\ ~closeErr)
    <3>1. ret' = "error" /\ Open' = Open \ {winner}
      BY <1>9, <2>3 DEF Return, Open, TypeOK
    <3> QED
      BY <2>1, <3>1 DEF Opened, OneSurvivor
  <2> QED BY <2>2, <2>3
<1>10. CASE UNCHANGED vars
  BY <1>10 DEF vars, Opened, Open, OneSurvivor
<1> QED
  BY <1>1, <1>2, <1>3, <1>4, <1>5, <1>6, <1>7, <1>8, <1>9, <1>10 DEF Next, SelectStep
-----------------------------------------------------------------------------
(* The touch. *)

\* Every action preserves the account of the touches: no device is closed
\* while the loop still takes results, so the success it takes is a touch,
\* however many successes closing the losers makes up afterwards.
LEMMA TouchStep == IInv /\ [Next]_vars => Confirmed'
<1> SUFFICES ASSUME IInv, [Next]_vars PROVE Confirmed'
  OBVIOUS
<1> USE SelectAssumption DEF IInv
<1>1. ASSUME NEW d \in Candidates, Enumerate(d) PROVE Confirmed'
  <2>1. ret' = ret /\ ret = None
    BY <1>1 DEF Enumerate, TypeOK
  <2> QED
    BY <1>1, <2>1 DEF Enumerate, Confirmed, SelectedWasTouched, Phases, selVars, closeVars
<1>2. CASE StartSelection
  <2>1. \A d \in Candidates : sel'[d] \notin {"send", "done"}
    BY <1>2 DEF StartSelection, Phases
  <2>2. results' = <<>> /\ winner' = None
    BY <1>2 DEF StartSelection, Phases, closeVars
  <2>3. Cardinality(devices') > 1 => ret' = None
    BY <1>2 DEF StartSelection, TypeOK, enumVars
  <2> QED
    BY <2>1, <2>2, <2>3 DEF Confirmed, SelectedWasTouched
<1>3. CASE ContextDone
  BY <1>3 DEF ContextDone, enumVars, selVars, closeVars, Confirmed, SelectedWasTouched
<1>4. ASSUME NEW d \in Candidates, NEW r \in Answers, SelectionReturns(d, r) PROVE Confirmed'
  <2>1. touched \subseteq touched' /\ devices' = devices /\ d \in devices
    BY <1>4 DEF SelectionReturns, enumVars, Counted
  <2>2. \A i \in 1..Len(results') : sel'[results'[i]] = "done"
    <3>1. \A i \in 1..Len(results) : results[i] \in Candidates /\ results[i] # d
      BY <1>4 DEF SelectionReturns, Confirmed, TypeOK
    <3> QED
      BY <1>4, <3>1 DEF SelectionReturns, Confirmed, TypeOK
  <2>3. ASSUME phase' \in {"enumerate", "select"}, NEW e \in Candidates,
               sel'[e] \in {"send", "done"}, outcome'[e] = "nil"
        PROVE  e \in touched'
    <3>1. CASE e = d
      <4>1. transport[d] = "open"
        BY <1>4, <2>1, <2>3 DEF SelectionReturns, Opened, Open
      <4> QED
        BY <1>4, <2>3, <3>1, <4>1 DEF SelectionReturns, normalizeSelectionError, Answers, TypeOK
    <3>2. CASE e # d
      BY <1>4, <2>1, <2>3, <3>2 DEF SelectionReturns, Confirmed, TypeOK
    <3> QED BY <3>1, <3>2
  <2>4. (winner # None => winner \in touched)' /\ SelectedWasTouched'
    BY <1>4, <2>1 DEF SelectionReturns, closeVars, Confirmed, SelectedWasTouched
  <2> QED
    BY <2>2, <2>3, <2>4 DEF Confirmed
<1>5. ASSUME NEW d \in Candidates, Send(d) PROVE Confirmed'
  <2>1. d \in devices
    BY <1>5 DEF Send, Counted
  <2>2. \A i \in 1..Len(results') :
            \/ results'[i] = d
            \/ i \in 1..Len(results) /\ results'[i] = results[i]
    BY <1>5, <2>1, AppendFacts DEF Send, TypeOK
  <2>3. \A i \in 1..Len(results) : results[i] \in Candidates
    BY DEF TypeOK
  <2>4. \A e \in Candidates : sel'[e] = IF e = d THEN "done" ELSE sel[e]
    BY <1>5 DEF Send, TypeOK
  <2>5. \A i \in 1..Len(results') : sel'[results'[i]] = "done"
    BY <2>2, <2>3, <2>4 DEF Confirmed
  <2> QED
    BY <1>5, <2>4, <2>5 DEF Send, Confirmed, SelectedWasTouched, enumVars, closeVars
<1>6. CASE Receive
  <2>1. /\ phase = "select" /\ Head(results) \in devices /\ Head(results) = results[1]
        /\ 1 \in 1..Len(results)
        /\ \A i \in 1..Len(results') : results'[i] = results[i + 1] /\ i + 1 \in 1..Len(results)
    BY <1>6, TailFacts DEF Receive, TypeOK
  <2>2. \A i \in 1..Len(results') : sel'[results'[i]] = "done"
    BY <1>6, <2>1 DEF Receive, Confirmed, selVars
  <2>3. winner' # None => winner' \in touched'
    BY <1>6, <2>1 DEF Receive, BeginClose, Confirmed, selVars, TypeOK
  <2>4. ret' = None
    BY <1>6 DEF Receive, TypeOK
  <2>5. ASSUME phase' \in {"enumerate", "select"}, NEW e \in Candidates,
               sel'[e] \in {"send", "done"}, outcome'[e] = "nil"
        PROVE  e \in touched'
    BY <1>6, <2>1, <2>5 DEF Receive, Confirmed, selVars
  <2> QED
    BY <2>2, <2>3, <2>4, <2>5 DEF Confirmed, SelectedWasTouched
<1>7. CASE ContextSeen
  <2>1. ret' = None /\ winner' = None /\ phase' = "close"
    BY <1>7 DEF ContextSeen, BeginClose, TypeOK
  <2> QED
    BY <1>7, <2>1 DEF ContextSeen, Confirmed, SelectedWasTouched, selVars
<1>8. ASSUME NEW d \in Candidates, NEW failed \in BOOLEAN, CloseOne(d, failed) PROVE Confirmed'
  BY <1>8 DEF CloseOne, enumVars, selVars, Confirmed, SelectedWasTouched
<1>9. CASE Return
  <2>1. ret' = winner \/ ret' = "error"
    BY <1>9 DEF Return
  <2>2. ret' \in Candidates => ret' \in touched'
    BY <1>9, <2>1 DEF Return, Confirmed, selVars
  <2> QED
    BY <1>9, <2>2 DEF Return, selVars, closeVars, Confirmed, SelectedWasTouched
<1>10. CASE UNCHANGED vars
  BY <1>10 DEF vars, Confirmed, SelectedWasTouched
<1> QED
  BY <1>1, <1>2, <1>3, <1>4, <1>5, <1>6, <1>7, <1>8, <1>9, <1>10 DEF Next, SelectStep

-----------------------------------------------------------------------------
(* The theorems. *)

\* The invariant holds before the enumerator yields anything.
LEMMA Initially == Init => IInv
<1> SUFFICES ASSUME Init PROVE IInv
  OBVIOUS
<1> USE SelectAssumption DEF Init
<1>0. received \in 0..Cardinality(devices)
  BY FS_EmptySet
<1>a. results \in Seq(devices) /\ outcome \in [Candidates -> {None, "nil", "err"}]
  OBVIOUS
<1>b. closeErr \in BOOLEAN /\ ctxDone \in BOOLEAN /\ canceled \in BOOLEAN
  OBVIOUS
<1>1. TypeOK
  BY <1>0, <1>a, <1>b DEF TypeOK
<1>2. Done = {}
  BY DEF Done
<1>3. Counted
  BY <1>2, FS_EmptySet DEF Counted
<1>4. Phases /\ Opened /\ Confirmed
  BY DEF Phases, Opened, Open, OneSurvivor, Confirmed, SelectedWasTouched
<1> QED
  BY <1>1, <1>3, <1>4 DEF IInv

\* The inductive invariant of Select: the types, the count of the results, the
\* open transports of each control point and the touches behind the results.
THEOREM Invariance == Spec => []IInv
<1>1. IInv /\ [Next]_vars => IInv'
  BY TypeStep, PhaseStep, OpenStep, TouchStep DEF IInv
<1> QED
  BY Initially, <1>1, PTL DEF Spec

\* Whatever the enumerator, the authenticators, the context and the closes do,
\* Select stays within its types; in particular it never takes more results
\* than the channel it made has room for.
THEOREM TypeCorrect == Spec => []TypeOK
<1>1. IInv => TypeOK
  BY DEF IInv
<1> QED
  BY Invariance, <1>1, PTL

\* When Select has returned, the only transport open is that of the device it
\* returned, and none is if it returned an error.
THEOREM ClosesAllButOne == Spec => []OneSurvivor
<1>1. IInv => OneSurvivor
  BY DEF IInv, Opened
<1> QED
  BY Invariance, <1>1, PTL

\* The device Select picks among several is one the user touched, although
\* normalizeSelectionError also takes a keep-alive cancellation for success.
THEOREM TouchedIsSelected == Spec => []SelectedWasTouched
<1>1. IInv => SelectedWasTouched
  BY DEF IInv, Confirmed
<1> QED
  BY Invariance, <1>1, PTL
=============================================================================
