-------------------------- MODULE DeviceSessionProofs --------------------------
(***************************************************************************)
(* DeviceSession, for any set of callers and any calls: the iterators, the *)
(* outputs of the extensions and the large-blob array.  A caller's record  *)
(* is followed through Step.  Fits says, at each control point, how much   *)
(* of the enumeration that began for it a call has yielded or holds back,  *)
(* and that the rest is what the authenticator returns next; Stored says   *)
(* of which array the units are that it has read or is to write.           *)
(***************************************************************************)
EXTENDS DeviceSession, FiniteSetTheorems, WellFoundedInduction, TLAPS

Active(c) == at[c].pc \notin Final \union {"idle"}

\* A caller's record has the fields of Start.
Fields(r) ==
    r = [pc |-> r.pc, call |-> r.call, req |-> r.req, total |-> r.total,
         got |-> r.got, held |-> r.held, buf |-> r.buf, off |-> r.off]

\* Each assertion or name of s is the item of b it stands for, from n on.
Names(a, item) == "item" \in DOMAIN a /\ a.item = item
Named(s, b, n) == \A i \in 1..Len(s) : Names(s[i], b[n + i])

\* The authenticator has the items of b after the first n, unless its
\* enumeration was ended.
Left(u, op, b, n) ==
    u.kind = op /\ u.items # <<>> =>
        Len(u.items) = Len(b) - n /\ \A i \in 1..Len(u.items) : u.items[i] = b[n + i]

\* The calls that can be at a control point.
Phase(r) ==
    /\ r.pc \in Final \union {"idle", "keys", "begin", "next", "yield", "emit", "read", "write"}
    /\ r.pc = "idle" => r.call.op = "none"
    /\ r.pc \in {"keys", "begin"} => r.call.op \in Enumerations \union {"make"}
    /\ r.pc \in {"next", "yield"} => r.call.op \in Enumerations
    /\ r.pc = "emit" => r.call.op = "get"
    /\ r.pc = "read" => r.call.op \in {"read", "get"}
    /\ r.pc = "write" => r.call.op \in {"set", "get"}

\* What a call has of the enumeration b, with the authenticator's cursor u.
Fits(r, b, u) ==
    /\ Fields(r) /\ IsSeq(r.got) /\ IsSeq(r.held)
    /\ Phase(r)
    /\ r.call.op \in Enumerations => /\ Named(r.got, b, 0) /\ Named(r.held, b, Len(r.got))
                                     /\ Len(r.got) + Len(r.held) <= Len(b)
    /\ r.pc \in {"idle", "keys", "begin"} => r.got = <<>> /\ r.held = <<>>
    /\ r.pc \in {"next", "yield"} =>
          /\ r.total = Len(b) /\ Left(u, r.call.op, b, Len(r.got) + Len(r.held))
          /\ IF Legacy(r) THEN r.got = <<>> ELSE r.held = <<>>
    /\ r.pc = "next" => Len(r.got) + Len(r.held) < Len(b)
    /\ r.pc = "yield" => ~Legacy(r)
    /\ r.pc \in {"read", "write"} /\ r.call.op = "get" =>
          r.got = <<>> /\ r.held # <<>> /\ Len(r.held) = Len(b)
    /\ r.pc = "emit" => r.held # <<>> /\ Len(r.got) + Len(r.held) = Len(b)
    /\ r.pc = "done" /\ r.call.op \in Enumerations => Len(r.got) = Len(b)

PastShape ==
    /\ DOMAIN past = Callers
    /\ \A c \in Callers : /\ past[c] = [begun |-> past[c].begun, seen |-> past[c].seen,
                                        hurt |-> past[c].hurt]
                          /\ IsSeq(past[c].begun)
CursorShape ==
    cursor = [kind |-> cursor.kind, items |-> cursor.items] /\ IsSeq(cursor.items)

\* Device.mu: one call at a time is under way.
Exclusive == \A c \in Callers : Active(c) => mu = c

Called == \A c \in Callers : at[c].pc \notin {"idle", "refused"} => at[c].call \in CallsOf[c]

Enumerating == \A c \in Callers : Fits(at[c], past[c].begun, cursor)

IInv == DOMAIN at = Callers /\ PastShape /\ CursorShape /\ Exclusive /\ Called /\ Enumerating

-----------------------------------------------------------------------------
(* Sequences. *)

\* A sequence of anything is one of its own elements.
LEMMA SeqIsSeq == ASSUME NEW S, NEW s \in Seq(S) PROVE IsSeq(s)
  BY DEF IsSeq

\* An element appended to a sequence.
LEMMA AppendFacts ==
    ASSUME NEW s, IsSeq(s), NEW x
    PROVE  /\ IsSeq(Append(s, x)) /\ Len(Append(s, x)) = Len(s) + 1
           /\ Append(s, x)[Len(s) + 1] = x
           /\ \A i \in 1..Len(s) : Append(s, x)[i] = s[i]
<1> DEFINE S == {s[i] : i \in DOMAIN s} \union {x}
           t == Append(s, x)
<1>1. s \in Seq(S) /\ x \in S
  BY DEF IsSeq
<1>2. /\ t \in Seq(S) /\ Len(t) = Len(s) + 1 /\ t[Len(s) + 1] = x
      /\ \A i \in 1..Len(s) : t[i] = s[i]
  BY <1>1
<1>3. IsSeq(t)
  BY <1>2, SeqIsSeq
<1> QED BY <1>2, <1>3

\* The rest of a sequence after its first element.
LEMMA TailFacts ==
    ASSUME NEW s, IsSeq(s), s # <<>>
    PROVE  /\ IsSeq(Tail(s)) /\ Len(s) \in Nat \ {0} /\ Len(Tail(s)) = Len(s) - 1
           /\ \A i \in 1..Len(Tail(s)) : Tail(s)[i] = s[i + 1]
<1> DEFINE S == {s[i] : i \in DOMAIN s}
           t == Tail(s)
<1>1. s \in Seq(S)
  BY DEF IsSeq
<1>2. /\ t \in Seq(S) /\ Len(s) \in Nat \ {0} /\ Len(t) = Len(s) - 1
      /\ \A i \in 1..Len(t) : t[i] = s[i + 1]
  <2> HIDE DEF S
  <2> QED BY <1>1
<1>3. IsSeq(t)
  BY <1>2, SeqIsSeq
<1> QED BY <1>2, <1>3

\* The length and the domain of a sequence; short sequences.
LEMMA SeqFacts ==
    /\ \A s : IsSeq(s) => Len(s) \in Nat /\ DOMAIN s = 1..Len(s) /\ (s = <<>> <=> Len(s) = 0)
    /\ IsSeq(<<>>) /\ Len(<<>>) = 0
    /\ \A x : IsSeq(<<x>>) /\ Len(<<x>>) = 1 /\ <<x>>[1] = x
<1>1. ASSUME NEW s, IsSeq(s)
      PROVE  Len(s) \in Nat /\ DOMAIN s = 1..Len(s) /\ (s = <<>> <=> Len(s) = 0)
  <2> DEFINE S == {s[i] : i \in DOMAIN s}
  <2>1. s \in Seq(S)
    BY <1>1 DEF IsSeq
  <2> HIDE DEF S
  <2> QED BY <2>1
<1>2. IsSeq(<<>>) /\ Len(<<>>) = 0
  BY DEF IsSeq
<1>3. ASSUME NEW x PROVE IsSeq(<<x>>) /\ Len(<<x>>) = 1 /\ <<x>>[1] = x
  BY DEF IsSeq
<1> QED BY <1>1, <1>2, <1>3

\* A function on the places of a sequence is a sequence.
LEMMA MapFacts ==
    ASSUME NEW n \in Nat, NEW f, DOMAIN f = 1..n, f = [k \in 1..n |-> f[k]]
    PROVE  IsSeq(f) /\ Len(f) = n
<1> DEFINE S == {f[i] : i \in DOMAIN f}
<1>1. f \in [1..n -> S]
  OBVIOUS
<1>2. f \in Seq(S) /\ Len(f) = n
  <2> HIDE DEF S
  <2> QED BY <1>1
<1> QED BY <1>2 DEF IsSeq
-----------------------------------------------------------------------------
(* A caller's record. *)

\* Only the control point of a call changes.
LEMMA SetPc ==
    ASSUME NEW r, Fields(r), NEW x, NEW q, q = [r EXCEPT !.pc = x]
    PROVE  /\ Fields(q) /\ q.pc = x /\ q.call = r.call /\ q.req = r.req /\ q.total = r.total
           /\ q.got = r.got /\ q.held = r.held /\ q.buf = r.buf /\ q.off = r.off
  BY DEF Fields

\* The legacy backend depends on the call and its request only.
LEMMA SameLegacy ==
    ASSUME NEW r, NEW q, q.call = r.call, q.req = r.req
    PROVE  Legacy(q) <=> Legacy(r)
  BY DEF Legacy

\* A call that fails, or is broken off, keeps what it has yielded.
LEMMA StopFits ==
    ASSUME NEW r, NEW b, NEW u, Fits(r, b, u), r.pc # "idle",
           NEW x \in {"failed", "broken"}, NEW v
    PROVE  Fits([r EXCEPT !.pc = x], b, v)
<1> DEFINE q == [r EXCEPT !.pc = x]
<1>1. Fields(r)
  BY DEF Fits
<1>2. /\ Fields(q) /\ q.pc = x /\ q.call = r.call
      /\ q.got = r.got /\ q.held = r.held
  BY <1>1 DEF Fields
<1> HIDE DEF q
<1>3. Fits(q, b, v)
  BY <1>2 DEF Fits, Phase, Final
<1> QED BY <1>3 DEF q

\* A transfer of the large-blob array fails.
LEMMA GaveFits ==
    ASSUME NEW r, NEW b, NEW u, Fits(r, b, u), r.pc \in {"read", "write"}, NEW v
    PROVE  Fits(Gave(r), b, v) /\ Gave(r).call = r.call /\ Gave(r).pc \in {"emit", "failed"}
<1> DEFINE x == IF r.call.op = "get" THEN "emit" ELSE "failed"
           q == [r EXCEPT !.pc = x]
<1>1. Fields(r)
  BY DEF Fits
<1>2. /\ Fields(q) /\ q.pc = x /\ q.call = r.call
      /\ q.got = r.got /\ q.held = r.held
  BY <1>1, SetPc
<1>3. q = Gave(r)
  BY DEF Gave
<1> HIDE DEF q
<1>4. CASE r.call.op = "get"
  <2>1. q.pc = "emit"
    BY <1>2, <1>4
  <2>2. r.got = <<>> /\ r.held # <<>> /\ Len(r.held) = Len(b) /\ IsSeq(r.held) /\ IsSeq(r.got)
    BY <1>4 DEF Fits
  <2>3. Len(r.got) = 0 /\ Len(r.held) \in Nat
    BY <2>2, SeqFacts
  <2>4. Fits(q, b, v)
    BY <1>2, <1>4, <2>1, <2>2, <2>3 DEF Fits, Phase, Final
  <2> QED BY <1>2, <1>3, <2>1, <2>4
<1>5. CASE r.call.op # "get"
  <2>1. q.pc = "failed"
    BY <1>2, <1>5
  <2>2. Fits(q, b, v)
    BY <1>2, <1>5, <2>1 DEF Fits, Phase, Final
  <2> QED BY <1>2, <1>3, <2>1, <2>2
<1> QED BY <1>4, <1>5

\* A call receives the next item of its enumeration.
Takes(r, b, n, item) ==
    /\ Fields(r) /\ IsSeq(r.got) /\ IsSeq(r.held) /\ IsSeq(b)
    /\ r.call.op \in Enumerations /\ r.total = Len(b)
    /\ Named(r.got, b, 0) /\ Named(r.held, b, Len(r.got))
    /\ n = Len(r.got) + Len(r.held) /\ n < Len(b) /\ item = b[n + 1]
    /\ IF Legacy(r) THEN r.got = <<>> ELSE r.held = <<>>

\* The fields of a record that a call has grown: one field and its control
\* point are new.
Grown(q, r, pc, got, held) ==
    /\ Fields(q) /\ q.pc = pc /\ q.call = r.call /\ q.req = r.req /\ q.total = r.total
    /\ q.got = got /\ q.held = held

\* The item is yielded.
LEMMA YieldFits ==
    ASSUME NEW r, NEW b, NEW u, NEW n, NEW item, Takes(r, b, n, item), ~Legacy(r),
           Left(u, r.call.op, b, n + 1), NEW a, Names(a, item),
           NEW q, Grown(q, r, "yield", Append(r.got, a), r.held)
    PROVE  Fits(q, b, u)
<1> DEFINE g == Append(r.got, a)
<1>2. /\ Fields(q) /\ q.pc = "yield" /\ q.call = r.call /\ q.req = r.req /\ q.total = r.total
      /\ q.got = g /\ q.held = r.held
  BY DEF Grown
<1>3. /\ IsSeq(g) /\ Len(g) = Len(r.got) + 1 /\ g[Len(r.got) + 1] = a
      /\ \A i \in 1..Len(r.got) : g[i] = r.got[i]
  BY AppendFacts DEF Takes
<1>4. /\ r.held = <<>> /\ Len(r.held) = 0 /\ Len(r.got) \in Nat /\ Len(b) \in Nat
      /\ n = Len(r.got) /\ n < Len(b)
  <2>1. /\ r.held = <<>> /\ IsSeq(r.got) /\ IsSeq(b) /\ n = Len(r.got) + Len(r.held) /\ n < Len(b)
    BY DEF Takes
  <2>2. Len(r.got) \in Nat /\ Len(b) \in Nat /\ Len(r.held) = 0
    BY <2>1, SeqFacts
  <2> QED BY <2>1, <2>2
<1> HIDE DEF g
<1>5. Named(g, b, 0)
  <2> SUFFICES ASSUME NEW i \in 1..Len(g) PROVE Names(g[i], b[0 + i])
    BY DEF Named
  <2>1. CASE i = Len(r.got) + 1
    <3>1. 0 + i = n + 1
      BY <1>4, <2>1
    <3> QED BY <1>3, <2>1, <3>1 DEF Takes
  <2>2. CASE i \in 1..Len(r.got)
    BY <1>3, <2>2 DEF Takes, Named
  <2> QED BY <1>3, <1>4, <2>1, <2>2
<1>6. Named(q.held, b, Len(g))
  BY <1>2, <1>4 DEF Named
<1>7. Len(g) + Len(q.held) <= Len(b) /\ Len(g) + Len(q.held) = n + 1
  <2>1. Len(q.held) = 0 /\ Len(g) = n + 1
    BY <1>2, <1>3, <1>4
  <2> QED BY <1>4, <2>1
<1>8. ~Legacy(q)
  BY <1>2, SameLegacy
<1>9. IsSeq(q.held) /\ q.call.op \in Enumerations /\ q.total = Len(b)
  BY <1>2 DEF Takes
<1>10. Left(u, q.call.op, b, Len(q.got) + Len(q.held))
  BY <1>2, <1>7
<1> QED
  BY <1>2, <1>3, <1>4, <1>5, <1>6, <1>7, <1>8, <1>9, <1>10 DEF Fits, Phase, Final, Enumerations

\* The assertion is held back until its large blob was read or written.
LEMMA HoldFits ==
    ASSUME NEW r, NEW b, NEW u, NEW n, NEW item, Takes(r, b, n, item), Legacy(r),
           Left(u, r.call.op, b, n + 1), NEW a, Names(a, item),
           NEW h, Grown(h, r, r.pc, r.got, Append(r.held, a)),
           NEW q, Grown(q, h, Continue(h, Len(h.held)), h.got, h.held)
    PROVE  Fits(q, b, u) /\ q.pc \in {"next", "emit", "read"}
<1> DEFINE g == Append(r.held, a)
<1>2. /\ h.call = r.call /\ h.req = r.req /\ h.total = r.total /\ h.got = r.got /\ h.held = g
  BY DEF Grown
<1>3. /\ Fields(q) /\ q.pc = Continue(h, Len(h.held)) /\ q.call = r.call /\ q.req = r.req
      /\ q.total = r.total /\ q.got = r.got /\ q.held = g
  BY <1>2 DEF Grown
<1>4. /\ IsSeq(g) /\ Len(g) = Len(r.held) + 1 /\ g[Len(r.held) + 1] = a
      /\ \A i \in 1..Len(r.held) : g[i] = r.held[i]
  BY AppendFacts DEF Takes
<1>5. /\ r.got = <<>> /\ Len(r.got) = 0 /\ Len(r.held) \in Nat /\ Len(b) \in Nat
      /\ n = Len(r.held) /\ n < Len(b)
  <2>1. /\ r.got = <<>> /\ IsSeq(r.held) /\ IsSeq(b) /\ n = Len(r.got) + Len(r.held) /\ n < Len(b)
    BY DEF Takes
  <2>2. Len(r.held) \in Nat /\ Len(b) \in Nat /\ Len(r.got) = 0
    BY <2>1, SeqFacts
  <2> QED BY <2>1, <2>2
<1> HIDE DEF g
<1>6. Named(g, b, 0)
  <2> SUFFICES ASSUME NEW i \in 1..Len(g) PROVE Names(g[i], b[0 + i])
    BY DEF Named
  <2>1. CASE i = Len(r.held) + 1
    <3>1. 0 + i = n + 1
      BY <1>5, <2>1
    <3> QED BY <1>4, <2>1, <3>1 DEF Takes
  <2>2. CASE i \in 1..Len(r.held)
    BY <1>4, <1>5, <2>2 DEF Takes, Named
  <2> QED BY <1>4, <1>5, <2>1, <2>2
<1>7. Named(q.got, b, 0) /\ Named(q.held, b, Len(q.got))
  BY <1>3, <1>5, <1>6 DEF Named
<1>8. Len(q.got) + Len(q.held) = n + 1 /\ Len(q.held) = n + 1 /\ n + 1 <= Len(b) /\ n \in Nat
  <2>1. Len(q.got) = 0 /\ Len(q.held) = n + 1
    BY <1>3, <1>4, <1>5
  <2> QED BY <1>5, <2>1
<1>9. Legacy(q) /\ Legacy(h)
  BY <1>2, <1>3, SameLegacy
<1>10. IsSeq(q.held) /\ IsSeq(q.got) /\ q.call.op = "get" /\ q.total = Len(b)
  BY <1>3, <1>4 DEF Takes, Legacy
<1>11. Left(u, q.call.op, b, Len(q.got) + Len(q.held))
  BY <1>3, <1>8
<1>12. q.held # <<>> /\ h.total = Len(b) /\ Len(h.held) = n + 1
  <2>1. h.total = Len(b) /\ Len(h.held) = Len(q.held)
    BY <1>2, <1>3 DEF Takes
  <2>2. q.held # <<>>
    BY <1>8, SeqFacts
  <2> QED BY <1>8, <2>1, <2>2
<1>13. CASE n + 1 < Len(b)
  <2>1. q.pc = "next"
    BY <1>3, <1>12, <1>13 DEF Continue
  <2> QED
    BY <1>3, <1>5, <1>7, <1>8, <1>9, <1>10, <1>11, <1>13, <2>1 DEF Fits, Phase, Final, Enumerations
<1>14. CASE ~(n + 1 < Len(b))
  <2>1. q.pc \in {"emit", "read"}
    <3>1. ~(Len(h.held) < h.total)
      BY <1>12, <1>14
    <3> QED BY <1>3, <1>9, <3>1 DEF Continue
  <2>2. Len(q.held) = Len(b) /\ Len(q.got) + Len(q.held) = Len(b)
    <3>1. n + 1 = Len(b)
      BY <1>5, <1>8, <1>14
    <3> QED BY <1>8, <3>1
  <2> QED
    BY <1>3, <1>5, <1>7, <1>8, <1>9, <1>10, <1>12, <2>1, <2>2 DEF Fits, Phase, Final, Enumerations
<1> QED BY <1>13, <1>14

\* The assertion is not accepted.
LEMMA RejectFits ==
    ASSUME NEW r, NEW b, NEW u, NEW n, NEW item, Takes(r, b, n, item),
           NEW q, Grown(q, r, "failed", r.got, r.held)
    PROVE  Fits(q, b, u)
<1>1. Fields(q) /\ q.pc = "failed" /\ q.call = r.call /\ q.got = r.got /\ q.held = r.held
  BY DEF Grown
<1>2. /\ IsSeq(r.got) /\ IsSeq(r.held) /\ Named(r.got, b, 0) /\ Named(r.held, b, Len(r.got))
      /\ n = Len(r.got) + Len(r.held) /\ n < Len(b) /\ IsSeq(b)
  BY DEF Takes
<1>3. Len(r.got) + Len(r.held) <= Len(b)
  <2> DEFINE g == r.got
             h == r.held
  <2>1. IsSeq(g) /\ IsSeq(h) /\ IsSeq(b) /\ n = Len(g) + Len(h) /\ n < Len(b)
    BY <1>2
  <2> HIDE DEF g, h
  <2>2. Len(g) \in Nat /\ Len(h) \in Nat /\ Len(b) \in Nat
    BY <2>1, SeqFacts
  <2>3. Len(g) + Len(h) <= Len(b)
    BY <2>1, <2>2
  <2> QED BY <2>3 DEF g, h
<1> QED BY <1>1, <1>2, <1>3 DEF Fits, Phase, Final

\* A call that receives the next item yields it, holds it back, or fails
\* because it does not accept the extension outputs.
LEMMA ReceivedFits ==
    ASSUME NEW r, NEW b, NEW u, NEW n, NEW item, Takes(r, b, n, item),
           Left(u, r.call.op, b, n + 1), NEW q \in Received(r, item)
    PROVE  Fits(q, b, u) /\ q.call = r.call /\ q.pc \in {"yield", "failed", "next", "emit", "read"}
<1>0. Fields(r)
  BY DEF Takes
<1>1. ASSUME NEW a, Names(a, item), ~Legacy(r), q = [r EXCEPT !.pc = "yield", !.got = Append(@, a)]
      PROVE  Fits(q, b, u) /\ q.call = r.call /\ q.pc \in {"yield", "failed", "next", "emit", "read"}
  <2>1. Grown(q, r, "yield", Append(r.got, a), r.held)
    <3> DEFINE g == Append(r.got, a)
    <3>1. q = [r EXCEPT !.pc = "yield", !.got = g]
      BY <1>1
    <3> HIDE DEF g
    <3>2. Grown(q, r, "yield", g, r.held)
      BY <1>0, <3>1 DEF Grown, Fields
    <3> QED BY <3>2 DEF g
  <2>2. q.call = r.call /\ q.pc = "yield"
    BY <2>1 DEF Grown
  <2> QED BY <1>1, <2>1, <2>2, YieldFits
<1>2. ASSUME q = [r EXCEPT !.pc = "failed"] 
      PROVE  Fits(q, b, u) /\ q.call = r.call /\ q.pc = "failed"
  <2>1. Grown(q, r, "failed", r.got, r.held)
    BY <1>0, <1>2, SetPc DEF Grown
  <2>2. q.call = r.call /\ q.pc = "failed"
    BY <2>1 DEF Grown
  <2> QED BY <2>1, <2>2, RejectFits
<1>3. CASE r.call.op # "get"
  <2> DEFINE a == [item |-> item]
  <2>1. Names(a, item)
    BY DEF Names
  <2>2. ~Legacy(r)
    BY <1>3 DEF Legacy
  <2>3. q = [r EXCEPT !.pc = "yield", !.got = Append(@, a)]
    BY <1>3 DEF Received
  <2> HIDE DEF a
  <2> QED BY <1>1, <2>1, <2>2, <2>3
<1>4. CASE r.call.op = "get"
  <2>1. PICK outs, secrets, key :
           LET a == [item |-> item, outs |-> outs, secrets |-> secrets, blob |-> None,
                     written |-> FALSE, key |-> key]
               h == [r EXCEPT !.held = Append(@, a)]
           IN  \/ q = [r EXCEPT !.pc = "failed"]
               \/ Legacy(r) /\ q = [h EXCEPT !.pc = Continue(h, Len(h.held))]
               \/ ~Legacy(r) /\ q = [r EXCEPT !.pc = "yield", !.got = Append(@, a)]
    <3>1. PICK o \in Deviations(Answer(item, r.call, r.req)) :
             LET w == getOutputs(r.call.x, r.req, o)
                 a == [item |-> item, outs |-> w.outs, secrets |-> w.secrets, blob |-> None,
                       written |-> FALSE, key |-> "largeBlobKey" \in o.outs]
                 h == [r EXCEPT !.held = Append(@, a)]
             IN  q = IF ~w.ok THEN [r EXCEPT !.pc = "failed"]
                     ELSE IF Legacy(r) THEN [h EXCEPT !.pc = Continue(h, Len(h.held))]
                     ELSE [r EXCEPT !.pc = "yield", !.got = Append(@, a)]
      BY <1>4, Zenon DEF Received
    <3> DEFINE w == getOutputs(r.call.x, r.req, o)
    <3> WITNESS w.outs, w.secrets, "largeBlobKey" \in o.outs
    <3> QED BY <3>1
  <2> DEFINE a == [item |-> item, outs |-> outs, secrets |-> secrets, blob |-> None,
                   written |-> FALSE, key |-> key]
             h == [r EXCEPT !.held = Append(@, a)]
  <2>2. Names(a, item)
    BY DEF Names
  <2>3. \/ q = [r EXCEPT !.pc = "failed"]
        \/ Legacy(r) /\ q = [h EXCEPT !.pc = Continue(h, Len(h.held))]
        \/ ~Legacy(r) /\ q = [r EXCEPT !.pc = "yield", !.got = Append(@, a)]
    BY <2>1
  <2> HIDE DEF a
  <2>4. CASE Legacy(r) /\ q = [h EXCEPT !.pc = Continue(h, Len(h.held))]
    <3>1. Grown(h, r, r.pc, r.got, Append(r.held, a))
      <4> DEFINE g == Append(r.held, a)
      <4>1. h = [r EXCEPT !.held = g]
        OBVIOUS
      <4> HIDE DEF g, h
      <4>2. Grown(h, r, r.pc, r.got, g)
        BY <1>0, <4>1 DEF Grown, Fields
      <4> QED BY <4>2 DEF g
    <3> HIDE DEF h
    <3>2. Grown(q, h, Continue(h, Len(h.held)), h.got, h.held)
      <4> DEFINE x == Continue(h, Len(h.held))
      <4>1. Fields(h) /\ q = [h EXCEPT !.pc = x]
        BY <2>4, <3>1 DEF Grown
      <4> HIDE DEF x
      <4>2. Grown(q, h, x, h.got, h.held)
        BY <4>1, SetPc DEF Grown
      <4> QED BY <4>2 DEF x
    <3>3. q.call = r.call
      BY <3>1, <3>2 DEF Grown
    <3> QED BY <2>2, <2>4, <3>1, <3>2, <3>3, HoldFits
  <2> QED BY <1>1, <1>2, <2>2, <2>3, <2>4
<1> QED BY <1>3, <1>4

\* The array has been read: GetLargeBlobs returns, and GetAssertion has the
\* blobs of its assertions, or the array to write.
LEMMA ReadArrayFits ==
    ASSUME NEW r, NEW b, NEW u, Fits(r, b, u), r.pc = "read", NEW s, NEW v
    PROVE  /\ Fits(ReadArray(r, s), b, v) /\ ReadArray(r, s).call = r.call
           /\ ReadArray(r, s).pc \in {"emit", "failed", "done", "write"}
<1> DEFINE q == ReadArray(r, s)
           a == Blobs(s)
           next == ReplaceBlob(a, [cred |-> r.held[1].item, content |-> r.call.x.content])
           m == [k \in DOMAIN r.held |->
                   [r.held[k] EXCEPT !.blob = IF r.held[k].key THEN Opened(a, r.held[k].item) ELSE None]]
<1>1. \/ q = Gave(r)
      \/ r.call.op = "read" /\ q = [r EXCEPT !.pc = "done", !.got = <<a>>]
      \/ r.call.op # "read" /\ q = [r EXCEPT !.pc = "emit", !.held = m]
      \/ r.call.op # "read" /\ q = [r EXCEPT !.pc = "write", !.buf = Serialized(next), !.off = 0]
  BY DEF ReadArray
<1>2. Fields(r) /\ r.call.op \in {"read", "get"} /\ IsSeq(r.got) /\ IsSeq(r.held)
  BY DEF Fits, Phase
<1>3. CASE q = Gave(r)
  BY <1>3, GaveFits
<1>4. CASE r.call.op = "read" /\ q = [r EXCEPT !.pc = "done", !.got = <<a>>]
  <2> HIDE DEF a
  <2>1. Grown(q, r, "done", <<a>>, r.held)
    <3> DEFINE g == <<a>>
    <3>1. q = [r EXCEPT !.pc = "done", !.got = g]
      BY <1>4
    <3> HIDE DEF g, q
    <3>2. Grown(q, r, "done", g, r.held)
      BY <1>2, <3>1 DEF Grown, Fields
    <3> QED BY <3>2 DEF g
  <2> HIDE DEF q
  <2>2. Fields(q) /\ q.pc = "done" /\ q.call = r.call /\ q.got = <<a>> /\ q.held = r.held
    BY <2>1 DEF Grown
  <2>3. IsSeq(q.got)
    BY <2>2, SeqFacts
  <2>4. Fits(q, b, v)
    BY <1>2, <1>4, <2>2, <2>3 DEF Fits, Phase, Final, Enumerations
  <2> QED BY <2>2, <2>4 DEF q
<1>5. CASE r.call.op # "read" /\ q = [r EXCEPT !.pc = "emit", !.held = m]
  <2>1. /\ r.call.op = "get" /\ r.got = <<>> /\ r.held # <<>> /\ Len(r.held) = Len(b)
        /\ Named(r.got, b, 0) /\ Named(r.held, b, Len(r.got))
    BY <1>2, <1>5 DEF Fits, Enumerations
  <2>2. Len(r.held) \in Nat /\ DOMAIN r.held = 1..Len(r.held) /\ Len(r.got) = 0 /\ Len(r.held) # 0
    BY <1>2, <2>1, SeqFacts
  <2>3. ASSUME NEW k \in 1..Len(r.held), NEW x, Names(r.held[k], x) PROVE Names(m[k], x)
    <3> DEFINE y == IF r.held[k].key THEN Opened(a, r.held[k].item) ELSE None
               z == r.held[k]
    <3>1. m[k] = [z EXCEPT !.blob = y]
      BY <2>2
    <3> HIDE DEF y, z, m
    <3>2. Names(z, x)
      BY <2>3 DEF z
    <3> QED BY <3>1, <3>2 DEF Names
  <2>4. IsSeq(m) /\ Len(m) = Len(r.held)
    <3>1. DOMAIN m = 1..Len(r.held) /\ m = [k \in 1..Len(r.held) |-> m[k]]
      BY <2>2
    <3> HIDE DEF m
    <3> QED BY <2>2, <3>1, MapFacts
  <2>5. Fields(q) /\ q.pc = "emit" /\ q.call = r.call /\ q.got = r.got /\ q.held = m
    <3> HIDE DEF m, q
    <3> QED BY <1>2, <1>5 DEF Fields
  <2> HIDE DEF m, q
  <2>6. Named(m, b, Len(r.got))
    BY <2>1, <2>3, <2>4 DEF Named
  <2>7. m # <<>> /\ Len(r.got) + Len(m) = Len(b)
    <3>1. Len(r.got) + Len(m) = Len(b)
      BY <2>1, <2>2, <2>4
    <3> QED BY <2>2, <2>4, <3>1, SeqFacts
  <2>8. Len(r.got) + Len(m) <= Len(b)
    <3>1. Len(b) \in Nat
      BY <2>1, <2>2
    <3> QED BY <2>7, <3>1
  <2>9. Fits(q, b, v)
    BY <1>2, <2>1, <2>4, <2>5, <2>6, <2>7, <2>8 DEF Fits, Phase, Final, Enumerations
  <2> QED BY <2>5, <2>9 DEF q
<1>6. CASE r.call.op # "read" /\ q = [r EXCEPT !.pc = "write", !.buf = Serialized(next), !.off = 0]
  <2>1. Fields(q) /\ q.pc = "write" /\ q.call = r.call /\ q.got = r.got /\ q.held = r.held
    <3> DEFINE d == Serialized(next)
    <3>1. q = [r EXCEPT !.pc = "write", !.buf = d, !.off = 0]
      BY <1>6
    <3> HIDE DEF d, q
    <3> QED BY <1>2, <3>1 DEF Fields
  <2> HIDE DEF q
  <2>2. Fits(q, b, v)
    BY <1>2, <1>6, <2>1 DEF Fits, Phase, Final, Enumerations
  <2> QED BY <2>1, <2>2 DEF q
<1> HIDE DEF q, a, next, m
<1>7. Fits(q, b, v) /\ q.call = r.call /\ q.pc \in {"emit", "failed", "done", "write"}
  BY <1>1, <1>3, <1>4, <1>5, <1>6 DEF q
<1> QED BY <1>7 DEF q

\* The consumer goes on: there is a next item, or the iterator has yielded all.
LEMMA ConsumeFits ==
    ASSUME NEW r, NEW b, NEW u, Fits(r, b, u), r.pc = "yield", IsSeq(b),
           NEW q, Grown(q, r, Continue(r, Len(r.got)), r.got, r.held)
    PROVE  Fits(q, b, u)
<1> DEFINE g == r.got
           h == r.held
<1>1. /\ Fields(q) /\ q.pc = Continue(r, Len(g)) /\ q.call = r.call /\ q.req = r.req
      /\ q.total = r.total /\ q.got = g /\ q.held = h
  BY DEF Grown
<1>2. /\ ~Legacy(r) /\ r.total = Len(b) /\ h = <<>> /\ r.call.op \in Enumerations /\ IsSeq(g)
      /\ Named(g, b, 0) /\ Named(h, b, Len(g)) /\ Len(g) + Len(h) <= Len(b)
      /\ Left(u, r.call.op, b, Len(g) + Len(h))
  BY DEF Fits, Phase
<1>3. ~Legacy(q)
  BY <1>1, <1>2, SameLegacy
<1> HIDE DEF g, h
<1>4. Len(g) \in Nat /\ Len(b) \in Nat /\ Len(h) = 0 /\ IsSeq(h)
  BY <1>2, SeqFacts
<1>5. CASE Len(g) < Len(b)
  <2>1. q.pc = "next"
    BY <1>1, <1>2, <1>5 DEF Continue
  <2>2. Len(g) + Len(h) < Len(b)
    BY <1>4, <1>5
  <2> QED BY <1>1, <1>2, <1>3, <1>4, <2>1, <2>2 DEF Fits, Phase, Final
<1>6. CASE ~(Len(g) < Len(b))
  <2>1. q.pc = "done"
    BY <1>1, <1>2, <1>6 DEF Continue
  <2>2. Len(g) = Len(b)
    BY <1>2, <1>4, <1>6
  <2> QED BY <1>1, <1>2, <1>4, <2>1, <2>2 DEF Fits, Phase, Final
<1> QED BY <1>5, <1>6

\* An assertion that was held back is yielded.
LEMMA EmitFits ==
    ASSUME NEW r, NEW b, NEW u, Fits(r, b, u), r.pc = "emit", IsSeq(b),
           NEW x \in {"emit", "done", "broken"}, x = "emit" => Tail(r.held) # <<>>,
           x = "done" => Tail(r.held) = <<>>,
           NEW q, Grown(q, r, x, Append(r.got, r.held[1]), Tail(r.held))
    PROVE  Fits(q, b, u)
<1> DEFINE g == r.got
           h == r.held
           g1 == Append(g, h[1])
           h1 == Tail(h)
<1>1. /\ Fields(q) /\ q.pc = x /\ q.call = r.call /\ q.got = g1 /\ q.held = h1
      /\ x = "emit" => h1 # <<>>
      /\ x = "done" => h1 = <<>>
  BY DEF Grown
<1>2. /\ r.call.op = "get" /\ r.call.op \in Enumerations /\ IsSeq(g) /\ IsSeq(h) /\ h # <<>>
      /\ Named(g, b, 0) /\ Named(h, b, Len(g)) /\ Len(g) + Len(h) = Len(b)
  BY DEF Fits, Phase, Enumerations
<1> HIDE DEF g, h
<1>3. /\ IsSeq(g1) /\ Len(g1) = Len(g) + 1 /\ g1[Len(g) + 1] = h[1]
      /\ \A i \in 1..Len(g) : g1[i] = g[i]
  BY <1>2, AppendFacts
<1>4. /\ IsSeq(h1) /\ Len(h) \in Nat \ {0} /\ Len(h1) = Len(h) - 1
      /\ \A i \in 1..Len(h1) : h1[i] = h[i + 1]
  BY <1>2, TailFacts
<1>5. Len(g) \in Nat /\ Len(b) \in Nat
  BY <1>2, SeqFacts
<1> HIDE DEF g1, h1
<1>6. Len(g1) + Len(h1) = Len(b)
  <2>1. Len(g) + Len(h) = Len(b) /\ Len(g1) = Len(g) + 1 /\ Len(h1) = Len(h) - 1 /\ Len(h) \in Nat
    BY <1>2, <1>3, <1>4
  <2> QED BY <1>5, <2>1
<1>7. Named(g1, b, 0)
  <2> SUFFICES ASSUME NEW i \in 1..Len(g1) PROVE Names(g1[i], b[0 + i])
    BY DEF Named
  <2>1. CASE i = Len(g) + 1
    <3>1. 0 + i = Len(g) + 1 /\ 1 \in 1..Len(h)
      BY <1>4, <1>5, <2>1
    <3>2. Names(h[1], b[Len(g) + 1])
      BY <1>2, <3>1 DEF Named
    <3> QED BY <1>3, <2>1, <3>1, <3>2
  <2>2. CASE i \in 1..Len(g)
    BY <1>2, <1>3, <2>2 DEF Named
  <2> QED BY <1>3, <1>5, <2>1, <2>2
<1>8. Named(h1, b, Len(g1))
  <2> SUFFICES ASSUME NEW i \in 1..Len(h1) PROVE Names(h1[i], b[Len(g1) + i])
    BY DEF Named
  <2>1. i + 1 \in 1..Len(h) /\ Len(g1) + i = Len(g) + (i + 1)
    BY <1>3, <1>4, <1>5
  <2>2. Names(h[i + 1], b[Len(g) + (i + 1)])
    BY <1>2, <2>1 DEF Named
  <2> QED BY <1>4, <2>1, <2>2
<1>9. Len(g1) + Len(h1) <= Len(b) /\ (h1 = <<>> => Len(g1) = Len(b))
  <2>1. Len(g1) \in Nat /\ Len(h1) \in Nat /\ (h1 = <<>> => Len(h1) = 0)
    BY <1>3, <1>4, SeqFacts
  <2> QED BY <1>5, <1>6, <2>1
<1>10. CASE x = "emit"
  BY <1>1, <1>2, <1>3, <1>4, <1>6, <1>7, <1>8, <1>9, <1>10 DEF Fits, Phase, Final
<1>11. CASE x = "done"
  BY <1>1, <1>2, <1>3, <1>4, <1>7, <1>8, <1>9, <1>11 DEF Fits, Phase, Final
<1>12. CASE x = "broken"
  BY <1>1, <1>2, <1>3, <1>4, <1>7, <1>8, <1>9, <1>12 DEF Fits, Phase, Final
<1> QED BY <1>10, <1>11, <1>12

\* A fragment was written: the call goes on, or has written the array and
\* yields its assertions.
LEMMA WriteFits ==
    ASSUME NEW r, NEW b, NEW u, Fits(r, b, u), r.pc = "write", NEW v,
           NEW x, x \in {"write", "done", "emit"},
           x = "done" => r.call.op # "get", x = "emit" => r.call.op = "get",
           NEW q, Fields(q), q.pc = x, q.call = r.call, q.got = r.got, IsSeq(q.held),
           Len(q.held) = Len(r.held),
           \A i \in 1..Len(r.held) : \A y : Names(r.held[i], y) => Names(q.held[i], y)
    PROVE  Fits(q, b, v)
<1>1. CASE r.call.op # "get"
  <2>1. r.call.op = "set" /\ IsSeq(r.got)
    BY <1>1 DEF Fits, Phase
  <2> QED BY <2>1 DEF Fits, Phase, Final, Enumerations
<1>2. CASE r.call.op = "get"
  <2> DEFINE g == r.got
             h == r.held
             h1 == q.held
  <2>1. /\ IsSeq(g) /\ IsSeq(h) /\ g = <<>> /\ h # <<>> /\ Len(h) = Len(b)
        /\ Named(g, b, 0) /\ Named(h, b, Len(g))
    BY <1>2 DEF Fits, Enumerations
  <2>2. q.got = g /\ IsSeq(h1) /\ Len(h1) = Len(h)
        /\ \A i \in 1..Len(h) : \A y : Names(h[i], y) => Names(h1[i], y)
    OBVIOUS
  <2> HIDE DEF g, h, h1
  <2>3. Named(h1, b, Len(g))
    BY <2>1, <2>2 DEF Named
  <2>4. Len(h) \in Nat /\ Len(g) = 0 /\ h1 # <<>>
    BY <2>1, <2>2, SeqFacts
  <2>5. Len(g) + Len(h1) = Len(b) /\ Len(g) + Len(h1) <= Len(b)
    BY <2>1, <2>2, <2>4
  <2> QED BY <1>2, <2>1, <2>2, <2>3, <2>4, <2>5 DEF h1, Fits, Phase, Final, Enumerations
<1> QED BY <1>1, <1>2

\* What is left of a call that has returned.
LEMMA FinalFits ==
    ASSUME NEW r, NEW b, NEW u, Fits(r, b, u), r.pc \in Final, IsSeq(b),
           NEW q, q = [Start EXCEPT !.pc = r.pc, !.call = r.call, !.got = r.got]
    PROVE  Fits(q, b, u) /\ q.call = r.call /\ q.pc = r.pc
<1>1. Fields(q) /\ q.pc = r.pc /\ q.call = r.call /\ q.got = r.got /\ q.held = <<>>
  <2> DEFINE x == r.pc
             y == r.call
             z == r.got
  <2>1. q = [Start EXCEPT !.pc = x, !.call = y, !.got = z]
    OBVIOUS
  <2> HIDE DEF x, y, z
  <2>2. Fields(q) /\ q.pc = x /\ q.call = y /\ q.got = z /\ q.held = <<>>
    BY <2>1 DEF Start, Fields
  <2> QED BY <2>2 DEF x, y, z
<1> DEFINE g == r.got
           h == r.held
<1>2. /\ IsSeq(g) /\ IsSeq(h) /\ Phase(r) /\ q.got = g
      /\ r.call.op \in Enumerations => Named(g, b, 0) /\ Len(g) + Len(h) <= Len(b)
      /\ r.pc = "done" /\ r.call.op \in Enumerations => Len(g) = Len(b)
  BY <1>1 DEF Fits
<1>3. r.pc \in {"done", "broken", "failed", "refused"}
  BY DEF Final
<1> HIDE DEF g, h
<1>4. Len(g) \in Nat /\ Len(h) \in Nat /\ Len(b) \in Nat /\ IsSeq(<<>>) /\ Len(<<>>) = 0
  BY <1>2, SeqFacts
<1>5. r.call.op \in Enumerations => Len(g) + Len(q.held) <= Len(b)
  <2>1. CASE r.call.op \in Enumerations
    <3>1. Len(q.held) = 0
      BY <1>1, <1>4
    <3> QED BY <1>2, <1>4, <2>1, <3>1
  <2> QED BY <2>1
<1>6. Named(q.held, b, Len(g))
  BY <1>1, <1>4 DEF Named
<1>7. Phase(q)
  BY <1>1, <1>3 DEF Phase, Final
<1> QED BY <1>1, <1>2, <1>3, <1>4, <1>5, <1>6, <1>7 DEF Fits

-----------------------------------------------------------------------------
(* The invariant. *)

\* The record of a call that is not under way does not depend on the
\* authenticator's enumeration.
LEMMA RestFits ==
    ASSUME NEW r, NEW b, NEW u, Fits(r, b, u), r.pc \in Final \union {"idle"}, NEW v
    PROVE  Fits(r, b, v)
  BY DEF Fits, Final

\* What a step leaves of the history: for every other caller, the items its
\* enumeration began with.
Kept(c) ==
    /\ PastShape' /\ CursorShape'
    /\ \A d \in Callers \ {c} : past'[d].begun = past[d].begun

\* A step of a call under way preserves the invariant if every record it may
\* end with fits: nobody else has the lock, so the other records do not depend
\* on the enumeration.
LEMMA ActiveStep ==
    ASSUME IInv, NEW c \in Callers, Active(c), NEW rs, Step(c, rs), Kept(c),
           \A q \in rs : /\ Fits(q, past'[c].begun, cursor') /\ q.call = at[c].call
                         /\ q.pc \notin {"idle", "refused"}
    PROVE  IInv'
<1>1. mu = c /\ at[c].call \in CallsOf[c] /\ DOMAIN at = Callers
  BY DEF IInv, Exclusive, Called, Active, Final
<1>2. PICK q \in rs :
         IF q.pc \in Final
         THEN /\ at' = [at EXCEPT ![c] = [Start EXCEPT !.pc = q.pc, !.call = q.call, !.got = q.got]]
              /\ Unlock(c)
         ELSE at' = [at EXCEPT ![c] = q] /\ UNCHANGED mu
  BY DEF Step
<1>3. Fits(q, past'[c].begun, cursor') /\ q.call = at[c].call /\ q.pc \notin {"idle", "refused"}
  OBVIOUS
<1>4. IsSeq(past'[c].begun)
  BY DEF Kept, PastShape
<1>5. /\ DOMAIN at' = Callers /\ \A d \in Callers \ {c} : at'[d] = at[d]
      /\ Fits(at'[c], past'[c].begun, cursor') /\ at'[c].call = q.call /\ at'[c].pc = q.pc
  <2>1. CASE q.pc \in Final
    <3> DEFINE e == [Start EXCEPT !.pc = q.pc, !.call = q.call, !.got = q.got]
    <3>1. at' = [at EXCEPT ![c] = e]
      BY <1>2, <2>1
    <3>2. Fits(e, past'[c].begun, cursor') /\ e.call = q.call /\ e.pc = q.pc
      BY <1>3, <1>4, <2>1, FinalFits
    <3> HIDE DEF e
    <3> QED BY <1>1, <3>1, <3>2
  <2>2. CASE q.pc \notin Final
    BY <1>1, <1>2, <1>3, <2>2
  <2> QED BY <2>1, <2>2
<1>6. \A d \in Callers \ {c} : at[d].pc \in Final \union {"idle"}
  BY <1>1 DEF IInv, Exclusive, Active
<1>7. Exclusive'
  <2> SUFFICES ASSUME NEW d \in Callers, Active(d)' PROVE mu' = d
    BY DEF Exclusive
  <2>1. d = c
    BY <1>5, <1>6 DEF Active
  <2>2. q.pc \notin Final
    BY <1>5, <2>1 DEF Active
  <2> QED BY <1>1, <1>2, <2>1, <2>2
<1>8. Called'
  BY <1>1, <1>3, <1>5 DEF IInv, Called
<1>9. Enumerating'
  <2> SUFFICES ASSUME NEW d \in Callers PROVE Fits(at'[d], past'[d].begun, cursor')
    BY DEF Enumerating
  <2>1. CASE d = c
    BY <1>5, <2>1
  <2>2. CASE d # c
    <3>1. at'[d] = at[d] /\ past'[d].begun = past[d].begun
      BY <1>5, <2>2 DEF Kept
    <3>2. Fits(at[d], past[d].begun, cursor) /\ at[d].pc \in Final \union {"idle"}
      BY <1>6, <2>2 DEF IInv, Enumerating
    <3>3. Fits(at[d], past[d].begun, cursor')
      BY <3>2, RestFits
    <3> QED BY <3>1, <3>3
  <2> QED BY <2>1, <2>2
<1> QED BY <1>5, <1>7, <1>8, <1>9 DEF IInv, Kept

\* The history after a step that only ends the enumeration, or leaves it.
LEMMA KeptFacts ==
    ASSUME IInv, NEW c \in Callers
    PROVE  /\ UNCHANGED past /\ cursor' \in {NoCursor, cursor} => Kept(c) /\ past'[c].begun = past[c].begun
           /\ past' = [past EXCEPT ![c].hurt = TRUE] /\ UNCHANGED cursor =>
                 Kept(c) /\ past'[c].begun = past[c].begun
           /\ \A a : /\ past' = [d \in Callers |-> [past[d] EXCEPT !.seen = @ \union {a}]]
                     /\ cursor' = NoCursor
                     => Kept(c) /\ past'[c].begun = past[c].begun
<1>1. CursorShape /\ PastShape
  BY DEF IInv
<1>2. ASSUME cursor' \in {NoCursor, cursor} PROVE CursorShape'
  <2>1. CASE cursor' = NoCursor
    BY <2>1, SeqFacts DEF CursorShape, NoCursor
  <2>2. CASE cursor' = cursor
    BY <1>1, <2>2 DEF CursorShape
  <2> QED BY <1>2, <2>1, <2>2
<1>3. ASSUME UNCHANGED past, cursor' \in {NoCursor, cursor}
      PROVE  Kept(c) /\ past'[c].begun = past[c].begun
  BY <1>1, <1>2, <1>3 DEF Kept, PastShape
<1>4. ASSUME DOMAIN past' = Callers, CursorShape',
             \A d \in Callers : /\ past'[d].begun = past[d].begun
                                /\ past'[d] = [begun |-> past'[d].begun, seen |-> past'[d].seen,
                                               hurt |-> past'[d].hurt]
      PROVE  Kept(c) /\ past'[c].begun = past[c].begun
  BY <1>1, <1>4 DEF Kept, PastShape
<1>5. ASSUME past' = [past EXCEPT ![c].hurt = TRUE], UNCHANGED cursor
      PROVE  Kept(c) /\ past'[c].begun = past[c].begun
  <2>1. DOMAIN past' = Callers /\ CursorShape'
    BY <1>1, <1>2, <1>5 DEF PastShape
  <2>2. ASSUME NEW d \in Callers
        PROVE  /\ past'[d].begun = past[d].begun
               /\ past'[d] = [begun |-> past'[d].begun, seen |-> past'[d].seen, hurt |-> past'[d].hurt]
    <3>1. CASE d = c
      <4>1. past'[d] = [past[d] EXCEPT !.hurt = TRUE]
        BY <1>1, <1>5, <3>1 DEF PastShape
      <4> QED BY <1>1, <4>1 DEF PastShape
    <3>2. CASE d # c
      BY <1>1, <1>5, <3>2 DEF PastShape
    <3> QED BY <3>1, <3>2
  <2> QED BY <1>4, <2>1, <2>2
<1>6. ASSUME NEW a, past' = [d \in Callers |-> [past[d] EXCEPT !.seen = @ \union {a}]],
             cursor' = NoCursor
      PROVE  Kept(c) /\ past'[c].begun = past[c].begun
  <2>1. DOMAIN past' = Callers /\ CursorShape'
    BY <1>2, <1>6
  <2>2. ASSUME NEW d \in Callers
        PROVE  /\ past'[d].begun = past[d].begun
               /\ past'[d] = [begun |-> past'[d].begun, seen |-> past'[d].seen, hurt |-> past'[d].hurt]
    <3> DEFINE x == past[d].seen \union {a}
    <3>1. past'[d] = [past[d] EXCEPT !.seen = x]
      BY <1>6
    <3> HIDE DEF x
    <3> QED BY <1>1, <3>1 DEF PastShape
  <2> QED BY <1>4, <2>1, <2>2
<1> QED BY <1>3, <1>5, <1>6

\* Ending the authenticator's enumeration leaves every record as it should be.
LEMMA EndedFits ==
    ASSUME NEW r, NEW b, NEW u, Fits(r, b, u)
    PROVE  Fits(r, b, NoCursor)
<1>1. \A n : r.call.op \in Enumerations => Left(NoCursor, r.call.op, b, n)
  BY DEF Left, NoCursor, Enumerations
<1>2. r.pc \in {"next", "yield"} => r.call.op \in Enumerations
  BY DEF Fits, Phase
<1> QED BY <1>1, <1>2 DEF Fits

\* What the invariant says of a call under way.
LEMMA ActiveFacts ==
    ASSUME IInv, NEW c \in Callers, at[c].pc \notin Final \union {"idle"}
    PROVE  /\ Active(c) /\ mu = c /\ Fits(at[c], past[c].begun, cursor) /\ Fields(at[c])
           /\ at[c].call \in CallsOf[c] /\ DOMAIN at = Callers /\ IsSeq(past[c].begun)
<1>1. Active(c)
  BY DEF Active
<1>2. Fits(at[c], past[c].begun, cursor)
  BY DEF IInv, Enumerating
<1> QED BY <1>1, <1>2 DEF IInv, Exclusive, Called, PastShape, Fits, Final

\* A call takes the lock, or is refused.
LEMMA CallStep ==
    ASSUME IInv, NEW c \in Callers, NEW k \in CallsOf[c], Call(c, k)
    PROVE  IInv'
<1>1. /\ at[c].pc = "idle" /\ DOMAIN at = Callers /\ PastShape /\ CursorShape /\ UNCHANGED cursor
      /\ Fits(at[c], past[c].begun, cursor)
  BY DEF Call, authenticator, IInv, Enumerating
<1>2. k.op \in {"rps", "creds", "get", "make", "read", "set"}
  BY CallsAssumption DEF Enumerations
<1>3. mu = None
  BY DEF Call, Lock
<1>4. \A d \in Callers : at[d].pc \in Final \union {"idle"}
  BY <1>3, SessionAssumption DEF IInv, Exclusive, Active
<1>5. /\ DOMAIN past' = Callers /\ \A d \in Callers \ {c} : past'[d] = past[d]
      /\ past'[c] = [past[c] EXCEPT !.seen = {array}, !.hurt = FALSE]
  BY <1>1 DEF Call, PastShape
<1>6. past'[c] = [begun |-> past[c].begun, seen |-> {array}, hurt |-> FALSE]
  BY <1>1, <1>5 DEF PastShape
<1>7. PastShape' /\ CursorShape' /\ \A d \in Callers : past'[d].begun = past[d].begun
  <2>1. past'[c].begun = past[c].begun
    BY <1>6
  <2>2. CursorShape'
    BY <1>1 DEF CursorShape
  <2>3. PastShape'
    BY <1>1, <1>5, <1>6, <2>1 DEF PastShape
  <2> QED BY <1>5, <2>1, <2>2, <2>3
<1>8. Fields(at[c]) /\ at[c].got = <<>> /\ at[c].held = <<>> /\ at[c].call.op = "none"
  BY <1>1 DEF Fits, Phase
<1>9. Len(past[c].begun) \in Nat /\ IsSeq(<<>>) /\ Len(<<>>) = 0
  BY <1>1, SeqFacts DEF PastShape
<1>10. /\ DOMAIN at' = Callers /\ \A d \in Callers \ {c} : at'[d] = at[d]
       /\ Fits(at'[c], past[c].begun, cursor) /\ (Active(c)' => mu' = c)
       /\ at'[c].pc \notin {"idle", "refused"} => at'[c].call = k
  <2>1. CASE Allowed(k)
    <3> DEFINE x == FirstStep(k)
               y == Request(k)
               z == IF k.op = "set" THEN Serialized(k.blobs) ELSE <<>>
    <3>1. mu' = c /\ at' = [at EXCEPT ![c] = [@ EXCEPT !.pc = x, !.call = k, !.req = y, !.buf = z]]
      BY <2>1 DEF Call, Lock
    <3>2. /\ k.op \in {"rps", "creds"} => x = "begin"
          /\ k.op \in {"make", "get"} => x \in {"keys", "begin"}
          /\ k.op = "read" => x = "read"
          /\ k.op = "set" => x = "write"
      BY <1>2 DEF FirstStep
    <3> HIDE DEF x, y, z
    <3>3. /\ DOMAIN at' = Callers /\ \A d \in Callers \ {c} : at'[d] = at[d]
          /\ at'[c] = [at[c] EXCEPT !.pc = x, !.call = k, !.req = y, !.buf = z]
      BY <1>1, <3>1
    <3>4. Fields(at'[c]) /\ at'[c].pc = x /\ at'[c].call = k /\ at'[c].got = <<>> /\ at'[c].held = <<>>
      BY <1>8, <3>3 DEF Fields
    <3> DEFINE q == at'[c]
               b == past[c].begun
    <3>5. /\ Fields(q) /\ q.pc = x /\ q.call = k /\ q.got = <<>> /\ q.held = <<>> /\ Len(b) \in Nat
      BY <1>9, <3>4
    <3> HIDE DEF q, b
    <3>6. Named(<<>>, b, 0) /\ 0 + 0 <= Len(b)
      BY <1>9, <3>5 DEF Named
    <3>7. Phase(q)
      BY <1>2, <3>2, <3>5 DEF Phase, Final, Enumerations
    <3>8. Fits(q, b, cursor)
      BY <1>2, <1>9, <3>2, <3>5, <3>6, <3>7 DEF Fits
    <3> QED BY <3>1, <3>3, <3>4, <3>8 DEF q, b
  <2>2. CASE ~Allowed(k)
    <3>1. at' = [at EXCEPT ![c].pc = "refused"]
      BY <2>2 DEF Call
    <3>2. /\ DOMAIN at' = Callers /\ \A d \in Callers \ {c} : at'[d] = at[d]
          /\ at'[c] = [at[c] EXCEPT !.pc = "refused"]
      BY <1>1, <3>1
    <3>3. /\ Fields(at'[c]) /\ at'[c].pc = "refused" /\ at'[c].call = at[c].call
          /\ at'[c].got = <<>> /\ at'[c].held = <<>>
      BY <1>8, <3>2, SetPc
    <3>4. Fits(at'[c], past[c].begun, cursor)
      BY <1>8, <1>9, <3>3 DEF Fits, Phase, Final, Enumerations
    <3> QED BY <3>2, <3>3, <3>4 DEF Active, Final
  <2> QED BY <2>1, <2>2
<1>11. Exclusive'
  BY <1>4, <1>10 DEF Exclusive, Active
<1>12. Called'
  BY <1>10 DEF IInv, Called
<1>13. Enumerating'
  BY <1>1, <1>7, <1>10 DEF IInv, Enumerating
<1> QED BY <1>7, <1>10, <1>11, <1>12, <1>13 DEF IInv

\* A step that leaves what the enumeration began with, and ends or leaves the
\* authenticator's enumeration.
Stays(c) == Kept(c) /\ past'[c].begun = past[c].begun

\* The call fails, or is broken off.
LEMMA StopStep ==
    ASSUME IInv, NEW c \in Callers, Active(c), Stays(c), NEW x \in {"failed", "broken"},
           Step(c, {[at[c] EXCEPT !.pc = x]})
    PROVE  IInv'
<1> DEFINE r == at[c]
           q == [r EXCEPT !.pc = x]
<1>1. Fits(r, past[c].begun, cursor) /\ Fields(r) /\ r.pc # "idle"
  BY ActiveFacts DEF Active
<1>2. Fits(q, past'[c].begun, cursor')
  BY <1>1, StopFits DEF Stays
<1>3. q.call = r.call /\ q.pc = x
  BY <1>1, SetPc
<1>4. Step(c, {q}) /\ Kept(c)
  BY DEF Stays
<1> HIDE DEF q
<1> QED BY <1>2, <1>3, <1>4, ActiveStep

\* A transfer of the array fails.
LEMMA GaveStep ==
    ASSUME IInv, NEW c \in Callers, at[c].pc \in {"read", "write"}, Stays(c), Step(c, {Gave(at[c])})
    PROVE  IInv'
<1> DEFINE q == Gave(at[c])
<1>1. Active(c) /\ Fits(at[c], past[c].begun, cursor)
  BY ActiveFacts DEF Final
<1>2. Fits(q, past'[c].begun, cursor') /\ q.call = at[c].call /\ q.pc \in {"emit", "failed"}
  BY <1>1, GaveFits DEF Stays
<1>3. Step(c, {q}) /\ Kept(c)
  BY DEF Stays
<1> HIDE DEF q
<1> QED BY <1>1, <1>2, <1>3, ActiveStep

\* The key agreement, and a check that fails after it.
LEMMA KeyAgreementStep == ASSUME IInv, NEW c \in Callers, KeyAgreement(c) PROVE IInv'
<1> DEFINE r == at[c]
           q == [r EXCEPT !.pc = "begin"]
<1>1. /\ at[c].pc = "keys" /\ cursor' = NoCursor /\ UNCHANGED past
      /\ Step(c, {q}) \/ Step(c, {[at[c] EXCEPT !.pc = "failed"]})
  BY DEF KeyAgreement
<1>2. Active(c) /\ Fits(r, past[c].begun, cursor) /\ Fields(r) /\ DOMAIN at = Callers
  BY <1>1, ActiveFacts DEF Final
<1>3. Kept(c) /\ past'[c].begun = past[c].begun
  BY <1>1, KeptFacts
<1>4. /\ Fields(q) /\ q.pc = "begin" /\ q.call = r.call /\ q.req = r.req
      /\ q.total = r.total /\ q.got = r.got /\ q.held = r.held
  BY <1>2, SetPc
<1>5. CASE Step(c, {[at[c] EXCEPT !.pc = "failed"]})
  BY <1>2, <1>3, <1>5, StopStep DEF Stays
<1> HIDE DEF q
<1>6. Fits(q, past[c].begun, cursor)
  BY <1>1, <1>2, <1>4 DEF Fits, Phase, Final
<1>7. Fits(q, past'[c].begun, cursor')
  BY <1>1, <1>3, <1>6, EndedFits
<1>8. CASE Step(c, {q})
  BY <1>2, <1>3, <1>4, <1>7, <1>8, ActiveStep
<1> QED BY <1>1, <1>5, <1>8

\* MakeCredential returns one credential, or fails.
LEMMA MakeCredentialStep == ASSUME IInv, NEW c \in Callers, MakeCredential(c) PROVE IInv'
<1> DEFINE r == at[c]
           k == at[c].call
           accept(o) ==
               LET w == createOutputs(k.x, at[c].req, o)
               IN  IF ~w.ok THEN [at[c] EXCEPT !.pc = "failed"]
                   ELSE [at[c] EXCEPT !.pc = "done",
                           !.got = <<[outs |-> w.outs, secrets |-> w.secrets,
                                      level |-> o.level, supported |-> w.supported]>>]
           rs == {accept(o) : o \in Deviations(Answer("new", k, at[c].req))}
<1>1. /\ at[c].pc = "begin" /\ at[c].call.op = "make" /\ Step(c, rs) /\ cursor' = NoCursor
      /\ UNCHANGED past
  BY DEF MakeCredential
<1>2. Active(c) /\ Fits(r, past[c].begun, cursor) /\ Fields(r)
  BY <1>1, ActiveFacts DEF Final
<1>3. Kept(c) /\ past'[c].begun = past[c].begun
  BY <1>1, KeptFacts
<1>4. ASSUME NEW q \in rs
      PROVE  /\ Fits(q, past'[c].begun, cursor') /\ q.call = r.call
             /\ q.pc \notin {"idle", "refused"}
  <2>1. PICK g : \/ q = [r EXCEPT !.pc = "failed"]
                 \/ q = [r EXCEPT !.pc = "done", !.got = <<g>>]
    <3>1. PICK o \in Deviations(Answer("new", k, at[c].req)) : q = accept(o)
      BY <1>4
    <3> DEFINE w == createOutputs(k.x, at[c].req, o)
    <3> WITNESS [outs |-> w.outs, secrets |-> w.secrets, level |-> o.level, supported |-> w.supported]
    <3> QED BY <3>1
  <2> HIDE DEF rs, accept
  <2>2. CASE q = [r EXCEPT !.pc = "failed"]
    <3>1. Fits(q, past'[c].begun, cursor')
      BY <1>1, <1>2, <1>3, <2>2, StopFits
    <3>2. q.call = r.call /\ q.pc = "failed"
      BY <1>2, <2>2, SetPc
    <3> QED BY <3>1, <3>2
  <2>3. CASE q = [r EXCEPT !.pc = "done", !.got = <<g>>]
    <3> DEFINE s == <<g>>
    <3>1. IsSeq(s)
      BY SeqFacts
    <3>2. q = [r EXCEPT !.pc = "done", !.got = s]
      BY <2>3
    <3> HIDE DEF s
    <3>3. Fields(q) /\ q.pc = "done" /\ q.call = r.call /\ q.got = s /\ q.held = r.held
      BY <1>2, <3>2 DEF Fields
    <3>4. r.call.op = "make" /\ IsSeq(r.held)
      BY <1>1, <1>2 DEF Fits
    <3>5. Fits(q, past'[c].begun, cursor')
      BY <3>1, <3>3, <3>4 DEF Fits, Phase, Final, Enumerations
    <3> QED BY <3>3, <3>5
  <2> QED BY <2>1, <2>2, <2>3
<1> HIDE DEF rs
<1> QED BY <1>1, <1>2, <1>3, <1>4, ActiveStep

\* What the authenticator enumerates is a sequence, of allowed credentials if
\* there is an allow list.
LEMMA ItemsFacts ==
    ASSUME NEW c \in Callers, NEW k \in CallsOf[c], k.op \in Enumerations, NEW items \in Items(k)
    PROVE  /\ IsSeq(items)
           /\ k.op = "get" /\ k.allow # {} => \A i \in 1..Len(items) : items[i] \in k.allow
<1>1. IsSeq(<<>>) /\ Len(<<>>) = 0
  BY SeqFacts
<1>2. CASE k.op = "rps"
  BY <1>1, <1>2, CallsAssumption DEF Items
<1>3. CASE k.op = "creds"
  BY <1>1, <1>3, CallsAssumption DEF Items
<1>4. CASE k.op = "get" /\ k.allow = {}
  BY <1>4, CallsAssumption DEF Items
<1>5. CASE k.op = "get" /\ k.allow # {}
  <2> DEFINE l == Len(CredsOf[k.rp])
  <2>1. items \in UNION {[1..n -> k.allow] : n \in 0..l}
    BY <1>5 DEF Items, Chosen
  <2>2. l \in Nat
    BY <1>5, CallsAssumption, SeqFacts
  <2> HIDE DEF l
  <2>3. PICK n \in 0..l : items \in [1..n -> k.allow]
    BY <2>1
  <2>4. items \in Seq(k.allow) /\ Len(items) = n
    BY <2>2, <2>3
  <2> QED BY <2>3, <2>4, SeqIsSeq
<1> QED BY <1>2, <1>3, <1>4, <1>5 DEF Enumerations

\* An enumeration begins: its first item is received, and the authenticator
\* keeps the others.
LEMMA BeginStep == ASSUME IInv, NEW c \in Callers, Begin(c) PROVE IInv'
<1>1. at[c].pc = "begin" /\ at[c].call.op # "make"
  BY DEF Begin
<1>2. /\ Active(c) /\ Fits(at[c], past[c].begun, cursor) /\ Fields(at[c]) /\ at[c].call \in CallsOf[c]
      /\ IsSeq(past[c].begun)
  BY <1>1, ActiveFacts DEF Final
<1>3. PICK items \in Items(at[c].call) :
          IF items = <<>>
          THEN /\ Step(c, {[at[c] EXCEPT !.pc = "failed"]})
               /\ cursor' = NoCursor
               /\ UNCHANGED past
          ELSE /\ Step(c, Received([at[c] EXCEPT !.total = Len(items)], items[1]))
               /\ cursor' = [kind |-> at[c].call.op, items |-> Tail(items)]
               /\ past' = [past EXCEPT ![c].begun = items]
  BY DEF Begin
<1>4. at[c].call.op \in Enumerations
  BY <1>1, <1>2 DEF Fits, Phase
<1>5. IsSeq(items)
  BY <1>2, <1>4, ItemsFacts
<1>6. CASE items = <<>>
  <2>1. Stays(c)
    BY <1>3, <1>6, KeptFacts DEF Stays
  <2> QED BY <1>2, <1>3, <1>6, <2>1, StopStep
<1>7. CASE items # <<>>
  <2> DEFINE op == at[c].call.op
             r == [at[c] EXCEPT !.total = Len(items)]
             t == Tail(items)
             first == items[1]
  <2>1. /\ Step(c, Received(r, first)) /\ cursor' = [kind |-> op, items |-> t]
        /\ past' = [past EXCEPT ![c].begun = items]
    BY <1>3, <1>7
  <2>2. /\ IsSeq(t) /\ Len(items) \in Nat \ {0} /\ Len(t) = Len(items) - 1
        /\ \A i \in 1..Len(t) : t[i] = items[i + 1]
    BY <1>5, <1>7, TailFacts
  <2>3. Fields(r) /\ r.call = at[c].call /\ r.total = Len(items) /\ r.got = at[c].got /\ r.held = at[c].held
    <3> DEFINE l == Len(items)
    <3> HIDE DEF l
    <3>1. r = [at[c] EXCEPT !.total = l]
      BY DEF l
    <3> HIDE DEF r
    <3>2. Fields(r) /\ r.call = at[c].call /\ r.total = l /\ r.got = at[c].got /\ r.held = at[c].held
      BY <1>2, <3>1 DEF Fields
    <3> QED BY <3>2 DEF l
  <2>4. at[c].got = <<>> /\ at[c].held = <<>>
    BY <1>1, <1>2 DEF Fits
  <2> HIDE DEF r, t
  <2>5. Takes(r, items, 0, first)
    <3>1. r.got = <<>> /\ r.held = <<>> /\ Len(r.got) = 0 /\ Len(r.held) = 0 /\ IsSeq(r.got) /\ IsSeq(r.held)
      BY <2>3, <2>4, SeqFacts
    <3>2. Named(r.got, items, 0) /\ Named(r.held, items, Len(r.got))
      BY <3>1 DEF Named
    <3>3. 0 = Len(r.got) + Len(r.held) /\ 0 < Len(items) /\ first = items[0 + 1]
      BY <2>2, <3>1
    <3> QED BY <1>4, <1>5, <2>3, <3>1, <3>2, <3>3 DEF Takes
  <2>6. Left(cursor', r.call.op, items, 0 + 1)
    <3>1. cursor'.items = t
      BY <2>1
    <3>2. \A i \in 1..Len(t) : t[i] = items[0 + 1 + i]
      <4> SUFFICES ASSUME NEW i \in 1..Len(t) PROVE t[i] = items[0 + 1 + i]
        OBVIOUS
      <4>1. i + 1 = 0 + 1 + i
        BY <2>2
      <4> QED BY <2>2, <4>1
    <3>3. Len(t) = Len(items) - (0 + 1)
      BY <2>2
    <3> QED BY <3>1, <3>2, <3>3 DEF Left
  <2>7. Kept(c) /\ past'[c].begun = items
    <3>1. PastShape
      BY DEF IInv
    <3>2. /\ DOMAIN past' = Callers /\ \A d \in Callers \ {c} : past'[d] = past[d]
          /\ past'[c] = [past[c] EXCEPT !.begun = items]
      BY <2>1, <3>1 DEF PastShape
    <3>3. past'[c] = [begun |-> items, seen |-> past[c].seen, hurt |-> past[c].hurt]
      BY <3>1, <3>2 DEF PastShape
    <3>4. PastShape'
      BY <1>5, <3>1, <3>2, <3>3 DEF PastShape
    <3>5. CursorShape'
      BY <2>1, <2>2 DEF CursorShape
    <3> QED BY <3>2, <3>3, <3>4, <3>5 DEF Kept
  <2> HIDE DEF first, op
  <2>8. ASSUME NEW q \in Received(r, first)
        PROVE  /\ Fits(q, past'[c].begun, cursor') /\ q.call = at[c].call
               /\ q.pc \notin {"idle", "refused"}
    <3>1. Fits(q, items, cursor') /\ q.call = r.call /\ q.pc \in {"yield", "failed", "next", "emit", "read"}
      BY <2>5, <2>6, <2>8, ReceivedFits
    <3> QED BY <2>3, <2>7, <3>1
  <2> QED BY <1>2, <2>1, <2>7, <2>8, ActiveStep
<1> QED BY <1>6, <1>7

\* The next item of the enumeration; it fails when the authenticator has
\* ended it.
LEMMA GetNextStep == ASSUME IInv, NEW c \in Callers, GetNext(c) PROVE IInv'
<1> DEFINE r == at[c]
           b == past[c].begun
<1>1. at[c].pc = "next" /\ UNCHANGED past
  BY DEF GetNext
<1>2. Active(c) /\ Fits(r, b, cursor) /\ Fields(r) /\ IsSeq(b) /\ CursorShape /\ PastShape
  BY <1>1, ActiveFacts DEF Final, IInv
<1>3. CASE cursor.kind = r.call.op /\ cursor.items # <<>>
  <2> DEFINE s == cursor.items
             t == Tail(s)
             first == s[1]
             n == Len(r.got) + Len(r.held)
  <2>1. Step(c, Received(r, first)) /\ cursor' = [cursor EXCEPT !.items = t]
    BY <1>3 DEF GetNext
  <2>2. IsSeq(s) /\ s # <<>> /\ cursor = [kind |-> cursor.kind, items |-> cursor.items]
    BY <1>2, <1>3 DEF CursorShape
  <2>3. /\ IsSeq(t) /\ Len(s) \in Nat \ {0} /\ Len(t) = Len(s) - 1
        /\ \A i \in 1..Len(t) : t[i] = s[i + 1]
    BY <2>2, TailFacts
  <2>4. /\ IsSeq(r.got) /\ IsSeq(r.held) /\ r.call.op \in Enumerations /\ r.total = Len(b)
        /\ Named(r.got, b, 0) /\ Named(r.held, b, Len(r.got)) /\ n < Len(b)
        /\ IF Legacy(r) THEN r.got = <<>> ELSE r.held = <<>>
        /\ Left(cursor, r.call.op, b, n)
    BY <1>1, <1>2 DEF Fits, Phase
  <2>5. n \in Nat /\ Len(b) \in Nat
    <3> DEFINE g == r.got
               h == r.held
    <3>1. IsSeq(g) /\ IsSeq(h)
      BY <2>4
    <3> HIDE DEF g, h
    <3>2. Len(g) \in Nat /\ Len(h) \in Nat
      BY <3>1, SeqFacts
    <3>3. Len(g) + Len(h) \in Nat
      BY <3>2
    <3> QED BY <1>2, <3>3, SeqFacts DEF g, h
  <2> HIDE DEF t
  <2>6. cursor' = [kind |-> r.call.op, items |-> t]
    BY <1>3, <2>1, <2>2
  <2>7. Len(s) = Len(b) - n /\ \A i \in 1..Len(s) : s[i] = b[n + i]
    BY <1>3, <2>4 DEF Left
  <2>8. Takes(r, b, n, first)
    <3>1. first = b[n + 1]
      <4> HIDE DEF s, n
      <4> QED BY <2>3, <2>7
    <3> QED BY <1>2, <2>4, <3>1 DEF Takes
  <2> HIDE DEF n, s
  <2>9. Left(cursor', r.call.op, b, n + 1)
    <3>1. cursor'.items = t
      BY <2>6
    <3>2. Len(t) = Len(b) - (n + 1)
      BY <2>3, <2>5, <2>7
    <3>3. \A i \in 1..Len(t) : t[i] = b[n + 1 + i]
      <4> SUFFICES ASSUME NEW i \in 1..Len(t) PROVE t[i] = b[n + 1 + i]
        OBVIOUS
      <4>1. i + 1 \in 1..Len(s) /\ n + (i + 1) = n + 1 + i
        BY <2>3, <2>5
      <4> QED BY <2>3, <2>7, <4>1
    <3> QED BY <3>1, <3>2, <3>3 DEF Left
  <2>10. Kept(c) /\ past'[c].begun = b
    <3>1. CursorShape'
      BY <2>3, <2>6 DEF CursorShape
    <3> QED BY <1>1, <1>2, <3>1 DEF Kept, PastShape
  <2> HIDE DEF first
  <2>11. ASSUME NEW q \in Received(r, first)
         PROVE  /\ Fits(q, past'[c].begun, cursor') /\ q.call = at[c].call
                /\ q.pc \notin {"idle", "refused"}
    <3>1. Fits(q, b, cursor') /\ q.call = r.call /\ q.pc \in {"yield", "failed", "next", "emit", "read"}
      <4> HIDE DEF r, b
      <4> QED BY <2>8, <2>9, <2>11, ReceivedFits
    <3> QED BY <2>10, <3>1
  <2> QED BY <1>2, <2>1, <2>10, <2>11, ActiveStep
<1>4. CASE ~(cursor.kind = r.call.op /\ cursor.items # <<>>)
  <2>1. Step(c, {[at[c] EXCEPT !.pc = "failed"]}) /\ cursor' = NoCursor
    BY <1>4 DEF GetNext
  <2>2. Stays(c)
    BY <1>1, <2>1, KeptFacts DEF Stays
  <2> QED BY <1>2, <2>1, <2>2, StopStep
<1> QED BY <1>3, <1>4

\* The consumer of the iterator goes on, or breaks out of its loop.
LEMMA ConsumeStep == ASSUME IInv, NEW c \in Callers, Consume(c) PROVE IInv'
<1> DEFINE r == at[c]
           b == past[c].begun
           x == Continue(r, Len(r.got))
           go == [r EXCEPT !.pc = x]
           stop == [r EXCEPT !.pc = "broken"]
<1>1. r.pc = "yield" /\ Step(c, {go, stop}) /\ UNCHANGED past /\ UNCHANGED cursor
  BY DEF Consume, authenticator
<1>2. Active(c) /\ Fits(r, b, cursor) /\ Fields(r) /\ IsSeq(b)
  BY <1>1, ActiveFacts DEF Final
<1>3. Kept(c) /\ past'[c].begun = b
  BY <1>1, KeptFacts
<1>4. x \in {"next", "done", "emit", "read"}
  BY DEF Continue
<1> HIDE DEF x
<1>5. Grown(go, r, x, r.got, r.held)
  BY <1>2, SetPc DEF Grown
<1>6. Fits(go, b, cursor) /\ go.call = r.call /\ go.pc \notin {"idle", "refused"}
  <2>1. go.call = r.call /\ go.pc = x
    BY <1>5 DEF Grown
  <2> HIDE DEF go, r, b
  <2>2. Grown(go, r, Continue(r, Len(r.got)), r.got, r.held)
    BY <1>5 DEF x
  <2>3. Fits(go, b, cursor)
    BY <1>1, <1>2, <2>2, ConsumeFits
  <2> QED BY <1>4, <2>1, <2>3
<1>7. Fits(stop, b, cursor) /\ stop.call = r.call /\ stop.pc = "broken"
  <2>1. stop.call = r.call /\ stop.pc = "broken"
    BY <1>2, SetPc
  <2> QED BY <1>1, <1>2, <2>1, StopFits
<1> HIDE DEF go, stop
<1> QED BY <1>1, <1>2, <1>3, <1>6, <1>7, ActiveStep

\* An assertion that was held back is yielded.
LEMMA EmitStep == ASSUME IInv, NEW c \in Callers, Emit(c) PROVE IInv'
<1> DEFINE r == at[c]
           b == past[c].begun
           g == Append(r.got, r.held[1])
           h == Tail(r.held)
           e == [r EXCEPT !.got = g, !.held = h]
           x == IF h = <<>> THEN "done" ELSE "emit"
           rs == {[e EXCEPT !.pc = IF e.held = <<>> THEN "done" ELSE "emit"],
                  [e EXCEPT !.pc = "broken"]}
<1>1. r.pc = "emit" /\ Step(c, rs) /\ UNCHANGED past /\ UNCHANGED cursor
  BY DEF Emit, authenticator
<1>2. Active(c) /\ Fits(r, b, cursor) /\ Fields(r) /\ IsSeq(b)
  BY <1>1, ActiveFacts DEF Final
<1>3. Kept(c) /\ past'[c].begun = b
  BY <1>1, KeptFacts
<1>4. ASSUME NEW q \in rs
      PROVE  /\ Fits(q, past'[c].begun, cursor') /\ q.call = r.call
             /\ q.pc \notin {"idle", "refused"}
  <2>1. Grown(e, r, r.pc, g, h)
    <3>1. e = [r EXCEPT !.got = g, !.held = h]
      OBVIOUS
    <3> HIDE DEF g, h, r, e, rs
    <3> QED BY <1>2, <3>1 DEF Grown, Fields
  <2>2. e.held = h
    BY <2>1 DEF Grown
  <2>3. PICK y \in {x, "broken"} : q = [e EXCEPT !.pc = y]
    BY <1>4, <2>2
  <2>4. /\ y \in {"emit", "done", "broken"} /\ (y = "emit" => h # <<>>) /\ (y = "done" => h = <<>>)
    BY <2>3
  <2> HIDE DEF e, rs, x
  <2>5. Grown(q, r, y, g, h)
    <3>1. Fields(e)
      BY <2>1 DEF Grown
    <3>2. Grown(q, e, y, e.got, e.held)
      BY <2>3, <3>1, SetPc DEF Grown
    <3> HIDE DEF r, g, h
    <3> QED BY <2>1, <3>2 DEF Grown
  <2>6. q.call = r.call /\ q.pc = y
    BY <2>5 DEF Grown
  <2>7. Fits(q, b, cursor)
    <3> HIDE DEF r, b
    <3> QED BY <1>1, <1>2, <2>4, <2>5, EmitFits
  <2> QED BY <1>1, <1>3, <2>4, <2>6, <2>7
<1> HIDE DEF rs
<1> QED BY <1>1, <1>2, <1>3, <1>4, ActiveStep

\* After the last fragment the call goes on as the array says, or a GetAssertion
\* fails because a blob or a key is not what it should be.
LEMMA ResolveStep ==
    ASSUME NEW c, NEW r, NEW s, NEW p, Step(c, {p} \union Unresolved(r, s))
    PROVE  \/ Step(c, {p})
           \/ r.call.op = "get" /\ Step(c, {[r EXCEPT !.pc = "failed"]})
<1> DEFINE x == [r EXCEPT !.pc = "failed"]
           Ends(q) == IF q.pc \in Final
                      THEN /\ at' = [at EXCEPT ![c] = [Start EXCEPT !.pc = q.pc, !.call = q.call, !.got = q.got]]
                           /\ Unlock(c)
                      ELSE /\ at' = [at EXCEPT ![c] = q]
                           /\ UNCHANGED mu
<1>1. \A rs : Step(c, rs) <=> \E q \in rs : Ends(q)
  BY DEF Step
<1>2. \A q \in Unresolved(r, s) : r.call.op = "get" /\ q = x
  BY DEF Unresolved
<1> HIDE DEF Ends, x
<1>3. PICK q \in {p} \union Unresolved(r, s) : Ends(q)
  BY <1>1
<1>4. CASE q = p
  BY <1>1, <1>3, <1>4
<1>5. CASE q \in Unresolved(r, s)
  <2>1. r.call.op = "get" /\ Step(c, {x})
    BY <1>1, <1>2, <1>3, <1>5
  <2> QED BY <2>1 DEF x
<1> QED BY <1>3, <1>4, <1>5

\* A fragment of the array is read.
LEMMA ReadFragmentStep == ASSUME IInv, NEW c \in Callers, ReadFragment(c) PROVE IInv'
<1> DEFINE r == at[c]
           b == past[c].begun
           piece == Piece(Serialized(array), r.off)
           s == r.buf \o piece
           more == [r EXCEPT !.buf = s, !.off = @ + Len(piece)]
           all == ReadArray(r, s)
<1>0. /\ r.pc = "read" /\ cursor' = NoCursor /\ UNCHANGED past
      /\ \/ Step(c, {Gave(r)}) \/ Step(c, {more})
         \/ Step(c, {all} \union Unresolved(r, s))
  BY DEF ReadFragment
<1>1. /\ r.pc = "read" /\ cursor' = NoCursor /\ UNCHANGED past
      /\ \/ Step(c, {Gave(r)}) \/ Step(c, {more}) \/ Step(c, {all})
         \/ Step(c, {[at[c] EXCEPT !.pc = "failed"]})
  <2> HIDE DEF s, more, all
  <2> QED BY <1>0, ResolveStep
<1>2. Active(c) /\ Fits(r, b, cursor) /\ Fields(r) /\ IsSeq(b)
  BY <1>1, ActiveFacts DEF Final
<1>3. Kept(c) /\ past'[c].begun = b
  BY <1>1, KeptFacts
<1>4. CASE Step(c, {Gave(r)})
  BY <1>1, <1>3, <1>4, GaveStep DEF Stays
<1>5. CASE Step(c, {more})
  <2> DEFINE o == r.off + Len(piece)
  <2>1. more = [r EXCEPT !.buf = s, !.off = o]
    OBVIOUS
  <2> HIDE DEF s, o, more
  <2>2. /\ Fields(more) /\ more.pc = r.pc /\ more.call = r.call /\ more.got = r.got /\ more.held = r.held
        /\ more.req = r.req /\ more.total = r.total
    BY <1>2, <2>1 DEF Fields
  <2>3. Fits(more, b, cursor')
    <3> HIDE DEF r, b
    <3> QED BY <1>1, <1>2, <2>2 DEF Fits, Phase, Final
  <2> QED BY <1>1, <1>2, <1>3, <1>5, <2>2, <2>3, ActiveStep
<1>6. CASE Step(c, {all})
  <2>1. /\ Fits(all, b, cursor') /\ all.call = r.call
        /\ all.pc \in {"emit", "failed", "done", "write"}
    <3> HIDE DEF s, r, b
    <3> QED BY <1>1, <1>2, ReadArrayFits
  <2> HIDE DEF all
  <2> QED BY <1>2, <1>3, <1>6, <2>1, ActiveStep
<1>7. CASE Step(c, {[at[c] EXCEPT !.pc = "failed"]})
  BY <1>2, <1>3, <1>7, StopStep DEF Stays
<1> QED BY <1>1, <1>4, <1>5, <1>6, <1>7

\* An exchange fails.
LEMMA FailStep == ASSUME IInv, NEW c \in Callers, Fail(c) PROVE IInv'
<1>1. /\ at[c].pc \in {"keys", "begin", "next", "read", "write"}
      /\ past' = [past EXCEPT ![c].hurt = TRUE] /\ UNCHANGED cursor
  BY DEF Fail, authenticator
<1>2. Active(c)
  BY <1>1 DEF Active, Final
<1>3. Stays(c)
  BY <1>1, KeptFacts DEF Stays
<1>4. CASE at[c].pc \in {"read", "write"}
  <2>1. Step(c, {Gave(at[c])})
    BY <1>4 DEF Fail
  <2> QED BY <1>3, <1>4, <2>1, GaveStep
<1>5. CASE at[c].pc \notin {"read", "write"}
  <2>1. Step(c, {[at[c] EXCEPT !.pc = "failed"]})
    BY <1>5 DEF Fail
  <2> QED BY <1>2, <1>3, <2>1, StopStep
<1> QED BY <1>4, <1>5

\* A fragment of the array is written.
LEMMA WriteFragmentStep == ASSUME IInv, NEW c \in Callers, WriteFragment(c) PROVE IInv'
<1> DEFINE r == at[c]
           b == past[c].begun
           piece == Piece(r.buf, r.off)
           p == IF r.off = 0 THEN [data |-> piece, length |-> Len(r.buf)]
                ELSE [partial EXCEPT !.data = @ \o piece]
           last == r.off + Len(piece) = Len(r.buf)
           sent == [r EXCEPT !.off = @ + Len(piece), !.pc = IF last THEN "done" ELSE "write"]
           ok == IF last /\ r.call.op = "get"
                 THEN [sent EXCEPT !.pc = "emit", !.held[1].written = TRUE] ELSE sent
           gave == Gave(r)
<1>1. /\ r.pc = "write" /\ cursor' = NoCursor
      /\ UNCHANGED past \/ past' = [d \in Callers |-> [past[d] EXCEPT !.seen = @ \union {Blobs(p.data)}]]
      /\ Step(c, {ok}) \/ Step(c, {gave}) \/ Step(c, {ok, gave})
  BY DEF WriteFragment, Commit
<1>2. Active(c) /\ Fits(r, b, cursor) /\ Fields(r) /\ IsSeq(b)
  BY <1>1, ActiveFacts DEF Final
<1>3. Kept(c) /\ past'[c].begun = b
  <2> DEFINE a == Blobs(p.data)
  <2> HIDE DEF a
  <2>1. UNCHANGED past \/ past' = [d \in Callers |-> [past[d] EXCEPT !.seen = @ \union {a}]]
    BY <1>1 DEF a
  <2> QED BY <1>1, <2>1, KeptFacts
<1>4. Fits(gave, b, cursor') /\ gave.call = r.call /\ gave.pc \in {"emit", "failed"}
  BY <1>1, <1>2, GaveFits
<1>5. Fits(ok, b, cursor') /\ ok.call = r.call /\ ok.pc \in {"write", "done", "emit"}
  <2> DEFINE o == r.off + Len(piece)
             y == IF last THEN "done" ELSE "write"
  <2>1. sent = [r EXCEPT !.off = o, !.pc = y]
    OBVIOUS
  <2>2. y \in {"done", "write"} /\ (y = "done" <=> last)
    OBVIOUS
  <2>3. /\ last /\ r.call.op = "get" => ok = [sent EXCEPT !.pc = "emit", !.held[1].written = TRUE]
        /\ ~(last /\ r.call.op = "get") => ok = sent
    OBVIOUS
  <2> HIDE DEF o, y, sent, ok, last, gave, p, piece
  <2>4. /\ Fields(sent) /\ sent.pc = y /\ sent.call = r.call /\ sent.got = r.got /\ sent.held = r.held
    BY <1>2, <2>1 DEF Fields
  <2>5. IsSeq(r.held) /\ IsSeq(r.got)
    BY <1>2 DEF Fits
  <2>6. CASE ~(last /\ r.call.op = "get")
    <3>1. ok = sent
      BY <2>3, <2>6
    <3>2. Fits(sent, b, cursor')
      <4>1. y = "done" => r.call.op # "get"
        BY <2>2, <2>6
      <4>2. /\ IsSeq(sent.held) /\ Len(sent.held) = Len(r.held)
            /\ \A i \in 1..Len(r.held) : \A z : Names(r.held[i], z) => Names(sent.held[i], z)
        BY <2>4, <2>5
      <4> HIDE DEF r, b
      <4> QED BY <1>1, <1>2, <2>2, <2>4, <4>1, <4>2, WriteFits
    <3> QED BY <2>2, <2>4, <3>1, <3>2
  <2>7. CASE last /\ r.call.op = "get"
    <3> DEFINE h == [r.held EXCEPT ![1].written = TRUE]
    <3>1. Fields(ok) /\ ok.pc = "emit" /\ ok.call = r.call /\ ok.got = r.got /\ ok.held = h
      <4>1. ok = [sent EXCEPT !.pc = "emit", !.held = [sent.held EXCEPT ![1].written = TRUE]]
        BY <2>3, <2>7
      <4>2. ok = [sent EXCEPT !.pc = "emit", !.held = h]
        BY <2>4, <4>1
      <4> HIDE DEF h, r
      <4>3. Fields(ok) /\ ok.pc = "emit" /\ ok.call = sent.call /\ ok.got = sent.got /\ ok.held = h
        BY <2>4, <4>2 DEF Fields
      <4> QED BY <2>4, <4>3
    <3>2. Len(r.held) \in Nat /\ DOMAIN r.held = 1..Len(r.held)
      BY <2>5, SeqFacts
    <3>3. DOMAIN h = 1..Len(r.held) /\ h = [k \in 1..Len(r.held) |-> h[k]]
      BY <3>2
    <3>4. ASSUME NEW i \in 1..Len(r.held), NEW z, Names(r.held[i], z) PROVE Names(h[i], z)
      <4>1. CASE i # 1
        <5>1. h[i] = r.held[i]
          BY <3>2, <4>1
        <5> QED BY <3>4, <5>1
      <4>2. CASE i = 1
        <5> DEFINE x == r.held[i]
        <5>1. h[i] = [x EXCEPT !.written = TRUE]
          BY <3>2, <4>2
        <5>2. Names(x, z)
          BY <3>4
        <5> HIDE DEF x, h
        <5> QED BY <5>1, <5>2 DEF Names
      <4> QED BY <4>1, <4>2
    <3> HIDE DEF h
    <3>5. IsSeq(h) /\ Len(h) = Len(r.held)
      BY <3>2, <3>3, MapFacts
    <3>6. Fits(ok, b, cursor')
      <4>1. /\ IsSeq(ok.held) /\ Len(ok.held) = Len(r.held)
            /\ \A i \in 1..Len(r.held) : \A z : Names(r.held[i], z) => Names(ok.held[i], z)
        BY <3>1, <3>4, <3>5
      <4>2. r.call.op = "get"
        BY <2>7
      <4> HIDE DEF r, b
      <4> QED BY <1>1, <1>2, <3>1, <4>1, <4>2, WriteFits
    <3> QED BY <3>1, <3>6
  <2> QED BY <2>6, <2>7
<1> HIDE DEF ok, gave, p, sent, last, piece
<1> QED BY <1>1, <1>2, <1>3, <1>4, <1>5, ActiveStep

\* What another platform does leaves the items each enumeration began with.
LEMMA OtherPlatformPast ==
    ASSUME PastShape, OtherPlatform
    PROVE  /\ DOMAIN past' = Callers
           /\ \A c \in Callers :
                 /\ past'[c].begun = past[c].begun
                 /\ past'[c] = [begun |-> past'[c].begun, seen |-> past'[c].seen, hurt |-> past'[c].hurt]
<1>1. DOMAIN past' = Callers
  BY DEF OtherPlatform
<1>2. ASSUME NEW c \in Callers
      PROVE  /\ past'[c].begun = past[c].begun
             /\ past'[c] = [begun |-> past'[c].begun, seen |-> past'[c].seen, hurt |-> past'[c].hurt]
  <2>1. PICK s : past'[c] = [past[c] EXCEPT !.hurt = TRUE]
                 \/ past'[c] = [[past[c] EXCEPT !.hurt = TRUE] EXCEPT !.seen = s]
    <3>1. CASE past' = [d \in Callers |-> [past[d] EXCEPT !.hurt = TRUE]]
      BY <3>1
    <3>2. CASE \E a \in Arrays : past' = [d \in Callers |->
                  [[past[d] EXCEPT !.hurt = TRUE] EXCEPT !.seen = @ \union {a}]]
      <4>1. PICK a \in Arrays : past' = [d \in Callers |->
                  [[past[d] EXCEPT !.hurt = TRUE] EXCEPT !.seen = @ \union {a}]]
        BY <3>2
      <4> DEFINE x == [past[c] EXCEPT !.hurt = TRUE]
      <4>2. past'[c] = [x EXCEPT !.seen = x.seen \union {a}]
        BY <4>1
      <4> QED BY <4>2
    <3> QED BY <3>1, <3>2 DEF OtherPlatform
  <2>2. past[c] = [begun |-> past[c].begun, seen |-> past[c].seen, hurt |-> past[c].hurt]
    BY DEF PastShape
  <2> QED BY <2>1, <2>2
<1> QED BY <1>1, <1>2

\* Another platform ends the authenticator's enumeration, and what it writes
\* is seen by every call.
LEMMA OtherPlatformStep == ASSUME IInv, OtherPlatform PROVE IInv'
<1>1. cursor' = NoCursor /\ UNCHANGED <<mu, at>> /\ PastShape
  BY DEF OtherPlatform, IInv
<1>2. /\ DOMAIN past' = Callers
      /\ \A c \in Callers :
            /\ past'[c].begun = past[c].begun
            /\ past'[c] = [begun |-> past'[c].begun, seen |-> past'[c].seen, hurt |-> past'[c].hurt]
  BY <1>1, OtherPlatformPast
<1>3. PastShape' /\ CursorShape'
  <2>1. PastShape'
    BY <1>1, <1>2 DEF PastShape
  <2> QED BY <1>1, <2>1, SeqFacts DEF CursorShape, NoCursor
<1>4. Enumerating'
  <2> SUFFICES ASSUME NEW c \in Callers PROVE Fits(at'[c], past'[c].begun, cursor')
    BY DEF Enumerating
  <2>1. Fits(at[c], past[c].begun, cursor)
    BY DEF IInv, Enumerating
  <2> QED BY <1>1, <1>2, <2>1, EndedFits
<1> QED BY <1>1, <1>3, <1>4 DEF IInv, Exclusive, Called, Active

\* Before any call.
LEMMA InitInvariant == Init => IInv
<1> SUFFICES ASSUME Init PROVE IInv
  OBVIOUS
<1>1. /\ at = [c \in Callers |-> Start] /\ cursor = NoCursor
      /\ past = [c \in Callers |-> [begun |-> <<>>, seen |-> {}, hurt |-> FALSE]]
  BY DEF Init
<1>2. /\ Fields(Start) /\ Start.pc = "idle" /\ Start.call.op = "none"
      /\ Start.got = <<>> /\ Start.held = <<>>
  BY DEF Start, Fields
<1>3. Fits(Start, <<>>, NoCursor)
  BY <1>2, SeqFacts DEF Fits, Phase, Final, Enumerations
<1>4. PastShape /\ CursorShape
  BY <1>1, SeqFacts DEF PastShape, CursorShape, NoCursor
<1>5. Enumerating
  BY <1>1, <1>3 DEF Enumerating
<1>6. Exclusive /\ Called
  BY <1>1, <1>2 DEF Exclusive, Called, Active
<1> QED BY <1>1, <1>4, <1>5, <1>6 DEF IInv

\* The inductive invariant of the iterators.
THEOREM Invariance == Spec => []IInv
<1>1. ASSUME IInv, [Next]_vars PROVE IInv'
  <2>1. CASE UNCHANGED vars
    BY <1>1, <2>1 DEF vars, authenticator, IInv, PastShape, CursorShape, Exclusive, Active, Called,
                      Enumerating
  <2>2. ASSUME NEW c \in Callers, NEW k \in CallsOf[c], Call(c, k) PROVE IInv'
    BY <1>1, <2>2, CallStep
  <2>3. ASSUME NEW c \in Callers, CallerStep(c) PROVE IInv'
    BY <1>1, <2>3, KeyAgreementStep, MakeCredentialStep, BeginStep, GetNextStep, ConsumeStep,
       EmitStep, ReadFragmentStep, WriteFragmentStep, FailStep DEF CallerStep
  <2>4. CASE OtherPlatform
    BY <1>1, <2>4, OtherPlatformStep
  <2> QED BY <1>1, <2>1, <2>2, <2>3, <2>4 DEF Next, Terminated
<1> QED BY <1>1, InitInvariant, PTL DEF Spec

\* A sequence of names is the beginning of what it names.
LEMMA NamedPrefix ==
    ASSUME NEW g, IsSeq(g), NEW b, IsSeq(b), Named(g, b, 0), Len(g) <= Len(b),
           NEW items, items = [k \in DOMAIN g |-> g[k].item]
    PROVE  items = SubSeq(b, 1, Len(items)) /\ (Len(g) = Len(b) => items = b)
<1>1. Len(g) \in Nat /\ DOMAIN g = 1..Len(g) /\ Len(b) \in Nat /\ DOMAIN b = 1..Len(b)
  BY SeqFacts
<1>2. DOMAIN items = 1..Len(g) /\ \A k \in 1..Len(g) : items[k] = b[k]
  BY <1>1 DEF Named, Names
<1>3. IsSeq(items) /\ Len(items) = Len(g)
  BY <1>1, <1>2, MapFacts
<1>4. items = SubSeq(b, 1, Len(items))
  <2> DEFINE S == {b[i] : i \in DOMAIN b}
             n == Len(g)
  <2>1. b \in Seq(S) /\ n \in 0..Len(b)
    BY <1>1 DEF IsSeq
  <2> HIDE DEF S, n
  <2>2. SubSeq(b, 1, n) = [i \in 1..n |-> b[i]]
    BY <2>1
  <2>3. items = [i \in 1..n |-> b[i]]
    BY <1>2 DEF n
  <2> QED BY <1>3, <2>2, <2>3 DEF n
<1>5. ASSUME Len(g) = Len(b) PROVE items = b
  <2>1. b = [i \in 1..Len(b) |-> b[i]]
    BY <1>1 DEF IsSeq
  <2> QED BY <1>2, <1>5, <2>1
<1> QED BY <1>4, <1>5

\* The iterators EnumerateRPs, EnumerateCredentials and GetAssertion: what each
\* of them yields is the beginning of the one enumeration that began for it,
\* and the whole of it when it ends without an error, whatever other callers
\* and other platforms do.
THEOREM IteratorsWhole == Spec => []EnumerationWhole
<1>1. ASSUME IInv PROVE EnumerationWhole
  <2> SUFFICES ASSUME NEW c \in Callers, at[c].call.op \in Enumerations,
                      NEW items, items = [k \in DOMAIN at[c].got |-> at[c].got[k].item]
               PROVE  /\ items = SubSeq(past[c].begun, 1, Len(items))
                      /\ at[c].pc = "done" => items = past[c].begun
    BY DEF EnumerationWhole
  <2> DEFINE g == at[c].got
             h == at[c].held
             b == past[c].begun
  <2>1. /\ IsSeq(g) /\ IsSeq(h) /\ IsSeq(b) /\ Named(g, b, 0) /\ Len(g) + Len(h) <= Len(b)
        /\ at[c].pc = "done" => Len(g) = Len(b)
    BY <1>1 DEF IInv, PastShape, Enumerating, Fits
  <2>2. items = [k \in DOMAIN g |-> g[k].item]
    OBVIOUS
  <2> HIDE DEF g, h, b
  <2>3. Len(g) \in Nat /\ Len(h) \in Nat /\ Len(b) \in Nat
    BY <2>1, SeqFacts
  <2>4. Len(g) <= Len(b)
    BY <2>1, <2>3
  <2>5. items = SubSeq(b, 1, Len(items)) /\ (Len(g) = Len(b) => items = b)
    BY <2>1, <2>2, <2>4, NamedPrefix
  <2> QED BY <2>1, <2>5 DEF b
<1> QED BY <1>1, Invariance, PTL

-----------------------------------------------------------------------------
(* What MakeCredential and GetAssertion return.                            *)

\* An assertion, with the outputs that were asked for and the PRF results of
\* its own credential.
Right(a, k) ==
    /\ {"item", "outs", "secrets"} \subseteq DOMAIN a
    /\ a.outs \subseteq k.x.ask
    /\ "prf" \in a.outs /\ a.secrets # <<>> =>
          a.secrets = Secrets(a.item, TRUE,
                              prfSalts(selectPRFEvaluationForCredential(k.x.prf, a.item)))

\* A new credential, with the outputs that were asked for.
Made(a, k) ==
    /\ a.outs \subseteq k.x.ask
    /\ "credProtect" \in k.x.ask /\ k.x.enforce => a.level >= k.x.level
    /\ "largeBlob" \in k.x.ask /\ k.x.blob = "required" => a.supported
    /\ "prf" \in k.x.ask /\ a.secrets # <<>> => a.secrets = Secrets("new", TRUE, prfSalts(k.x.prf.eval))

\* The call r, with the information i: its request is the one that was checked,
\* everything it has is as asked, and the enumeration is of allowed credentials.
Proper(i, r, b) ==
    /\ r.pc \notin Final \union {"idle"} /\ r.call.op = "make" =>
          r.req = createExtensions(i, r.call.x, r.call.by, r.call.rk) /\ r.req.ok
    /\ r.pc \notin Final \union {"idle"} /\ r.call.op = "get" =>
          r.req = getExtensions(i, r.call.x, r.call.by, r.call.up, r.call.allow) /\ r.req.ok
    /\ r.call.op = "get" => /\ \A n \in 1..Len(r.got) : Right(r.got[n], r.call)
                            /\ \A n \in 1..Len(r.held) : Right(r.held[n], r.call)
    /\ r.call.op = "make" => \A n \in 1..Len(r.got) : Made(r.got[n], r.call)
    /\ r.pc \in {"next", "yield"} /\ r.call.op = "get" /\ r.call.allow # {} =>
          \A n \in 1..Len(b) : b[n] \in r.call.allow

Asked == \A c \in Callers : Proper(info, at[c], past[c].begun)

\* One thing at most differs between an answer and the one it is derived from.
LEMMA DeviationFacts ==
    ASSUME NEW a, NEW o \in Deviations(a),
           a = [cred |-> a.cred, outs |-> a.outs, secrets |-> a.secrets, uv |-> a.uv,
                level |-> a.level, enabled |-> a.enabled, supported |-> a.supported,
                inner |-> a.inner, algorithm |-> a.algorithm, blob |-> a.blob]
    PROVE  /\ o.secrets \in {a.secrets,
                             IF Len(a.secrets) = 2 THEN <<a.secrets[1]>> ELSE a.secrets \o a.secrets}
           /\ o.level \in {a.level, 1}
<1>1. CASE o = a
  BY <1>1
<1>2. CASE \E n \in AllOuts : o = [a EXCEPT !.outs = IF n \in @ THEN @ \ {n} ELSE @ \union {n}]
  <2>1. PICK x : o = [a EXCEPT !.outs = x]
    <3>1. PICK n \in AllOuts : o = [a EXCEPT !.outs = IF n \in @ THEN @ \ {n} ELSE @ \union {n}]
      BY <1>2
    <3> DEFINE x == IF n \in a.outs THEN a.outs \ {n} ELSE a.outs \union {n}
    <3> WITNESS x
    <3> QED BY <3>1
  <2>2. o.secrets = a.secrets /\ o.level = a.level
    BY <2>1
  <2> QED BY <2>2
<1>3. CASE o = [a EXCEPT !.secrets = IF Len(@) = 2 THEN <<@[1]>> ELSE @ \o @]
  <2> DEFINE x == IF Len(a.secrets) = 2 THEN <<a.secrets[1]>> ELSE a.secrets \o a.secrets
  <2>1. o = [a EXCEPT !.secrets = x]
    BY <1>3
  <2> HIDE DEF x
  <2>2. o.secrets = x /\ o.level = a.level
    BY <2>1
  <2> QED BY <2>2 DEF x
<1>4. CASE o \in {[a EXCEPT !.uv = ~@], [a EXCEPT !.level = 1], [a EXCEPT !.enabled = FALSE],
                  [a EXCEPT !.supported = FALSE], [a EXCEPT !.inner = FALSE],
                  [a EXCEPT !.blob = "written"]}
  <2>1. CASE o = [a EXCEPT !.uv = ~@]
    <3> DEFINE x == ~a.uv
    <3>1. o = [a EXCEPT !.uv = x]
      BY <2>1
    <3> HIDE DEF x
    <3>2. o.secrets = a.secrets /\ o.level = a.level
      BY <3>1
    <3> QED BY <3>2
  <2>2. CASE o = [a EXCEPT !.level = 1]
    BY <2>2
  <2>3. CASE o = [a EXCEPT !.enabled = FALSE]
    BY <2>3
  <2>4. CASE o = [a EXCEPT !.supported = FALSE]
    BY <2>4
  <2>5. CASE o = [a EXCEPT !.inner = FALSE]
    BY <2>5
  <2>6. CASE o = [a EXCEPT !.blob = "written"]
    BY <2>6
  <2> QED BY <1>4, <2>1, <2>2, <2>3, <2>4, <2>5, <2>6
<1> QED BY <1>1, <1>2, <1>3, <1>4 DEF Deviations

\* The salts of an evaluation: one for each input.
LEMMA SaltsFacts ==
    ASSUME NEW v
    PROVE  /\ prfSalts(v) = <<>> \/ (\E y : prfSalts(v) = <<y>>) \/ (\E y, z : prfSalts(v) = <<y, z>>)
           /\ prfSalts(v) # <<>> => v # NoValues
  BY DEF prfSalts

\* Secrets of another number than the salts are not accepted; the others are
\* the right ones.
LEMMA SecretsAccepted ==
    ASSUME NEW cred, NEW uv, NEW v, NEW salts, salts = prfSalts(v), salts # <<>>,
           NEW s, s = Secrets(cred, uv, salts),
           NEW t \in {s, IF Len(s) = 2 THEN <<s[1]>> ELSE s \o s}, Len(t) = Len(salts)
    PROVE  t = s
<1>1. IsSeq(salts) /\ Len(salts) \in {1, 2} /\ DOMAIN salts = 1..Len(salts)
  <2>1. \A y : IsSeq(<<y>>) /\ Len(<<y>>) = 1
    BY SeqFacts
  <2>2. \A y, z : IsSeq(<<y, z>>) /\ Len(<<y, z>>) = 2
    BY DEF IsSeq
  <2>3. IsSeq(salts) /\ Len(salts) \in {1, 2}
    BY <2>1, <2>2, SaltsFacts
  <2> QED BY <2>3, SeqFacts
<1>2. IsSeq(s) /\ Len(s) = Len(salts)
  <2>1. DOMAIN s = 1..Len(salts) /\ s = [k \in 1..Len(salts) |-> s[k]]
    BY <1>1 DEF Secrets
  <2>2. Len(salts) \in Nat
    BY <1>1
  <2> HIDE DEF Secrets
  <2> QED BY <2>1, <2>2, MapFacts
<1>3. Len(s \o s) = Len(s) + Len(s)
  <2> DEFINE S == {s[i] : i \in DOMAIN s}
  <2>1. s \in Seq(S)
    BY <1>2 DEF IsSeq
  <2> HIDE DEF S
  <2> QED BY <2>1
<1>4. Len(<<s[1]>>) = 1
  BY SeqFacts
<1>5. CASE Len(salts) = 1
  <2>1. Len(s \o s) = 2 /\ Len(s) = 1
    BY <1>2, <1>3, <1>5
  <2>2. t \in {s, s \o s}
    BY <2>1
  <2> QED BY <1>5, <2>1, <2>2
<1>6. CASE Len(salts) = 2
  <2>1. t \in {s, <<s[1]>>}
    BY <1>2, <1>6
  <2> QED BY <1>4, <1>6, <2>1
<1> QED BY <1>1, <1>5, <1>6

\* The one evaluation GetAssertion asks for is the one meant for whichever
\* allowed credential answers.
LEMMA SelectedIsMeant ==
    ASSUME NEW p, NEW allow, IsFiniteSet(allow), NEW item, allow # {} => item \in allow,
           selectCTAPGetPRFEvaluation(p, allow).ok
    PROVE  selectCTAPGetPRFEvaluation(p, allow).values = selectPRFEvaluationForCredential(p, item)
<1> DEFINE effective == {selectPRFEvaluationForCredential(p, c) : c \in allow}
           selected == selectCTAPGetPRFEvaluation(p, allow)
<1>1. /\ DOMAIN p.by # {} => allow # {}
      /\ DOMAIN p.by # {} => Cardinality(effective) = 1
      /\ selected.values = IF DOMAIN p.by = {} \/ Cardinality(effective) # 1
                           THEN selectPRFEvaluationForCredential(p, NoInput)
                           ELSE CHOOSE v \in effective : TRUE
  BY DEF selectCTAPGetPRFEvaluation, validateGetPRFInputs
<1>2. CASE DOMAIN p.by = {}
  BY <1>1, <1>2 DEF selectPRFEvaluationForCredential
<1>3. CASE DOMAIN p.by # {}
  <2>1. item \in allow /\ Cardinality(effective) = 1 /\ selected.values = CHOOSE v \in effective : TRUE
    BY <1>1, <1>3
  <2>2. IsFiniteSet(effective)
    <3> DEFINE f == [c \in allow |-> selectPRFEvaluationForCredential(p, c)]
    <3>1. f \in Surjection(allow, effective)
      BY DEF Surjection
    <3> HIDE DEF f, effective
    <3> QED BY <3>1, FS_Surjection
  <2>3. PICK v : effective = {v}
    <3> HIDE DEF effective
    <3> QED BY <2>1, <2>2, FS_Singleton
  <2>4. selectPRFEvaluationForCredential(p, item) \in effective
    BY <2>1
  <2> HIDE DEF effective, selected
  <2>5. selectPRFEvaluationForCredential(p, item) = v /\ selected.values = v
    BY <2>1, <2>3, <2>4
  <2> QED BY <2>5 DEF selected
<1> QED BY <1>2, <1>3

\* What GetAssertion accepts is as asked, with the PRF results of the
\* credential that answered.
LEMMA AssertionRight ==
    ASSUME NEW k, IsFiniteSet(k.allow), NEW r,
           r = getExtensions(info, k.x, k.by, k.up, k.allow), r.ok,
           NEW item, k.allow # {} => item \in k.allow,
           NEW o \in Deviations(Answer(item, k, r)), NEW w, w = getOutputs(k.x, r, o), w.ok
    PROVE  /\ w.outs \subseteq k.x.ask
           /\ "prf" \in w.outs /\ w.secrets # <<>> =>
                 w.secrets = Secrets(item, TRUE, prfSalts(selectPRFEvaluationForCredential(k.x.prf, item)))
<1> DEFINE x == k.x
           prf == validateGetPRF(info, x, k.by, k.up, k.allow)
           lb == validateGetLargeBlob(info, x, k.allow)
           salts == IF Asks(x, "hmac-secret") THEN x.salts ELSE prfSalts(prf.values)
           a == Answer(item, k, r)
           uv == userVerificationWillBePerformed(info, k.by)
<1>1. /\ ~({"hmac-secret", "prf"} \subseteq x.ask) /\ prf.ok
      /\ r.sent = (x.ask \intersect {"credBlob", "thirdPartyPayment", "previewSign"})
                  \union Include(salts # <<>>, {"hmac-secret"})
                  \union Include(lb.backend = "direct", {"largeBlob"})
                  \union Include(lb.backend = "legacy", {"largeBlobKey"})
      /\ r.hmac.salts = salts /\ r.largeBlob = lb /\ r.values = prf.values
  <2> HIDE DEF prf, lb, salts
  <2>1. r = getExtensions(info, x, k.by, k.up, k.allow) /\ r.ok
    OBVIOUS
  <2> QED BY <2>1, SMTT(60) DEF getExtensions, newHMACSecretInput, prf, lb, salts
<1>2. /\ o.outs \intersect {"credBlob", "hmac-secret", "thirdPartyPayment"} \subseteq r.sent
      /\ Asks(x, "previewSign") <=> "previewSign" \in o.outs
      /\ "hmac-secret" \in o.outs =>
             (r.values # NoValues => validatePRFResultLength(r.values, o.secrets))
      /\ w.outs = (o.outs \intersect {"credBlob", "previewSign"})
                  \union Include(Asks(x, "prf"), {"prf"})
                  \union Include(r.largeBlob.backend # "none", {"largeBlob"})
                  \union Include("hmac-secret" \in o.outs /\ Asks(x, "hmac-secret"), {"hmac-secret"})
      /\ w.secrets = IF "hmac-secret" \in o.outs THEN o.secrets ELSE <<>>
  BY DEF getOutputs, validateGetAssertionExtensionOutputs, getPreviewSignOutput
<1>3. lb.backend # "none" => Asks(x, "largeBlob")
  BY DEF validateGetLargeBlob
<1>4. /\ a = [cred |-> a.cred, outs |-> a.outs, secrets |-> a.secrets, uv |-> a.uv,
              level |-> a.level, enabled |-> a.enabled, supported |-> a.supported,
              inner |-> a.inner, algorithm |-> a.algorithm, blob |-> a.blob]
      /\ a.secrets = Secrets(item, uv, r.hmac.salts)
  BY DEF Answer
<1> HIDE DEF x, prf, lb, salts, a, uv
<1>5. w.outs \subseteq x.ask
  <2>1. "credBlob" \in o.outs => "credBlob" \in x.ask
    BY <1>1, <1>2 DEF Include
  <2> QED BY <1>1, <1>2, <1>3, <2>1 DEF Include, Asks
<1>6. ASSUME "prf" \in w.outs, w.secrets # <<>>
      PROVE  w.secrets = Secrets(item, TRUE, prfSalts(selectPRFEvaluationForCredential(x.prf, item)))
  <2>1. "hmac-secret" \in o.outs /\ w.secrets = o.secrets /\ Asks(x, "prf") /\ ~Asks(x, "hmac-secret")
    BY <1>1, <1>2, <1>5, <1>6 DEF Asks
  <2>2. salts = prfSalts(prf.values) /\ salts # <<>>
    <3>1. "hmac-secret" \in r.sent
      BY <1>2, <2>1
    <3>2. salts # <<>>
      BY <1>1, <3>1 DEF Include
    <3> QED BY <2>1, <3>2 DEF salts
  <2>3. prf.values # NoValues
    BY <2>2, SaltsFacts
  <2>4. /\ prf.values = selectCTAPGetPRFEvaluation(x.prf, k.allow).values
        /\ selectCTAPGetPRFEvaluation(x.prf, k.allow).ok /\ uv
    BY <1>1, <2>1, <2>3 DEF prf, validateGetPRF, uv
  <2>5. prf.values = selectPRFEvaluationForCredential(x.prf, item)
    BY <2>4, SelectedIsMeant
  <2>6. uv = TRUE
    BY <2>4 DEF uv, userVerificationWillBePerformed
  <2>7. o.secrets \in {a.secrets,
                       IF Len(a.secrets) = 2 THEN <<a.secrets[1]>> ELSE a.secrets \o a.secrets}
    BY <1>4, DeviationFacts DEF a
  <2>8. Len(o.secrets) = Len(salts)
    BY <1>1, <1>2, <2>1, <2>2, <2>3 DEF validatePRFResultLength
  <2>9. o.secrets = a.secrets
    <3> DEFINE s == a.secrets
               t == o.secrets
    <3>1. /\ s = Secrets(item, uv, salts) /\ Len(t) = Len(salts)
          /\ t \in {s, IF Len(s) = 2 THEN <<s[1]>> ELSE s \o s}
      BY <1>1, <1>4, <2>7, <2>8
    <3> HIDE DEF s, t
    <3>2. t = s
      BY <2>2, <3>1, SecretsAccepted
    <3> QED BY <3>2 DEF s, t
  <2> QED BY <1>1, <1>4, <2>1, <2>2, <2>5, <2>6, <2>9
<1> QED BY <1>5, <1>6 DEF x

\* What MakeCredential accepts is as asked: the protection that is enforced,
\* the large-blob support that is required, user-verified PRF results.
LEMMA CredentialRight ==
    ASSUME NEW k, NEW r, r = createExtensions(info, k.x, k.by, k.rk), r.ok,
           NEW o \in Deviations(Answer("new", k, r)), NEW w, w = createOutputs(k.x, r, o), w.ok,
           k.x.level \in Nat,
           NEW m, m = [outs |-> w.outs, secrets |-> w.secrets, level |-> o.level,
                       supported |-> w.supported]
    PROVE  Made(m, k)
<1> DEFINE x == k.x
           prf == validateCreatePRF(info, x, k.by)
           lb == validateCreateLargeBlob(info, x, k.rk)
           salts == IF Asks(x, "hmac-secret-mc") THEN x.salts ELSE prfSalts(prf.values)
           a == Answer("new", k, r)
           uv == userVerificationWillBePerformed(info, k.by)
           results == "hmac-secret-mc" \in o.outs
<1>1. /\ ~({"hmac-secret-mc", "prf"} \subseteq x.ask)
      /\ r.sent = (x.ask \intersect (Flags \union {"credProtect", "previewSign"}))
                  \union Include(salts # <<>>, {"hmac-secret", "hmac-secret-mc"})
                  \union Include(Asks(x, "prf") /\ Lists(info, "hmac-secret"), {"hmac-secret"})
                  \union Include(Asks(x, "credBlob") /\ x.blobLength <= info.maxCredBlob, {"credBlob"})
                  \union Include(lb.backend = "direct", {"largeBlob"})
                  \union Include(lb.key, {"largeBlobKey"})
      /\ r.hmac.salts = salts /\ r.values = prf.values
  <2> HIDE DEF prf, lb, salts
  <2>1. r = createExtensions(info, x, k.by, k.rk) /\ r.ok
    OBVIOUS
  <2> QED BY <2>1, SMTT(60) DEF createExtensions, newHMACSecretInput, prf, lb, salts
<1>2. /\ Asks(x, "largeBlob") /\ x.blob = "required" => w.supported
      /\ o.outs \intersect {"credBlob", "hmac-secret-mc"} \subseteq r.sent
      /\ Asks(x, "credProtect") /\ x.enforce /\ x.level # 1 => o.level >= x.level
      /\ "previewSign" \in o.outs => Asks(x, "previewSign")
      /\ results => (r.values # NoValues => validatePRFResultLength(r.values, o.secrets))
      /\ w.outs = Include(Asks(x, "largeBlob"), {"largeBlob"})
                  \union Include(Asks(x, "prf"), {"prf"})
                  \union (o.outs \intersect {"credBlob", "previewSign"})
                  \union Include("hmac-secret" \in o.outs /\ Asks(x, "hmac-secret"), {"hmac-secret"})
                  \union Include(results /\ ~Asks(x, "prf"), {"hmac-secret-mc"})
      /\ w.secrets = IF results THEN o.secrets ELSE <<>>
  BY DEF createOutputs, createLargeBlobOutput, validateMakeCredentialExtensionOutputs,
         createPreviewSignOutput
<1>3. /\ a = [cred |-> a.cred, outs |-> a.outs, secrets |-> a.secrets, uv |-> a.uv,
              level |-> a.level, enabled |-> a.enabled, supported |-> a.supported,
              inner |-> a.inner, algorithm |-> a.algorithm, blob |-> a.blob]
      /\ a.secrets = Secrets("new", uv, r.hmac.salts) /\ a.level = x.level
  BY DEF Answer
<1>4. /\ o.secrets \in {a.secrets,
                        IF Len(a.secrets) = 2 THEN <<a.secrets[1]>> ELSE a.secrets \o a.secrets}
      /\ o.level \in {a.level, 1}
  <2> HIDE DEF a
  <2> QED BY <1>3, DeviationFacts DEF a
<1>5. m.outs = w.outs /\ m.secrets = w.secrets /\ m.level = o.level /\ m.supported = w.supported
  OBVIOUS
<1>6. x.level \in Nat
  OBVIOUS
<1>7. prf.values # NoValues => Asks(x, "prf") /\ prf.values = x.prf.eval /\ uv = TRUE
  BY DEF validateCreatePRF, userVerificationWillBePerformed
<1>8. prfSalts(NoValues) = <<>>
  BY DEF prfSalts
<1> HIDE DEF x, prf, lb, a, uv, results
<1>9. results => salts # <<>>
  <2>1. results => "hmac-secret-mc" \in r.sent
    BY <1>2 DEF results
  <2> HIDE DEF salts
  <2> QED BY <1>1, <2>1 DEF Include, Flags
<1>10. results /\ ~Asks(x, "prf") => Asks(x, "hmac-secret-mc")
  BY <1>7, <1>8, <1>9
<1>11. w.outs \subseteq x.ask
  <2> HIDE DEF salts
  <2>1. "credBlob" \in o.outs => "credBlob" \in x.ask
    BY <1>1, <1>2 DEF Include, Flags, Asks
  <2> QED BY <1>2, <1>10, <2>1 DEF Include, Asks
<1>12. Asks(x, "credProtect") /\ x.enforce => o.level >= x.level
  <2> HIDE DEF salts
  <2>1. CASE x.level # 1
    BY <1>2, <2>1
  <2>2. CASE x.level = 1
    <3>1. o.level = 1
      BY <1>3, <1>4, <2>2
    <3> QED BY <2>2, <3>1
  <2> QED BY <2>1, <2>2
<1>13. ASSUME Asks(x, "prf"), w.secrets # <<>>
       PROVE  w.secrets = Secrets("new", TRUE, prfSalts(x.prf.eval))
  <2>1. results /\ w.secrets = o.secrets /\ ~Asks(x, "hmac-secret-mc")
    BY <1>1, <1>2, <1>13 DEF Asks
  <2>2. salts = prfSalts(prf.values) /\ salts # <<>>
    BY <1>9, <2>1
  <2> HIDE DEF salts
  <2>3. prf.values # NoValues
    BY <1>8, <2>2
  <2>4. Len(o.secrets) = Len(salts)
    BY <1>1, <1>2, <2>1, <2>2, <2>3 DEF validatePRFResultLength
  <2>5. o.secrets = a.secrets
    <3> DEFINE s == a.secrets
               t == o.secrets
               n == "new"
    <3>1. /\ s = Secrets(n, uv, salts) /\ Len(t) = Len(salts)
          /\ t \in {s, IF Len(s) = 2 THEN <<s[1]>> ELSE s \o s}
      BY <1>1, <1>3, <1>4, <2>4
    <3> HIDE DEF s, t, n
    <3>2. t = s
      BY <2>2, <3>1, SecretsAccepted
    <3> QED BY <3>2 DEF s, t
  <2> QED BY <1>1, <1>3, <1>7, <2>1, <2>2, <2>3, <2>5
<1>14. Made(m, k)
  <2> HIDE DEF salts
  <2> QED BY <1>2, <1>5, <1>11, <1>12, <1>13 DEF Made, Asks, x
<1> QED BY <1>14

\* Calls without extensions.
LEMMA PlainProper ==
    ASSUME NEW i, NEW r, NEW b, r.call.op \notin {"make", "get"}
    PROVE  Proper(i, r, b)
  BY DEF Proper

\* A call goes on with the same request.
LEMMA NextProper ==
    ASSUME NEW i, NEW r, NEW b, Proper(i, r, b), r.pc \notin Final \union {"idle"},
           NEW q, q.call = r.call, q.req = r.req, NEW d,
           r.call.op = "get" => /\ \A n \in 1..Len(q.got) : Right(q.got[n], r.call)
                                /\ \A n \in 1..Len(q.held) : Right(q.held[n], r.call),
           r.call.op = "make" => \A n \in 1..Len(q.got) : Made(q.got[n], r.call),
           q.pc \in {"next", "yield"} /\ r.call.op = "get" /\ r.call.allow # {} =>
              \A n \in 1..Len(d) : d[n] \in r.call.allow
    PROVE  Proper(i, q, d)
  BY DEF Proper

\* Only its control point, and the array it moves, change.
LEMMA MovedProper ==
    ASSUME NEW i, NEW r, NEW b, Proper(i, r, b), r.pc \notin Final \union {"idle"},
           NEW q, q.call = r.call, q.req = r.req, q.got = r.got, q.held = r.held,
           q.pc \in {"next", "yield"} => r.pc \in {"next", "yield"}
    PROVE  Proper(i, q, b)
<1>1. /\ r.call.op = "get" => /\ \A n \in 1..Len(q.got) : Right(q.got[n], r.call)
                              /\ \A n \in 1..Len(q.held) : Right(q.held[n], r.call)
      /\ r.call.op = "make" => \A n \in 1..Len(q.got) : Made(q.got[n], r.call)
      /\ q.pc \in {"next", "yield"} /\ r.call.op = "get" /\ r.call.allow # {} =>
              \A n \in 1..Len(b) : b[n] \in r.call.allow
  BY DEF Proper
<1> QED BY <1>1, NextProper

\* An assertion stays right when its large blob is added to it.
LEMMA RightExcept ==
    ASSUME NEW a, NEW k, Right(a, k), NEW y
    PROVE  Right([a EXCEPT !.blob = y], k) /\ Right([a EXCEPT !.written = y], k)
<1>1. \A e : DOMAIN e = DOMAIN a /\ e.item = a.item /\ e.outs = a.outs /\ e.secrets = a.secrets
             => Right(e, k)
  BY DEF Right
<1>2. {"item", "outs", "secrets"} \subseteq DOMAIN a
  BY DEF Right
<1> DEFINE e == [a EXCEPT !.blob = y]
           f == [a EXCEPT !.written = y]
<1>3. DOMAIN e = DOMAIN a /\ e.item = a.item /\ e.outs = a.outs /\ e.secrets = a.secrets
  BY <1>2
<1>4. DOMAIN f = DOMAIN a /\ f.item = a.item /\ f.outs = a.outs /\ f.secrets = a.secrets
  BY <1>2
<1> HIDE DEF e, f
<1>5. Right(e, k) /\ Right(f, k)
  BY <1>1, <1>3, <1>4
<1> QED BY <1>5 DEF e, f

\* A step of a call preserves Asked if every record it may end with is proper.
LEMMA AskedStep ==
    ASSUME IInv, Asked, NEW c \in Callers, NEW rs, Step(c, rs), UNCHANGED info,
           \A d \in Callers \ {c} : past'[d].begun = past[d].begun,
           \A q \in rs : Proper(info, q, past'[c].begun)
    PROVE  Asked'
<1>1. DOMAIN at = Callers
  BY DEF IInv
<1>2. PICK q \in rs :
         IF q.pc \in Final
         THEN at' = [at EXCEPT ![c] = [Start EXCEPT !.pc = q.pc, !.call = q.call, !.got = q.got]]
         ELSE at' = [at EXCEPT ![c] = q]
  BY DEF Step
<1>3. Proper(info, q, past'[c].begun)
  OBVIOUS
<1>4. Proper(info, at'[c], past'[c].begun) /\ \A d \in Callers \ {c} : at'[d] = at[d]
  <2>1. CASE q.pc \in Final
    <3> DEFINE x == q.pc
               y == q.call
               z == q.got
               e == [Start EXCEPT !.pc = x, !.call = y, !.got = z]
    <3>1. at' = [at EXCEPT ![c] = e]
      BY <1>2, <2>1
    <3>2. e.pc = q.pc /\ e.call = q.call /\ e.got = q.got /\ e.held = <<>>
      <4> HIDE DEF x, y, z
      <4>1. e.pc = x /\ e.call = y /\ e.got = z /\ e.held = <<>>
        BY DEF Start
      <4> HIDE DEF e
      <4> QED BY <4>1 DEF x, y, z
    <3> HIDE DEF e, x, y, z
    <3>3. Proper(info, e, past'[c].begun)
      BY <1>3, <2>1, <3>2, SeqFacts DEF Proper, Final
    <3> QED BY <1>1, <3>1, <3>3
  <2>2. CASE q.pc \notin Final
    BY <1>1, <1>2, <1>3, <2>2
  <2> QED BY <2>1, <2>2
<1> SUFFICES ASSUME NEW d \in Callers PROVE Proper(info', at'[d], past'[d].begun)
  BY DEF Asked
<1>5. CASE d = c
  BY <1>4, <1>5
<1>6. CASE d # c
  <2>1. Proper(info, at[d], past[d].begun)
    BY DEF Asked
  <2> QED BY <1>4, <1>6, <2>1
<1> QED BY <1>5, <1>6

\* What both invariants say of a call under way.
LEMMA AskedFacts ==
    ASSUME IInv, Asked, NEW c \in Callers, at[c].pc \notin Final \union {"idle"}
    PROVE  /\ Proper(info, at[c], past[c].begun) /\ Fields(at[c]) /\ IsSeq(at[c].got) /\ IsSeq(at[c].held)
           /\ at[c].call \in CallsOf[c] /\ Fits(at[c], past[c].begun, cursor) /\ DOMAIN at = Callers
<1>1. Fits(at[c], past[c].begun, cursor) /\ at[c].call \in CallsOf[c] /\ Fields(at[c]) /\ DOMAIN at = Callers
  BY ActiveFacts
<1>2. IsSeq(at[c].got) /\ IsSeq(at[c].held)
  BY <1>1 DEF Fits
<1> QED BY <1>1, <1>2 DEF Asked

\* A failed transfer changes the control point only.
LEMMA GaveProper ==
    ASSUME NEW i, NEW r, NEW b, Proper(i, r, b), Fields(r), r.pc \notin Final \union {"idle"}
    PROVE  Proper(i, Gave(r), b)
<1> DEFINE x == IF r.call.op = "get" THEN "emit" ELSE "failed"
           q == [r EXCEPT !.pc = x]
<1>1. q = Gave(r) /\ x \notin {"next", "yield"}
  BY DEF Gave
<1> HIDE DEF x
<1>2. q.pc = x /\ q.call = r.call /\ q.req = r.req /\ q.got = r.got /\ q.held = r.held
  BY DEF Fields
<1> HIDE DEF q
<1>3. Proper(i, q, b)
  BY <1>1, <1>2, MovedProper
<1> QED BY <1>1, <1>3

\* So does an exchange that fails.
LEMMA StopProper ==
    ASSUME NEW i, NEW r, NEW b, Proper(i, r, b), Fields(r), r.pc \notin Final \union {"idle"},
           NEW x, x \in {"next", "yield"} => r.pc \in {"next", "yield"}
    PROVE  Proper(i, [r EXCEPT !.pc = x], b)
<1> DEFINE q == [r EXCEPT !.pc = x]
<1>1. q.pc = x /\ q.call = r.call /\ q.req = r.req /\ q.got = r.got /\ q.held = r.held
  BY DEF Fields
<1> HIDE DEF q
<1>2. Proper(i, q, b)
  BY <1>1, MovedProper
<1> QED BY <1>2 DEF q

\* An assertion is received.
LEMMA ReceivedProper ==
    ASSUME NEW r, NEW b, NEW d, Proper(info, r, b), Fields(r), r.pc \notin Final \union {"idle"},
           IsSeq(r.got), IsSeq(r.held), r.call.op # "make", NEW item,
           r.call.op = "get" => /\ IsFiniteSet(r.call.allow)
                                /\ r.call.allow # {} => item \in r.call.allow
                                /\ r.call.allow # {} => \A n \in 1..Len(d) : d[n] \in r.call.allow,
           NEW q \in Received(r, item)
    PROVE  Proper(info, q, d)
<1>1. CASE r.call.op # "get"
  <2> DEFINE g == Append(r.got, [item |-> item])
  <2>1. q = [r EXCEPT !.pc = "yield", !.got = g]
    BY <1>1 DEF Received
  <2> HIDE DEF g
  <2>2. q.call = r.call
    BY <2>1 DEF Fields
  <2> QED BY <1>1, <2>2, PlainProper
<1>2. CASE r.call.op = "get"
  <2> DEFINE k == r.call
  <2>1. PICK o \in Deviations(Answer(item, r.call, r.req)) :
           LET w == getOutputs(r.call.x, r.req, o)
               a == [item |-> item, outs |-> w.outs, secrets |-> w.secrets, blob |-> None,
                     written |-> FALSE, key |-> "largeBlobKey" \in o.outs]
               h == [r EXCEPT !.held = Append(@, a)]
           IN  q = IF ~w.ok THEN [r EXCEPT !.pc = "failed"]
                   ELSE IF Legacy(r) THEN [h EXCEPT !.pc = Continue(h, Len(h.held))]
                   ELSE [r EXCEPT !.pc = "yield", !.got = Append(@, a)]
    BY <1>2, Zenon DEF Received
  <2> DEFINE w == getOutputs(r.call.x, r.req, o)
             key == "largeBlobKey" \in o.outs
             a == [item |-> item, outs |-> w.outs, secrets |-> w.secrets, blob |-> None,
                   written |-> FALSE, key |-> key]
             h == [r EXCEPT !.held = Append(@, a)]
  <2>2. \/ ~w.ok /\ q = [r EXCEPT !.pc = "failed"]
        \/ w.ok /\ q = [h EXCEPT !.pc = Continue(h, Len(h.held))]
        \/ w.ok /\ q = [r EXCEPT !.pc = "yield", !.got = Append(@, a)]
    BY <2>1
  <2>3. r.req = getExtensions(info, k.x, k.by, k.up, k.allow) /\ r.req.ok
    BY <1>2 DEF Proper
  <2>4. ASSUME w.ok PROVE Right(a, k)
    <3>1. /\ w.outs \subseteq k.x.ask
          /\ "prf" \in w.outs /\ w.secrets # <<>> =>
                w.secrets = Secrets(item, TRUE,
                                    prfSalts(selectPRFEvaluationForCredential(k.x.prf, item)))
      <4> DEFINE e == r.req
      <4>1. /\ e = getExtensions(info, k.x, k.by, k.up, k.allow) /\ e.ok
            /\ o \in Deviations(Answer(item, k, e)) /\ w = getOutputs(k.x, e, o) /\ w.ok
            /\ IsFiniteSet(k.allow) /\ (k.allow # {} => item \in k.allow)
        BY <1>2, <2>1, <2>3, <2>4
      <4> HIDE DEF e, w, k
      <4> QED BY <4>1, AssertionRight
    <3> HIDE DEF w, key
    <3>2. /\ {"item", "outs", "secrets"} \subseteq DOMAIN a /\ a.item = item /\ a.outs = w.outs
          /\ a.secrets = w.secrets
      OBVIOUS
    <3> HIDE DEF a
    <3> QED BY <3>1, <3>2 DEF Right
  <2>5. /\ \A n \in 1..Len(r.got) : Right(r.got[n], k)
        /\ \A n \in 1..Len(r.held) : Right(r.held[n], k)
    BY <1>2 DEF Proper
  <2>6. k.allow # {} => \A n \in 1..Len(d) : d[n] \in k.allow
    BY <1>2
  <2> HIDE DEF w, a, key
  <2>7. ASSUME NEW s, IsSeq(s), \A n \in 1..Len(s) : Right(s[n], k), Right(a, k)
        PROVE  \A n \in 1..Len(Append(s, a)) : Right(Append(s, a)[n], k)
    <3> DEFINE t == Append(s, a)
    <3>1. /\ Len(t) = Len(s) + 1 /\ t[Len(s) + 1] = a /\ \A n \in 1..Len(s) : t[n] = s[n]
          /\ Len(s) \in Nat
      BY <2>7, AppendFacts, SeqFacts
    <3> HIDE DEF t
    <3> SUFFICES ASSUME NEW n \in 1..Len(t) PROVE Right(t[n], k)
      BY DEF t
    <3>2. CASE n = Len(s) + 1
      BY <2>7, <3>1, <3>2
    <3>3. CASE n \in 1..Len(s)
      BY <2>7, <3>1, <3>3
    <3> QED BY <3>1, <3>2, <3>3
  <2>8. CASE ~w.ok /\ q = [r EXCEPT !.pc = "failed"]
    <3>1. q.call = r.call /\ q.req = r.req /\ q.got = r.got /\ q.held = r.held /\ q.pc = "failed"
      BY <2>8 DEF Fields
    <3> QED BY <1>2, <2>5, <3>1, NextProper
  <2>9. CASE w.ok /\ q = [h EXCEPT !.pc = Continue(h, Len(h.held))]
    <3> DEFINE g == Append(r.held, a)
               x == Continue(h, Len(h.held))
    <3>1. h = [r EXCEPT !.held = g] /\ q = [h EXCEPT !.pc = x]
      BY <2>9
    <3>2. \A n \in 1..Len(g) : Right(g[n], k)
      BY <2>4, <2>5, <2>7, <2>9
    <3> HIDE DEF g, x, h
    <3>3. q.call = r.call /\ q.req = r.req /\ q.got = r.got /\ q.held = g
      BY <3>1 DEF Fields
    <3> QED BY <1>2, <2>5, <2>6, <3>2, <3>3, NextProper
  <2>10. CASE w.ok /\ q = [r EXCEPT !.pc = "yield", !.got = Append(@, a)]
    <3> DEFINE g == Append(r.got, a)
    <3>1. q = [r EXCEPT !.pc = "yield", !.got = g]
      BY <2>10
    <3>2. \A n \in 1..Len(g) : Right(g[n], k)
      BY <2>4, <2>5, <2>7, <2>10
    <3> HIDE DEF g
    <3>3. q.call = r.call /\ q.req = r.req /\ q.got = g /\ q.held = r.held
      BY <3>1 DEF Fields
    <3> QED BY <1>2, <2>5, <2>6, <3>2, <3>3, NextProper
  <2> QED BY <2>2, <2>8, <2>9, <2>10
<1> QED BY <1>1, <1>2

\* A call is made: its request is checked before the lock is taken.
LEMMA CallAsked ==
    ASSUME IInv, Asked, NEW c \in Callers, NEW k \in CallsOf[c], Call(c, k)
    PROVE  Asked'
<1>1. /\ at[c].pc = "idle" /\ DOMAIN at = Callers /\ PastShape /\ UNCHANGED info
      /\ Fits(at[c], past[c].begun, cursor)
  BY DEF Call, IInv, Enumerating
<1>2. Fields(at[c]) /\ at[c].got = <<>> /\ at[c].held = <<>> /\ at[c].call.op = "none"
  BY <1>1 DEF Fits, Phase
<1>3. \A d \in Callers \ {c} : past'[d] = past[d]
  BY <1>1 DEF Call, PastShape
<1>4. (\A d \in Callers \ {c} : at'[d] = at[d]) /\ Proper(info, at'[c], past'[c].begun)
  <2>1. CASE Allowed(k)
    <3> DEFINE x == FirstStep(k)
               y == Request(k)
               z == IF k.op = "set" THEN Serialized(k.blobs) ELSE <<>>
    <3>1. at' = [at EXCEPT ![c] = [@ EXCEPT !.pc = x, !.call = k, !.req = y, !.buf = z]]
      BY <2>1 DEF Call
    <3>2. k.op \in {"make", "get"} => x \notin {"next", "yield"}
      BY DEF FirstStep
    <3>3. /\ k.op = "make" => y = createExtensions(info, k.x, k.by, k.rk) /\ y.ok
          /\ k.op = "get" => y = getExtensions(info, k.x, k.by, k.up, k.allow) /\ y.ok
      <4>1. k.op = "make" => Request(k) = createExtensions(info, k.x, k.by, k.rk) /\ Request(k).ok
        BY <2>1 DEF Request, Allowed, Acceptable
      <4>2. k.op = "get" => Request(k) = getExtensions(info, k.x, k.by, k.up, k.allow) /\ Request(k).ok
        BY <2>1 DEF Request, Allowed, Acceptable
      <4> QED BY <4>1, <4>2
    <3> HIDE DEF x, y, z
    <3>4. /\ \A d \in Callers \ {c} : at'[d] = at[d]
          /\ at'[c] = [at[c] EXCEPT !.pc = x, !.call = k, !.req = y, !.buf = z]
      BY <1>1, <3>1
    <3>5. /\ at'[c].pc = x /\ at'[c].call = k /\ at'[c].req = y
          /\ at'[c].got = <<>> /\ at'[c].held = <<>>
      BY <1>2, <3>4 DEF Fields
    <3> DEFINE q == at'[c]
    <3>6. q.pc = x /\ q.call = k /\ q.req = y /\ q.got = <<>> /\ q.held = <<>>
      BY <3>5
    <3> HIDE DEF q
    <3>7. Proper(info, q, past'[c].begun)
      BY <3>2, <3>3, <3>6, SeqFacts DEF Proper
    <3> QED BY <3>4, <3>7 DEF q
  <2>2. CASE ~Allowed(k)
    <3>1. at' = [at EXCEPT ![c].pc = "refused"]
      BY <2>2 DEF Call
    <3>2. /\ \A d \in Callers \ {c} : at'[d] = at[d]
          /\ at'[c] = [at[c] EXCEPT !.pc = "refused"]
      BY <1>1, <3>1
    <3>3. at'[c].call = at[c].call
      BY <1>2, <3>2, SetPc
    <3> QED BY <1>2, <3>2, <3>3, PlainProper
  <2> QED BY <2>1, <2>2
<1> SUFFICES ASSUME NEW d \in Callers PROVE Proper(info', at'[d], past'[d].begun)
  BY DEF Asked
<1>5. CASE d = c
  BY <1>1, <1>4, <1>5
<1>6. CASE d # c
  <2>1. Proper(info, at[d], past[d].begun)
    BY DEF Asked
  <2> QED BY <1>1, <1>3, <1>4, <1>6, <2>1
<1> QED BY <1>5, <1>6

\* The key agreement.
LEMMA KeyAgreementAsked == ASSUME IInv, Asked, NEW c \in Callers, KeyAgreement(c) PROVE Asked'
<1> DEFINE r == at[c]
           x == IF at[c].req.rest THEN "begin" ELSE "failed"
           q == [r EXCEPT !.pc = x]
<1>1. r.pc = "keys" /\ Step(c, {q}) /\ UNCHANGED past /\ UNCHANGED info
  BY DEF KeyAgreement
<1>2. r.pc \notin Final \union {"idle"} /\ x \notin {"next", "yield"}
  BY <1>1 DEF Final
<1>3. Proper(info, r, past[c].begun) /\ Fields(r) /\ DOMAIN at = Callers
  BY <1>2, AskedFacts
<1>4. Proper(info, q, past[c].begun)
  <2> HIDE DEF x
  <2> QED BY <1>2, <1>3, StopProper
<1> HIDE DEF q, x
<1> QED BY <1>1, <1>4, AskedStep

\* MakeCredential.
LEMMA MakeCredentialAsked == ASSUME IInv, Asked, NEW c \in Callers, MakeCredential(c) PROVE Asked'
<1> DEFINE r == at[c]
           k == at[c].call
           accept(o) ==
               LET w == createOutputs(k.x, at[c].req, o)
               IN  IF ~w.ok THEN [at[c] EXCEPT !.pc = "failed"]
                   ELSE [at[c] EXCEPT !.pc = "done",
                           !.got = <<[outs |-> w.outs, secrets |-> w.secrets,
                                      level |-> o.level, supported |-> w.supported]>>]
           rs == {accept(o) : o \in Deviations(Answer("new", k, at[c].req))}
<1>1. r.pc = "begin" /\ k.op = "make" /\ Step(c, rs) /\ UNCHANGED past /\ UNCHANGED info
  BY DEF MakeCredential
<1>2. r.pc \notin Final \union {"idle"}
  BY <1>1 DEF Final
<1>3. Proper(info, r, past[c].begun) /\ Fields(r) /\ k \in CallsOf[c]
  BY <1>2, AskedFacts
<1>4. r.req = createExtensions(info, k.x, k.by, k.rk) /\ r.req.ok /\ k.x.level \in Nat
  <2>1. r.req = createExtensions(info, k.x, k.by, k.rk) /\ r.req.ok
    BY <1>1, <1>2, <1>3 DEF Proper
  <2> QED BY <1>1, <1>3, <2>1, CallsAssumption
<1>5. ASSUME NEW q \in rs PROVE Proper(info, q, past[c].begun)
  <2>1. PICK o \in Deviations(Answer("new", k, r.req)) : q = accept(o)
    BY <1>5
  <2> DEFINE w == createOutputs(k.x, r.req, o)
             m == [outs |-> w.outs, secrets |-> w.secrets, level |-> o.level,
                   supported |-> w.supported]
  <2>2. \/ q = [r EXCEPT !.pc = "failed"]
        \/ w.ok /\ q = [r EXCEPT !.pc = "done", !.got = <<m>>]
    BY <2>1
  <2> HIDE DEF rs, accept
  <2>3. CASE q = [r EXCEPT !.pc = "failed"]
    <3> DEFINE x == "failed"
    <3>1. x \notin {"next", "yield"} /\ q = [r EXCEPT !.pc = x]
      BY <2>3
    <3> HIDE DEF x
    <3> QED BY <1>2, <1>3, <3>1, StopProper
  <2>4. CASE w.ok /\ q = [r EXCEPT !.pc = "done", !.got = <<m>>]
    <3>1. Made(m, k)
      <4> DEFINE e == r.req
      <4>1. /\ e = createExtensions(info, k.x, k.by, k.rk) /\ e.ok
            /\ o \in Deviations(Answer("new", k, e)) /\ w = createOutputs(k.x, e, o) /\ w.ok
        BY <1>4, <2>1, <2>4
      <4> HIDE DEF e, w, k, r
      <4> QED BY <1>4, <4>1, CredentialRight
    <3> DEFINE g == <<m>>
    <3>2. q = [r EXCEPT !.pc = "done", !.got = g]
      BY <2>4
    <3> HIDE DEF m, w
    <3>3. Len(g) = 1 /\ g[1] = m
      BY SeqFacts
    <3> HIDE DEF g
    <3>4. q.call = r.call /\ q.req = r.req /\ q.got = g /\ q.held = r.held /\ q.pc = "done"
      BY <1>3, <3>2 DEF Fields
    <3>5. \A n \in 1..Len(g) : Made(g[n], k)
      BY <3>1, <3>3
    <3> QED BY <1>1, <1>2, <1>3, <3>4, <3>5, NextProper
  <2> QED BY <2>2, <2>3, <2>4
<1> HIDE DEF rs
<1> QED BY <1>1, <1>5, AskedStep

\* The first assertion of an enumeration.
LEMMA BeginAsked == ASSUME IInv, Asked, NEW c \in Callers, Begin(c) PROVE Asked'
<1>1. at[c].pc = "begin" /\ at[c].call.op # "make" /\ UNCHANGED info
  BY DEF Begin
<1>2. at[c].pc \notin Final \union {"idle"}
  BY <1>1 DEF Final
<1>3. /\ Proper(info, at[c], past[c].begun) /\ Fields(at[c]) /\ IsSeq(at[c].got) /\ IsSeq(at[c].held)
      /\ at[c].call \in CallsOf[c] /\ Fits(at[c], past[c].begun, cursor) /\ PastShape
  BY <1>2, AskedFacts DEF IInv
<1>4. at[c].call.op \in Enumerations
  BY <1>1, <1>3 DEF Fits, Phase
<1>5. PICK items \in Items(at[c].call) :
          IF items = <<>>
          THEN Step(c, {[at[c] EXCEPT !.pc = "failed"]}) /\ UNCHANGED past
          ELSE /\ Step(c, Received([at[c] EXCEPT !.total = Len(items)], items[1]))
               /\ past' = [past EXCEPT ![c].begun = items]
  BY DEF Begin
<1>6. /\ IsSeq(items)
      /\ at[c].call.op = "get" /\ at[c].call.allow # {} =>
            \A n \in 1..Len(items) : items[n] \in at[c].call.allow
  BY <1>3, <1>4, ItemsFacts
<1>7. CASE items = <<>>
  <2> DEFINE x == "failed"
             q == [at[c] EXCEPT !.pc = x]
  <2>1. Step(c, {q}) /\ x \notin {"next", "yield"} /\ UNCHANGED past
    BY <1>5, <1>7
  <2> HIDE DEF x
  <2>2. Proper(info, q, past[c].begun)
    BY <1>2, <1>3, <2>1, StopProper
  <2> HIDE DEF q
  <2> QED BY <1>1, <2>1, <2>2, AskedStep
<1>8. CASE items # <<>>
  <2> DEFINE l == Len(items)
             r == [at[c] EXCEPT !.total = l]
             first == items[1]
             rs == Received(r, first)
  <2>1. Step(c, rs) /\ past' = [past EXCEPT ![c].begun = items]
    BY <1>5, <1>8
  <2>2. past'[c].begun = items /\ \A d \in Callers \ {c} : past'[d] = past[d]
    BY <1>3, <2>1 DEF PastShape
  <2>3. l \in Nat \ {0}
    BY <1>6, <1>8, TailFacts
  <2>4. at[c].call.op = "get" /\ at[c].call.allow # {} => first \in at[c].call.allow
    BY <1>6, <2>3
  <2> HIDE DEF l, first
  <2>5. /\ Fields(r) /\ r.call = at[c].call /\ r.req = at[c].req /\ r.pc = at[c].pc
        /\ r.got = at[c].got /\ r.held = at[c].held
    BY <1>3 DEF Fields
  <2> HIDE DEF r
  <2>6. Proper(info, r, past[c].begun)
    BY <1>2, <1>3, <2>5, MovedProper
  <2>7. r.call.op = "get" => /\ IsFiniteSet(r.call.allow)
                             /\ r.call.allow # {} => first \in r.call.allow
                             /\ r.call.allow # {} => \A n \in 1..Len(items) : items[n] \in r.call.allow
    BY <1>3, <1>6, <2>4, <2>5, CallsAssumption
  <2>8. ASSUME NEW q \in rs PROVE Proper(info, q, items)
    BY <1>1, <1>2, <1>3, <2>5, <2>6, <2>7, <2>8, ReceivedProper
  <2> HIDE DEF rs
  <2> QED BY <1>1, <2>1, <2>2, <2>8, AskedStep
<1> QED BY <1>7, <1>8

\* The next assertion: it is one of the credentials the enumeration began with.
LEMMA GetNextAsked == ASSUME IInv, Asked, NEW c \in Callers, GetNext(c) PROVE Asked'
<1> DEFINE r == at[c]
           b == past[c].begun
<1>1. r.pc = "next" /\ UNCHANGED info /\ UNCHANGED past
  BY DEF GetNext
<1>2. r.pc \notin Final \union {"idle"}
  BY <1>1 DEF Final
<1>3. /\ Proper(info, r, b) /\ Fields(r) /\ IsSeq(r.got) /\ IsSeq(r.held)
      /\ r.call \in CallsOf[c] /\ Fits(r, b, cursor) /\ CursorShape
  BY <1>2, AskedFacts DEF IInv
<1>4. CASE cursor.kind = r.call.op /\ cursor.items # <<>>
  <2> DEFINE s == cursor.items
             first == s[1]
             n == Len(r.got) + Len(r.held)
             rs == Received(r, first)
  <2>1. Step(c, rs)
    BY <1>4 DEF GetNext
  <2>2. r.call.op \in Enumerations /\ n < Len(b) /\ Left(cursor, r.call.op, b, n)
    BY <1>1, <1>3 DEF Fits, Phase
  <2>3. n \in Nat
    <3> DEFINE g == r.got
               h == r.held
    <3>1. IsSeq(g) /\ IsSeq(h)
      BY <1>3
    <3> HIDE DEF g, h
    <3>2. Len(g) \in Nat /\ Len(h) \in Nat
      BY <3>1, SeqFacts
    <3>3. Len(g) + Len(h) \in Nat
      BY <3>2
    <3> QED BY <3>3 DEF g, h
  <2>4. IsSeq(s) /\ s # <<>>
    BY <1>3, <1>4 DEF CursorShape
  <2>5. Len(s) \in Nat \ {0}
    BY <2>4, TailFacts
  <2>6. Len(s) = Len(b) - n /\ \A i \in 1..Len(s) : s[i] = b[n + i]
    BY <1>4, <2>2 DEF Left
  <2>7. IsSeq(b) /\ Len(b) \in Nat
    <3>1. IsSeq(b)
      BY DEF IInv, PastShape
    <3> QED BY <3>1, SeqFacts
  <2> HIDE DEF n, s
  <2>8. first = b[n + 1] /\ n + 1 \in 1..Len(b)
    BY <2>2, <2>3, <2>5, <2>6, <2>7
  <2>9. r.call.op = "get" => /\ IsFiniteSet(r.call.allow)
                             /\ r.call.allow # {} => first \in r.call.allow
                             /\ r.call.allow # {} => \A i \in 1..Len(b) : b[i] \in r.call.allow
    <3>1. r.call.op = "get" /\ r.call.allow # {} => \A i \in 1..Len(b) : b[i] \in r.call.allow
      BY <1>1, <1>3 DEF Proper
    <3>2. r.call.op = "get" => IsFiniteSet(r.call.allow)
      BY <1>3, CallsAssumption
    <3> QED BY <2>8, <3>1, <3>2
  <2>10. r.call.op # "make"
    BY <2>2 DEF Enumerations
  <2> HIDE DEF first
  <2>11. ASSUME NEW q \in rs PROVE Proper(info, q, b)
    <3> HIDE DEF r, b
    <3> QED BY <1>2, <1>3, <2>9, <2>10, <2>11, ReceivedProper
  <2> HIDE DEF rs
  <2> QED BY <1>1, <2>1, <2>11, AskedStep
<1>5. CASE ~(cursor.kind = r.call.op /\ cursor.items # <<>>)
  <2> DEFINE x == "failed"
             q == [r EXCEPT !.pc = x]
  <2>1. Step(c, {q}) /\ x \notin {"next", "yield"}
    BY <1>5 DEF GetNext
  <2> HIDE DEF x
  <2>2. Proper(info, q, b)
    BY <1>2, <1>3, <2>1, StopProper
  <2> HIDE DEF q
  <2> QED BY <1>1, <2>1, <2>2, AskedStep
<1> QED BY <1>4, <1>5

\* The consumer goes on, or breaks off.
LEMMA ConsumeAsked == ASSUME IInv, Asked, NEW c \in Callers, Consume(c) PROVE Asked'
<1> DEFINE r == at[c]
           x == Continue(r, Len(r.got))
           y == "broken"
           go == [r EXCEPT !.pc = x]
           stop == [r EXCEPT !.pc = y]
<1>1. r.pc = "yield" /\ Step(c, {go, stop}) /\ UNCHANGED past /\ UNCHANGED info
  BY DEF Consume
<1>2. r.pc \notin Final \union {"idle"}
  BY <1>1 DEF Final
<1>3. Proper(info, r, past[c].begun) /\ Fields(r)
  BY <1>2, AskedFacts
<1> HIDE DEF x, y
<1>4. Proper(info, go, past[c].begun) /\ Proper(info, stop, past[c].begun)
  BY <1>1, <1>2, <1>3, StopProper
<1> HIDE DEF go, stop
<1> QED BY <1>1, <1>4, AskedStep

\* An assertion that was held back is yielded.
LEMMA EmitAsked == ASSUME IInv, Asked, NEW c \in Callers, Emit(c) PROVE Asked'
<1> DEFINE r == at[c]
           k == r.call
           g == Append(r.got, r.held[1])
           h == Tail(r.held)
           e == [r EXCEPT !.got = g, !.held = h]
           rs == {[e EXCEPT !.pc = IF e.held = <<>> THEN "done" ELSE "emit"],
                  [e EXCEPT !.pc = "broken"]}
<1>1. r.pc = "emit" /\ Step(c, rs) /\ UNCHANGED past /\ UNCHANGED info
  BY DEF Emit
<1>2. r.pc \notin Final \union {"idle"}
  BY <1>1 DEF Final
<1>3. /\ Proper(info, r, past[c].begun) /\ Fields(r) /\ IsSeq(r.got) /\ IsSeq(r.held)
      /\ Fits(r, past[c].begun, cursor)
  BY <1>2, AskedFacts
<1>4. k.op = "get" /\ r.held # <<>>
  BY <1>1, <1>3 DEF Fits, Phase
<1>5. /\ \A n \in 1..Len(r.got) : Right(r.got[n], k)
      /\ \A n \in 1..Len(r.held) : Right(r.held[n], k)
  BY <1>3, <1>4 DEF Proper
<1>6. /\ \A n \in 1..Len(g) : Right(g[n], k)
      /\ \A n \in 1..Len(h) : Right(h[n], k)
  <2> DEFINE s == r.got
             t == r.held
  <2>1. /\ IsSeq(s) /\ IsSeq(t) /\ t # <<>> /\ g = Append(s, t[1]) /\ h = Tail(t)
        /\ \A n \in 1..Len(s) : Right(s[n], k)
        /\ \A n \in 1..Len(t) : Right(t[n], k)
    BY <1>3, <1>4, <1>5
  <2> HIDE DEF s, t, g, h
  <2>2. /\ Len(g) = Len(s) + 1 /\ g[Len(s) + 1] = t[1] /\ (\A n \in 1..Len(s) : g[n] = s[n])
        /\ Len(s) \in Nat
    BY <2>1, AppendFacts, SeqFacts
  <2>3. Len(t) \in Nat \ {0} /\ Len(h) = Len(t) - 1 /\ \A n \in 1..Len(h) : h[n] = t[n + 1]
    BY <2>1, TailFacts
  <2>4. ASSUME NEW n \in 1..Len(g) PROVE Right(g[n], k)
    <3>1. CASE n = Len(s) + 1
      <4>1. 1 \in 1..Len(t)
        BY <2>3
      <4> QED BY <2>1, <2>2, <3>1, <4>1
    <3>2. CASE n \in 1..Len(s)
      BY <2>1, <2>2, <3>2
    <3> QED BY <2>2, <3>1, <3>2
  <2>5. ASSUME NEW n \in 1..Len(h) PROVE Right(h[n], k)
    <3>1. n + 1 \in 1..Len(t)
      BY <2>3
    <3> QED BY <2>1, <2>3, <3>1
  <2> QED BY <2>4, <2>5
<1>7. ASSUME NEW q \in rs PROVE Proper(info, q, past[c].begun)
  <2>1. PICK y \in {"done", "emit", "broken"} : q = [e EXCEPT !.pc = y]
    BY <1>7
  <2>2. e = [r EXCEPT !.got = g, !.held = h]
    OBVIOUS
  <2> HIDE DEF g, h, e, rs
  <2>3. q.call = r.call /\ q.req = r.req /\ q.got = g /\ q.held = h /\ q.pc = y
    BY <1>3, <2>1, <2>2 DEF Fields
  <2> QED BY <1>2, <1>3, <1>4, <1>6, <2>1, <2>3, NextProper
<1> HIDE DEF rs
<1> QED BY <1>1, <1>7, AskedStep

\* The array has been read: the assertions get their blobs.
LEMMA ReadArrayProper ==
    ASSUME NEW i, NEW r, NEW b, Proper(i, r, b), Fields(r), r.pc = "read", IsSeq(r.held),
           r.call.op # "make", NEW s
    PROVE  Proper(i, ReadArray(r, s), b)
<1> DEFINE q == ReadArray(r, s)
           k == r.call
           a == Blobs(s)
           next == ReplaceBlob(a, [cred |-> r.held[1].item, content |-> r.call.x.content])
           m == [n \in DOMAIN r.held |->
                   [r.held[n] EXCEPT !.blob = IF r.held[n].key THEN Opened(a, r.held[n].item) ELSE None]]
<1>1. \/ q = Gave(r)
      \/ r.call.op = "read" /\ q = [r EXCEPT !.pc = "done", !.got = <<a>>]
      \/ r.call.op # "read" /\ q = [r EXCEPT !.pc = "emit", !.held = m]
      \/ r.call.op # "read" /\ q = [r EXCEPT !.pc = "write", !.buf = Serialized(next), !.off = 0]
  BY DEF ReadArray
<1>2. r.pc \notin Final \union {"idle"}
  BY DEF Final
<1>3. CASE q = Gave(r)
  BY <1>2, <1>3, GaveProper
<1>4. CASE r.call.op = "read" /\ q = [r EXCEPT !.pc = "done", !.got = <<a>>]
  <2> DEFINE g == <<a>>
  <2>1. q = [r EXCEPT !.pc = "done", !.got = g]
    BY <1>4
  <2> HIDE DEF g, q
  <2>2. q.call = r.call
    BY <2>1 DEF Fields
  <2> QED BY <1>4, <2>2, PlainProper DEF q
<1>5. CASE r.call.op # "read" /\ q = [r EXCEPT !.pc = "emit", !.held = m]
  <2>1. Len(r.held) \in Nat /\ DOMAIN r.held = 1..Len(r.held)
    BY SeqFacts
  <2>2. DOMAIN m = 1..Len(r.held) /\ m = [n \in 1..Len(r.held) |-> m[n]]
    BY <2>1
  <2>3. Len(m) = Len(r.held)
    <3> HIDE DEF m
    <3> QED BY <2>1, <2>2, MapFacts
  <2>4. ASSUME k.op = "get", NEW n \in 1..Len(m) PROVE Right(m[n], k)
    <3> DEFINE y == IF r.held[n].key THEN Opened(a, r.held[n].item) ELSE None
               z == r.held[n]
    <3>1. m[n] = [z EXCEPT !.blob = y]
      BY <2>1, <2>3, <2>4
    <3>2. Right(z, k)
      BY <2>3, <2>4 DEF Proper
    <3> HIDE DEF y, z, m, k
    <3>3. Right([z EXCEPT !.blob = y], k)
      BY <3>2, RightExcept
    <3> QED BY <3>1, <3>3
  <2>5. q.pc = "emit" /\ q.call = r.call /\ q.req = r.req /\ q.got = r.got /\ q.held = m
    <3> HIDE DEF m, q
    <3> QED BY <1>5 DEF Fields
  <2>6. k.op = "get" => \A n \in 1..Len(r.got) : Right(r.got[n], k)
    BY DEF Proper
  <2> HIDE DEF m, q
  <2>7. Proper(i, q, b)
    BY <1>2, <2>4, <2>5, <2>6, NextProper
  <2> QED BY <2>7 DEF q
<1>6. CASE r.call.op # "read" /\ q = [r EXCEPT !.pc = "write", !.buf = Serialized(next), !.off = 0]
  <2> DEFINE d == Serialized(next)
  <2>1. q = [r EXCEPT !.pc = "write", !.buf = d, !.off = 0]
    BY <1>6
  <2> HIDE DEF d, q
  <2>2. q.pc = "write" /\ q.call = r.call /\ q.req = r.req /\ q.got = r.got /\ q.held = r.held
    BY <2>1 DEF Fields
  <2>3. Proper(i, q, b)
    BY <1>2, <2>2, MovedProper
  <2> QED BY <2>3 DEF q
<1> HIDE DEF q, m, a, next
<1>7. Proper(i, q, b)
  BY <1>1, <1>3, <1>4, <1>5, <1>6 DEF q
<1> QED BY <1>7 DEF q

\* A fragment is read.
LEMMA ReadFragmentAsked == ASSUME IInv, Asked, NEW c \in Callers, ReadFragment(c) PROVE Asked'
<1> DEFINE r == at[c]
           b == past[c].begun
           piece == Piece(Serialized(array), r.off)
           s == r.buf \o piece
           more == [r EXCEPT !.buf = s, !.off = @ + Len(piece)]
           all == ReadArray(r, s)
           gave == Gave(r)
           left == [r EXCEPT !.pc = "failed"]
<1>0. /\ r.pc = "read" /\ UNCHANGED past /\ UNCHANGED info
      /\ \/ Step(c, {gave}) \/ Step(c, {more})
         \/ Step(c, {all} \union Unresolved(r, s))
  BY DEF ReadFragment
<1>1. /\ r.pc = "read" /\ UNCHANGED past /\ UNCHANGED info
      /\ Step(c, {gave}) \/ Step(c, {more}) \/ Step(c, {all}) \/ Step(c, {left})
  <2> HIDE DEF s, more, all, gave
  <2> QED BY <1>0, ResolveStep
<1>2. r.pc \notin Final \union {"idle"}
  BY <1>1 DEF Final
<1>3. Proper(info, r, b) /\ Fields(r) /\ IsSeq(r.held) /\ Fits(r, b, cursor)
  BY <1>2, AskedFacts
<1>4. Proper(info, gave, b)
  BY <1>2, <1>3, GaveProper
<1>5. Proper(info, more, b)
  <2> DEFINE o == r.off + Len(piece)
  <2>1. more = [r EXCEPT !.buf = s, !.off = o]
    OBVIOUS
  <2> HIDE DEF s, o, more
  <2>2. more.pc = r.pc /\ more.call = r.call /\ more.req = r.req /\ more.got = r.got /\ more.held = r.held
    BY <1>3, <2>1 DEF Fields
  <2> HIDE DEF r, b
  <2> QED BY <1>2, <1>3, <2>2, MovedProper
<1>6. Proper(info, all, b)
  <2>1. r.call.op # "make"
    BY <1>1, <1>3 DEF Fits, Phase
  <2> HIDE DEF s, r, b
  <2> QED BY <1>1, <1>3, <2>1, ReadArrayProper
<1>7. Proper(info, left, b)
  BY <1>2, <1>3, StopProper
<1> HIDE DEF gave, more, all, left
<1> QED BY <1>1, <1>4, <1>5, <1>6, <1>7, AskedStep

\* A fragment is written: the assertion is marked as written.
LEMMA WriteFragmentAsked == ASSUME IInv, Asked, NEW c \in Callers, WriteFragment(c) PROVE Asked'
<1> DEFINE r == at[c]
           b == past[c].begun
           piece == Piece(r.buf, r.off)
           p == IF r.off = 0 THEN [data |-> piece, length |-> Len(r.buf)]
                ELSE [partial EXCEPT !.data = @ \o piece]
           last == r.off + Len(piece) = Len(r.buf)
           sent == [r EXCEPT !.off = @ + Len(piece), !.pc = IF last THEN "done" ELSE "write"]
           ok == IF last /\ r.call.op = "get"
                 THEN [sent EXCEPT !.pc = "emit", !.held[1].written = TRUE] ELSE sent
           gave == Gave(r)
<1>1. /\ r.pc = "write" /\ cursor' = NoCursor /\ UNCHANGED info
      /\ UNCHANGED past \/ past' = [d \in Callers |-> [past[d] EXCEPT !.seen = @ \union {Blobs(p.data)}]]
      /\ Step(c, {ok}) \/ Step(c, {gave}) \/ Step(c, {ok, gave})
  BY DEF WriteFragment, Commit
<1>2. r.pc \notin Final \union {"idle"}
  BY <1>1 DEF Final
<1>3. Proper(info, r, b) /\ Fields(r) /\ IsSeq(r.held) /\ Fits(r, b, cursor)
  BY <1>2, AskedFacts
<1>4. past'[c].begun = b /\ \A d \in Callers \ {c} : past'[d].begun = past[d].begun
  <2> DEFINE a == Blobs(p.data)
  <2> HIDE DEF a
  <2>1. UNCHANGED past \/ past' = [d \in Callers |-> [past[d] EXCEPT !.seen = @ \union {a}]]
    BY <1>1 DEF a
  <2> QED BY <1>1, <2>1, KeptFacts DEF Kept
<1>5. Proper(info, gave, b)
  BY <1>2, <1>3, GaveProper
<1>6. Proper(info, ok, b)
  <2> DEFINE o == r.off + Len(piece)
             y == IF last THEN "done" ELSE "write"
  <2>1. sent = [r EXCEPT !.off = o, !.pc = y] /\ y \notin {"next", "yield"}
    OBVIOUS
  <2>2. \/ r.call.op = "get" /\ ok = [sent EXCEPT !.pc = "emit", !.held[1].written = TRUE]
        \/ ok = sent
    OBVIOUS
  <2> HIDE DEF o, y, sent, ok, last, gave, p, piece
  <2>3. sent.pc = y /\ sent.call = r.call /\ sent.req = r.req /\ sent.got = r.got /\ sent.held = r.held
        /\ Fields(sent)
    BY <1>3, <2>1 DEF Fields
  <2>4. CASE ok = sent
    <3> HIDE DEF r, b
    <3> QED BY <1>2, <1>3, <2>1, <2>3, <2>4, MovedProper
  <2>5. CASE r.call.op = "get" /\ ok = [sent EXCEPT !.pc = "emit", !.held[1].written = TRUE]
    <3> DEFINE h == [r.held EXCEPT ![1].written = TRUE]
    <3>1. ok.pc = "emit" /\ ok.call = r.call /\ ok.req = r.req /\ ok.got = r.got /\ ok.held = h
      <4>1. ok = [sent EXCEPT !.pc = "emit", !.held = [sent.held EXCEPT ![1].written = TRUE]]
        BY <2>5
      <4>2. ok = [sent EXCEPT !.pc = "emit", !.held = h]
        BY <2>3, <4>1
      <4> HIDE DEF h, r
      <4>3. ok.pc = "emit" /\ ok.call = sent.call /\ ok.req = sent.req /\ ok.got = sent.got /\ ok.held = h
        BY <2>3, <4>2 DEF Fields
      <4> QED BY <2>3, <4>3
    <3>2. Len(r.held) \in Nat /\ DOMAIN r.held = 1..Len(r.held)
      BY <1>3, SeqFacts
    <3>3. DOMAIN h = 1..Len(r.held) /\ h = [n \in 1..Len(r.held) |-> h[n]]
      BY <3>2
    <3>4. Len(h) = Len(r.held)
      <4> HIDE DEF h
      <4> QED BY <3>2, <3>3, MapFacts
    <3>5. /\ \A n \in 1..Len(r.got) : Right(r.got[n], r.call)
          /\ \A n \in 1..Len(r.held) : Right(r.held[n], r.call)
      BY <1>3, <2>5 DEF Proper
    <3>6. ASSUME NEW n \in 1..Len(h) PROVE Right(h[n], r.call)
      <4>1. CASE n # 1
        <5>1. h[n] = r.held[n]
          BY <3>2, <3>4, <4>1
        <5> QED BY <3>4, <3>5, <5>1
      <4>2. CASE n = 1
        <5> DEFINE x == r.held[n]
                   k == r.call
                   t == TRUE
        <5>1. h[n] = [x EXCEPT !.written = t]
          BY <3>2, <3>4, <4>2
        <5>2. Right(x, k)
          BY <3>4, <3>5
        <5> HIDE DEF x, h, k, t
        <5>3. Right([x EXCEPT !.written = t], k)
          BY <5>2, RightExcept
        <5> QED BY <5>1, <5>3 DEF k
      <4> QED BY <4>1, <4>2
    <3> HIDE DEF h
    <3>7. r.call.op = "get"
      BY <2>5
    <3> HIDE DEF r, b
    <3> QED BY <1>2, <1>3, <3>1, <3>5, <3>6, <3>7, NextProper
  <2> QED BY <2>2, <2>4, <2>5
<1> HIDE DEF ok, gave, p, sent, last, piece
<1> QED BY <1>1, <1>4, <1>5, <1>6, AskedStep

\* An exchange fails.
LEMMA FailAsked == ASSUME IInv, Asked, NEW c \in Callers, Fail(c) PROVE Asked'
<1> DEFINE r == at[c]
           x == "failed"
           stop == [r EXCEPT !.pc = x]
           gave == Gave(r)
<1>1. /\ r.pc \in {"keys", "begin", "next", "read", "write"}
      /\ Step(c, {gave}) \/ Step(c, {stop})
      /\ past' = [past EXCEPT ![c].hurt = TRUE] /\ UNCHANGED cursor /\ UNCHANGED info
  BY DEF Fail, authenticator
<1>2. r.pc \notin Final \union {"idle"} /\ x \notin {"next", "yield"}
  BY <1>1 DEF Final
<1>3. Proper(info, r, past[c].begun) /\ Fields(r)
  BY <1>2, AskedFacts
<1>4. past'[c].begun = past[c].begun /\ \A d \in Callers \ {c} : past'[d].begun = past[d].begun
  BY <1>1, KeptFacts DEF Kept
<1> HIDE DEF x
<1>5. Proper(info, gave, past[c].begun) /\ Proper(info, stop, past[c].begun)
  BY <1>2, <1>3, GaveProper, StopProper
<1> HIDE DEF gave, stop
<1> QED BY <1>1, <1>4, <1>5, AskedStep

\* The second invariant: what MakeCredential and GetAssertion have is as asked.
THEOREM AskedInvariance == Spec => []Asked
<1>1. Init => Asked
  <2> SUFFICES ASSUME Init, NEW c \in Callers PROVE Proper(info, at[c], past[c].begun)
    BY DEF Asked
  <2>1. at[c] = Start
    BY DEF Init
  <2>2. Start.call.op = "none"
    BY DEF Start
  <2> QED BY <2>1, <2>2, PlainProper
<1>2. ASSUME IInv, Asked, [Next]_vars PROVE Asked'
  <2>1. CASE UNCHANGED vars
    BY <1>2, <2>1 DEF vars, Asked
  <2>2. ASSUME NEW c \in Callers, NEW k \in CallsOf[c], Call(c, k) PROVE Asked'
    BY <1>2, <2>2, CallAsked
  <2>3. ASSUME NEW c \in Callers, CallerStep(c) PROVE Asked'
    BY <1>2, <2>3, KeyAgreementAsked, MakeCredentialAsked, BeginAsked, GetNextAsked, ConsumeAsked,
       EmitAsked, ReadFragmentAsked, WriteFragmentAsked, FailAsked DEF CallerStep
  <2>4. CASE OtherPlatform
    <3>1. UNCHANGED <<info, at>> /\ PastShape
      BY <1>2, <2>4 DEF OtherPlatform, IInv
    <3>2. \A c \in Callers : past'[c].begun = past[c].begun
      BY <2>4, <3>1, OtherPlatformPast
    <3> QED BY <1>2, <3>1, <3>2 DEF Asked
  <2> QED BY <1>2, <2>1, <2>2, <2>3, <2>4 DEF Next, Terminated
<1> QED BY <1>1, <1>2, Invariance, PTL DEF Spec

\* Whichever credential answers, the PRF results that GetAssertion yields with
\* it are the user-verified ones of the inputs meant for it.
THEOREM PRFOfTheCredential == Spec => []PRFPerCredential
<1>1. ASSUME IInv, Asked PROVE PRFPerCredential
  <2> SUFFICES ASSUME NEW c \in Callers, at[c].call.op = "get", NEW k \in DOMAIN at[c].got
               PROVE  LET a == at[c].got[k]
                          meant == prfSalts(selectPRFEvaluationForCredential(at[c].call.x.prf, a.item))
                      IN  "prf" \in a.outs /\ a.secrets # <<>> => a.secrets = Secrets(a.item, TRUE, meant)
    BY DEF PRFPerCredential
  <2>1. DOMAIN at[c].got = 1..Len(at[c].got)
    BY <1>1, SeqFacts DEF IInv, Enumerating, Fits
  <2>2. Right(at[c].got[k], at[c].call)
    BY <1>1, <2>1 DEF Asked, Proper
  <2> QED BY <2>2 DEF Right
<1> QED BY <1>1, Invariance, AskedInvariance, PTL

\* MakeCredential and GetAssertion return only what was asked for, and a
\* credential only with what was required of it, whatever the authenticator
\* adds to its answer, leaves out or changes in it.
THEOREM OutputsRight == Spec => []OutputsAsAsked
<1>1. ASSUME IInv, Asked PROVE OutputsAsAsked
  <2> SUFFICES ASSUME NEW c \in Callers, at[c].call.op \in {"make", "get"}, NEW k \in DOMAIN at[c].got
               PROVE  /\ at[c].got[k].outs \subseteq at[c].call.x.ask
                      /\ at[c].call.op = "make" => Made(at[c].got[k], at[c].call)
    BY DEF OutputsAsAsked, Made
  <2>1. DOMAIN at[c].got = 1..Len(at[c].got)
    BY <1>1, SeqFacts DEF IInv, Enumerating, Fits
  <2>2. CASE at[c].call.op = "get"
    <3>1. Right(at[c].got[k], at[c].call)
      BY <1>1, <2>1, <2>2 DEF Asked, Proper
    <3> QED BY <2>2, <3>1 DEF Right
  <2>3. CASE at[c].call.op = "make"
    <3>1. Made(at[c].got[k], at[c].call)
      BY <1>1, <2>1, <2>3 DEF Asked, Proper
    <3> QED BY <3>1 DEF Made
  <2> QED BY <2>2, <2>3
<1> QED BY <1>1, Invariance, AskedInvariance, PTL

-----------------------------------------------------------------------------
(* The large-blob array.                                                   *)

IsBlob(e) == "cred" \in DOMAIN e

\* The array a has every blob that was confirmed as written.
Keeps(a, w) == \A v \in w : Opened(a, v[1]) = v[2]

\* The blob of an assertion, if it has one, is the one the array a has for it.
Found(e, a) == {"blob", "item"} \subseteq DOMAIN e /\ e.blob \in {None, Opened(a, e.item)}
Finds(r, a) == /\ \A n \in 1..Len(r.got) : Found(r.got[n], a)
               /\ \A n \in 1..Len(r.held) : Found(r.held[n], a)

\* A reader that has seen the arrays S has units of theirs, and, undisturbed,
\* the first units of the array a.
Reading(r, S, hurt, a) ==
    /\ IsSeq(r.buf) /\ r.off \in Nat
    /\ \A n \in 1..Len(r.buf) : IsBlob(r.buf[n]) \/ \E s \in S : r.buf[n] = Checksum(s)
    /\ hurt # TRUE => /\ Len(r.buf) = r.off /\ r.off <= Len(Serialized(a))
                      /\ \A n \in 1..r.off : r.buf[n] = Serialized(a)[n]

\* A writer has a whole array; that of GetAssertion has the new blob and the
\* confirmed ones w of the other credentials.
Writing(r, w) ==
    /\ IsSeq(r.buf) /\ r.buf # <<>> /\ Whole(r.buf) /\ BlobArray(Blobs(r.buf))
    /\ r.off \in Nat /\ r.off < Len(r.buf)
    /\ r.call.op = "get" =>
          /\ Opened(Blobs(r.buf), r.held[1].item) = r.call.x.content
          /\ Keeps(Blobs(r.buf), {v \in w : v[1] # r.held[1].item})

\* The call r has seen the arrays S, and was disturbed only if hurt; the
\* authenticator has the array a, and the blobs w are confirmed.
Moving(r, S, hurt, a, w) ==
    /\ \A s \in S : BlobArray(s)
    /\ r.pc # "idle" => a \in S
    /\ r.pc \in {"idle", "keys", "begin", "next", "yield"} => r.buf = <<>> /\ r.off = 0
    /\ r.pc \in {"keys", "begin", "next", "yield", "read"} => \A s \in S : Keeps(s, w)
    /\ r.pc = "read" => Reading(r, S, hurt, a)
    /\ r.pc = "write" => Writing(r, w)
    /\ r.call.op = "read" => /\ r.pc = "done" => r.got[1] \in S
                             /\ r.pc = "failed" => hurt = TRUE
    /\ r.call.op = "get" => \E s \in S : Finds(r, s)

PartialShape ==
    partial = [data |-> partial.data, length |-> partial.length] /\ IsSeq(partial.data)

Stored ==
    /\ BlobArray(array) /\ PartialShape /\ Keeps(array, wrote)
    /\ \A c \in Callers : Moving(at[c], past[c].seen, past[c].hurt, array, wrote)

-----------------------------------------------------------------------------
(* Arrays. *)

\* Sequences are equal if they agree everywhere.
LEMMA SeqEqual ==
    ASSUME NEW s, IsSeq(s), NEW t, IsSeq(t), Len(s) = Len(t), \A i \in 1..Len(s) : s[i] = t[i]
    PROVE  s = t
<1> DEFINE S == {s[i] : i \in DOMAIN s}
           T == {t[i] : i \in DOMAIN t}
           U == S \union T
<1>1. s \in Seq(S) /\ t \in Seq(T)
  BY DEF IsSeq
<1>2. s \in Seq(U) /\ t \in Seq(U)
  BY <1>1
<1> HIDE DEF S, T, U
<1> QED BY <1>2

\* One sequence after another.
LEMMA ConcatFacts ==
    ASSUME NEW s, IsSeq(s), NEW t, IsSeq(t)
    PROVE  /\ IsSeq(s \o t) /\ Len(s \o t) = Len(s) + Len(t)
           /\ \A i \in 1..Len(s) : (s \o t)[i] = s[i]
           /\ \A i \in 1..Len(t) : (s \o t)[Len(s) + i] = t[i]
<1> DEFINE S == {s[i] : i \in DOMAIN s}
           T == {t[i] : i \in DOMAIN t}
           U == S \union T
           u == s \o t
<1>1. s \in Seq(S) /\ t \in Seq(T)
  BY DEF IsSeq
<1>2. s \in Seq(U) /\ t \in Seq(U)
  BY <1>1
<1>3. /\ u \in Seq(U) /\ Len(u) = Len(s) + Len(t)
      /\ \A i \in 1..Len(s) : u[i] = s[i]
      /\ \A i \in 1..Len(t) : u[Len(s) + i] = t[i]
  <2> HIDE DEF S, T, U
  <2> QED BY <1>2
<1>4. IsSeq(u)
  BY <1>3, SeqIsSeq
<1> QED BY <1>3, <1>4

\* A part of a sequence.
LEMMA SubSeqFacts ==
    ASSUME NEW s, IsSeq(s), NEW m \in Nat \ {0}, NEW n \in Nat, m <= n + 1, n <= Len(s)
    PROVE  /\ IsSeq(SubSeq(s, m, n)) /\ Len(SubSeq(s, m, n)) = n + 1 - m
           /\ \A i \in 1..(n + 1 - m) : SubSeq(s, m, n)[i] = s[m - 1 + i]
<1> DEFINE S == {s[i] : i \in DOMAIN s}
           u == SubSeq(s, m, n)
<1>1. s \in Seq(S)
  BY DEF IsSeq
<1>2. /\ u \in Seq(S) /\ Len(u) = n + 1 - m
      /\ \A i \in 1..(n + 1 - m) : u[i] = s[m - 1 + i]
  <2> HIDE DEF S
  <2> QED BY <1>1
<1>3. IsSeq(u)
  BY <1>2, SeqIsSeq
<1> QED BY <1>2, <1>3

\* A fragment is short only at the end of the array, and empty only after it.
LEMMA PieceFacts ==
    ASSUME NEW s, IsSeq(s), NEW o \in Nat, o <= Len(s)
    PROVE  /\ IsSeq(Piece(s, o)) /\ Len(Piece(s, o)) \in Nat /\ o + Len(Piece(s, o)) <= Len(s)
           /\ Len(Piece(s, o)) # Fragment => o + Len(Piece(s, o)) = Len(s)
           /\ o < Len(s) => Len(Piece(s, o)) > 0
           /\ \A i \in 1..Len(Piece(s, o)) : Piece(s, o)[i] = s[o + i]
<1>1. Len(s) \in Nat /\ Fragment \in Nat \ {0}
  BY SeqFacts, SessionAssumption
<1> DEFINE n == IF o + Fragment < Len(s) THEN o + Fragment ELSE Len(s)
           m == o + 1
<1>2. /\ n \in Nat /\ o <= n /\ n <= Len(s)
      /\ (n - o # Fragment => n = Len(s)) /\ (o < Len(s) => o < n)
  <2> DEFINE l == Len(s)
  <2>1. l \in Nat /\ o <= l
    BY <1>1
  <2> HIDE DEF l
  <2>2. CASE o + Fragment < l
    <3>1. n = o + Fragment
      BY <2>2 DEF l
    <3> HIDE DEF n
    <3>2. n \in Nat /\ o < n /\ n <= l /\ n - o = Fragment
      BY <1>1, <2>1, <2>2, <3>1
    <3> QED BY <3>2 DEF l
  <2>3. CASE ~(o + Fragment < l)
    <3>1. n = l
      BY <2>3 DEF l
    <3> HIDE DEF n
    <3> QED BY <2>1, <3>1 DEF l
  <2> QED BY <2>2, <2>3
<1>3. Piece(s, o) = SubSeq(s, m, n)
  BY DEF Piece
<1> HIDE DEF n
<1>4. /\ m \in Nat \ {0} /\ m <= n + 1 /\ n + 1 - m = n - o /\ n - o \in Nat /\ m - 1 = o
      /\ (o < n => n - o > 0) /\ o + (n - o) = n
  BY <1>2
<1> HIDE DEF m
<1>5. IsSeq(Piece(s, o)) /\ Len(Piece(s, o)) = n - o
  BY <1>2, <1>3, <1>4, SubSeqFacts
<1>6. \A i \in 1..(n - o) : Piece(s, o)[i] = s[o + i]
  BY <1>2, <1>3, <1>4, SubSeqFacts
<1> QED BY <1>2, <1>4, <1>5, <1>6

\* The units of an array before its checksum.
LEMMA BlobsFacts ==
    ASSUME NEW s, IsSeq(s), s # <<>>
    PROVE  /\ IsSeq(Blobs(s)) /\ Len(s) \in Nat \ {0} /\ Len(Blobs(s)) = Len(s) - 1
           /\ \A i \in 1..(Len(s) - 1) : Blobs(s)[i] = s[i]
<1>1. Len(s) \in Nat \ {0}
  BY SeqFacts
<1> DEFINE n == Len(s) - 1
           m == 1
<1>2. m \in Nat \ {0} /\ n \in Nat /\ m <= n + 1 /\ n <= Len(s) /\ n + 1 - m = n
      /\ \A i \in 1..n : m - 1 + i = i
  BY <1>1
<1>3. Blobs(s) = SubSeq(s, m, n)
  BY DEF Blobs
<1> HIDE DEF n, m
<1>4. IsSeq(Blobs(s)) /\ Len(Blobs(s)) = n /\ \A i \in 1..n : Blobs(s)[i] = s[i]
  BY <1>2, <1>3, SubSeqFacts
<1> QED BY <1>1, <1>4 DEF n

\* A serialized array is whole, and its blobs are the array.
LEMMA SerializedFacts ==
    ASSUME NEW a, IsSeq(a)
    PROVE  /\ IsSeq(Serialized(a)) /\ Serialized(a) # <<>> /\ Len(Serialized(a)) = Len(a) + 1
           /\ Len(a) \in Nat /\ Serialized(a)[Len(a) + 1] = Checksum(a)
           /\ \A i \in 1..Len(a) : Serialized(a)[i] = a[i]
           /\ Blobs(Serialized(a)) = a /\ Whole(Serialized(a))
<1> DEFINE s == Serialized(a)
           x == Checksum(a)
<1>1. s = Append(a, x) /\ Len(a) \in Nat
  BY SeqFacts DEF Serialized
<1> HIDE DEF s, x
<1>2. /\ IsSeq(s) /\ Len(s) = Len(a) + 1 /\ s[Len(a) + 1] = x
      /\ \A i \in 1..Len(a) : s[i] = a[i]
  BY <1>1, AppendFacts
<1>3. s # <<>>
  BY <1>1, <1>2, SeqFacts
<1>4. IsSeq(Blobs(s)) /\ Len(Blobs(s)) = Len(a) /\ \A i \in 1..Len(a) : Blobs(s)[i] = a[i]
  <2>1. Len(s) - 1 = Len(a)
    BY <1>1, <1>2
  <2>2. /\ IsSeq(Blobs(s)) /\ Len(Blobs(s)) = Len(s) - 1
        /\ \A i \in 1..(Len(s) - 1) : Blobs(s)[i] = s[i]
    BY <1>2, <1>3, BlobsFacts
  <2> QED BY <1>2, <2>1, <2>2
<1>5. Blobs(s) = a
  BY <1>4, SeqEqual
<1>6. Whole(s)
  BY <1>2, <1>3, <1>5 DEF Whole, x
<1> QED BY <1>1, <1>2, <1>3, <1>5, <1>6 DEF s, x

\* Different arrays have different checksums, and no blob is one.
LEMMA ChecksumFacts ==
    /\ \A a, b : Checksum(a) = Checksum(b) => a = b
    /\ \A a : ~IsBlob(Checksum(a))
<1>1. \A a : Checksum(a).sha256 = a /\ DOMAIN Checksum(a) = {"sha256"}
  BY DEF Checksum
<1> QED BY <1>1 DEF IsBlob

\* The first of several places.
LEMMA FirstFacts ==
    ASSUME NEW P, P \subseteq Nat, P # {}
    PROVE  First(P) \in P /\ \A m \in P : First(P) <= m
<1> DEFINE R == OpToRel(<, Nat)
<1>1. IsWellFoundedOn(R, Nat)
  BY NatLessThanWellFounded
<1>2. \A x, y \in Nat : x < y => <<x, y>> \in R
  BY DEF OpToRel
<1> HIDE DEF R
<1>3. PICK x \in P : \A y \in P : ~(<<y, x>> \in R)
  BY <1>1, WFMin
<1>4. \A y \in P : x <= y
  <2> SUFFICES ASSUME NEW y \in P PROVE x <= y
    OBVIOUS
  <2>1. x \in Nat /\ y \in Nat /\ ~(<<y, x>> \in R)
    BY <1>3
  <2>2. ~(y < x)
    BY <1>2, <2>1
  <2> QED BY <2>1, <2>2
<1> QED BY <1>3, <1>4 DEF First

\* The blob that an array has for a credential.
LEMMA OpenedFacts ==
    ASSUME NEW a, IsSeq(a), NEW z
    PROVE  OpensAt(a, z) # {} =>
              /\ First(OpensAt(a, z)) \in 1..Len(a) /\ a[First(OpensAt(a, z))].cred = z
              /\ Opened(a, z) = a[First(OpensAt(a, z))].content
<1> DEFINE P == OpensAt(a, z)
<1>1. DOMAIN a = 1..Len(a) /\ Len(a) \in Nat
  BY SeqFacts
<1>2. P \subseteq Nat /\ P = {k \in 1..Len(a) : a[k].cred = z}
  BY <1>1 DEF OpensAt
<1>3. P # {} => First(P) \in P
  <2> HIDE DEF P
  <2> QED BY <1>2, FirstFacts
<1> HIDE DEF P
<1>4. P # {} => Opened(a, z) = a[First(P)].content
  BY DEF Opened, P
<1> QED BY <1>2, <1>3, <1>4 DEF P

\* Blobs at the same places, with the same contents.
LEMMA SameOpened ==
    ASSUME NEW a, IsSeq(a), NEW b, NEW z, OpensAt(b, z) = OpensAt(a, z),
           \A n \in OpensAt(a, z) : b[n].content = a[n].content
    PROVE  Opened(b, z) = Opened(a, z)
<1> DEFINE P == OpensAt(a, z)
<1>1. DOMAIN a = 1..Len(a) /\ Len(a) \in Nat
  BY SeqFacts
<1>2. P \subseteq Nat
  BY <1>1 DEF OpensAt
<1>3. P # {} => First(P) \in P
  <2> HIDE DEF P
  <2> QED BY <1>2, FirstFacts
<1> QED BY <1>3 DEF Opened

\* The new blob of a credential takes the place of its first one, or is added;
\* the blobs of the other credentials stay.
LEMMA ReplaceFacts ==
    ASSUME NEW a, BlobArray(a), NEW x, NEW y,
           NEW b, b = ReplaceBlob(a, [cred |-> x, content |-> y])
    PROVE  /\ BlobArray(b) /\ Opened(b, x) = y
           /\ \A z : z # x => Opened(b, z) = Opened(a, z)
<1> DEFINE e == [cred |-> x, content |-> y]
           P == OpensAt(a, x)
<1>1. e.cred = x /\ e.content = y /\ "cred" \in DOMAIN e
  OBVIOUS
<1>2. /\ P = {} => b = Append(a, e)
      /\ P # {} => b = [a EXCEPT ![First(P)] = e]
  BY DEF ReplaceBlob
<1>3. IsSeq(a) /\ Len(a) \in Nat /\ DOMAIN a = 1..Len(a) /\ \A n \in 1..Len(a) : "cred" \in DOMAIN a[n]
  BY SeqFacts DEF BlobArray
<1> HIDE DEF e
<1>4. CASE P = {}
  <2> DEFINE l == Len(a)
  <2>1. /\ IsSeq(b) /\ Len(b) = l + 1 /\ b[l + 1] = e /\ l \in Nat
        /\ \A i \in 1..l : b[i] = a[i]
    <3>1. b = Append(a, e)
      BY <1>2, <1>4
    <3> DEFINE t == Append(a, e)
    <3>2. /\ IsSeq(t) /\ Len(t) = Len(a) + 1 /\ t[Len(a) + 1] = e
          /\ \A i \in 1..Len(a) : t[i] = a[i]
      BY <1>3, AppendFacts
    <3> HIDE DEF t
    <3> QED BY <1>3, <3>1, <3>2 DEF t
  <2> HIDE DEF l
  <2>2. DOMAIN b = 1..(l + 1)
    BY <2>1, SeqFacts
  <2>3. 1..(l + 1) = (1..l) \union {l + 1}
    BY <2>1
  <2>4. BlobArray(b)
    BY <1>1, <1>3, <2>1, <2>2, <2>3 DEF BlobArray, l
  <2>5. OpensAt(b, x) = {l + 1}
    <3>1. \A n \in 1..l : a[n].cred # x
      BY <1>3, <1>4 DEF OpensAt, l
    <3> QED BY <1>1, <2>1, <2>2, <2>3, <3>1 DEF OpensAt
  <2>6. First({l + 1}) = l + 1
    <3> DEFINE Q == {l + 1}
    <3>1. Q \subseteq Nat /\ Q # {}
      BY <2>1
    <3> HIDE DEF Q
    <3>2. First(Q) \in Q
      BY <3>1, FirstFacts
    <3> QED BY <3>2 DEF Q
  <2>7. Opened(b, x) = y
    BY <1>1, <2>1, <2>5, <2>6 DEF Opened
  <2>8. ASSUME NEW z, z # x PROVE Opened(b, z) = Opened(a, z)
    <3>1. OpensAt(b, z) = OpensAt(a, z)
      BY <1>1, <1>3, <2>1, <2>2, <2>3, <2>8 DEF OpensAt, l
    <3>2. \A n \in OpensAt(a, z) : b[n].content = a[n].content
      BY <1>3, <2>1 DEF OpensAt, l
    <3> QED BY <1>3, <3>1, <3>2, SameOpened
  <2> QED BY <2>4, <2>7, <2>8
<1>5. CASE P # {}
  <2> DEFINE f == First(P)
  <2>1. f \in 1..Len(a) /\ a[f].cred = x
    BY <1>3, <1>5, OpenedFacts
  <2>2. b = [a EXCEPT ![f] = e]
    BY <1>2, <1>5
  <2> HIDE DEF f
  <2>3. /\ DOMAIN b = 1..Len(a) /\ b = [k \in 1..Len(a) |-> b[k]] /\ b[f] = e
        /\ \A n \in 1..Len(a) : n # f => b[n] = a[n]
    BY <1>3, <2>1, <2>2
  <2>4. IsSeq(b) /\ Len(b) = Len(a)
    BY <1>3, <2>3, MapFacts
  <2>5. BlobArray(b)
    BY <1>1, <1>3, <2>3, <2>4 DEF BlobArray
  <2>6. \A n \in 1..Len(a) : b[n].cred = a[n].cred
    BY <1>1, <2>1, <2>3
  <2>7. \A z : OpensAt(b, z) = OpensAt(a, z)
    BY <1>3, <2>3, <2>6 DEF OpensAt
  <2>8. Opened(b, x) = y
    <3>1. Opened(b, x) = b[First(OpensAt(b, x))].content
      BY <1>5, <2>7 DEF Opened
    <3> QED BY <1>1, <2>3, <2>7, <3>1 DEF f
  <2>9. ASSUME NEW z, z # x PROVE Opened(b, z) = Opened(a, z)
    <3>1. \A n \in OpensAt(a, z) : b[n].content = a[n].content
      BY <1>3, <2>1, <2>3, <2>9 DEF OpensAt
    <3> QED BY <1>3, <2>7, <3>1, SameOpened
  <2> QED BY <2>5, <2>8, <2>9
<1> QED BY <1>4, <1>5

-----------------------------------------------------------------------------
(* A call's part of the invariant. *)

\* A call that has left the array behind, or failed to move it.
LEMMA LeftMoving ==
    ASSUME NEW S, NEW hurt, NEW a, NEW w, \A s \in S : BlobArray(s), a \in S,
           NEW q, q.pc \in Final \union {"emit"},
           q.call.op = "read" => /\ q.pc = "done" => q.got[1] \in S
                                 /\ q.pc = "failed" => hurt = TRUE,
           q.call.op = "get" => \E s \in S : Finds(q, s)
    PROVE  Moving(q, S, hurt, a, w)
  BY DEF Moving, Final

\* A call that goes on with its enumeration, or from there to the array.
LEMMA AheadMoving ==
    ASSUME NEW r, NEW S, NEW hurt, NEW a, NEW w, Moving(r, S, hurt, a, w),
           r.pc \in {"keys", "begin", "next", "yield"}, r.call.op # "read",
           NEW q, q.call = r.call, q.buf = r.buf, q.off = r.off,
           q.pc \in Final \union {"begin", "next", "yield", "read", "emit"},
           r.call.op = "get" => \E s \in S : Finds(q, s)
    PROVE  Moving(q, S, hurt, a, w)
<1>1. /\ r.buf = <<>> /\ r.off = 0 /\ a \in S /\ (\A s \in S : BlobArray(s))
      /\ \A s \in S : Keeps(s, w)
  BY DEF Moving
<1>2. CASE q.pc \in Final \union {"emit"}
  BY <1>1, <1>2, LeftMoving
<1>3. CASE q.pc \in {"begin", "next", "yield"}
  BY <1>1, <1>3 DEF Moving
<1>4. CASE q.pc = "read"
  <2>1. IsSeq(a)
    BY <1>1 DEF BlobArray
  <2>2. Len(a) \in Nat /\ Len(Serialized(a)) = Len(a) + 1
    BY <2>1, SerializedFacts
  <2>3. Reading(q, S, hurt, a)
    <3>1. IsSeq(q.buf) /\ Len(q.buf) = 0 /\ q.off = 0
      BY <1>1, SeqFacts
    <3>2. 0 <= Len(Serialized(a)) /\ 1..0 = {}
      BY <2>2
    <3>3. \A n \in 1..Len(q.buf) : IsBlob(q.buf[n]) \/ \E s \in S : q.buf[n] = Checksum(s)
      BY <3>1, <3>2
    <3>4. /\ Len(q.buf) = q.off /\ q.off <= Len(Serialized(a)) /\ q.off \in Nat
          /\ \A n \in 1..q.off : q.buf[n] = Serialized(a)[n]
      BY <3>1, <3>2
    <3> QED BY <3>1, <3>3, <3>4 DEF Reading
  <2> QED BY <1>1, <1>4, <2>3 DEF Moving
<1> QED BY <1>2, <1>3, <1>4

\* A call that is not under way: what others do to the array is seen by it.
LEMMA RestMoving ==
    ASSUME NEW r, NEW S, NEW hurt, NEW a, NEW w, Moving(r, S, hurt, a, w),
           r.pc \in Final \union {"idle"}, r.pc = "idle" => r.call.op = "none",
           NEW S2, S \subseteq S2, \A s \in S2 : BlobArray(s),
           NEW a2, a2 = a \/ a2 \in S2, NEW hurt2, hurt = TRUE => hurt2 = TRUE, NEW w2
    PROVE  Moving(r, S2, hurt2, a2, w2)
<1>1. CASE r.pc = "idle"
  BY <1>1 DEF Moving
<1>2. CASE r.pc \in Final
  <2>1. a2 \in S2
    BY <1>2 DEF Moving, Final
  <2>2. r.call.op = "read" => /\ r.pc = "done" => r.got[1] \in S2
                              /\ r.pc = "failed" => hurt2 = TRUE
    BY DEF Moving
  <2>3. r.call.op = "get" => \E s \in S2 : Finds(r, s)
    BY DEF Moving
  <2> QED BY <1>2, <2>1, <2>2, <2>3, LeftMoving
<1> QED BY <1>1, <1>2

\* At the end of a call what it got is left.
LEMMA FinalMoving ==
    ASSUME NEW q, NEW S, NEW hurt, NEW a, NEW w, Moving(q, S, hurt, a, w), q.pc \in Final,
           NEW e, e.pc = q.pc, e.call = q.call, e.got = q.got, e.held = <<>>
    PROVE  Moving(e, S, hurt, a, w)
<1>1. a \in S /\ \A s \in S : BlobArray(s)
  BY DEF Moving, Final
<1>2. e.call.op = "read" => /\ e.pc = "done" => e.got[1] \in S
                            /\ e.pc = "failed" => hurt = TRUE
  BY DEF Moving
<1>3. e.call.op = "get" => \E s \in S : Finds(e, s)
  BY SeqFacts DEF Moving, Finds
<1> QED BY <1>1, <1>2, <1>3, LeftMoving

\* The arrays seen grow, and a disturbance is not forgotten.
Grows(d) ==
    /\ past[d].seen \subseteq past'[d].seen /\ \A s \in past'[d].seen : BlobArray(s)
    /\ array' = array \/ array' \in past'[d].seen
    /\ past[d].hurt = TRUE => past'[d].hurt = TRUE

\* A step of a call under way preserves the invariant if it does so for the
\* array and for every record it may end with.
LEMMA StoredStep ==
    ASSUME IInv, Stored, NEW c \in Callers, Active(c), NEW rs, Step(c, rs),
           BlobArray(array'), PartialShape', Keeps(array', wrote'), \A d \in Callers : Grows(d),
           \A q \in rs : Moving(q, past'[c].seen, past'[c].hurt, array', wrote')
    PROVE  Stored'
<1>1. DOMAIN at = Callers /\ mu = c
  BY DEF IInv, Exclusive
<1>2. PICK q \in rs :
         IF q.pc \in Final
         THEN at' = [at EXCEPT ![c] = [Start EXCEPT !.pc = q.pc, !.call = q.call, !.got = q.got]]
         ELSE at' = [at EXCEPT ![c] = q]
  BY DEF Step
<1> DEFINE S == past'[c].seen
           h == past'[c].hurt
<1>3. Moving(q, S, h, array', wrote')
  OBVIOUS
<1>4. Moving(at'[c], S, h, array', wrote') /\ \A d \in Callers \ {c} : at'[d] = at[d]
  <2>1. CASE q.pc \in Final
    <3> DEFINE x == q.pc
               y == q.call
               z == q.got
               e == [Start EXCEPT !.pc = x, !.call = y, !.got = z]
    <3>1. at' = [at EXCEPT ![c] = e]
      BY <1>2, <2>1
    <3>2. e.pc = q.pc /\ e.call = q.call /\ e.got = q.got /\ e.held = <<>>
      <4> HIDE DEF x, y, z
      <4>1. e.pc = x /\ e.call = y /\ e.got = z /\ e.held = <<>>
        BY DEF Start
      <4> HIDE DEF e
      <4> QED BY <4>1 DEF x, y, z
    <3> HIDE DEF e, x, y, z, S, h
    <3>3. Moving(e, S, h, array', wrote')
      BY <1>3, <2>1, <3>2, FinalMoving
    <3> QED BY <1>1, <3>1, <3>3
  <2>2. CASE q.pc \notin Final
    BY <1>1, <1>2, <1>3, <2>2
  <2> QED BY <2>1, <2>2
<1> SUFFICES ASSUME NEW d \in Callers
             PROVE  Moving(at'[d], past'[d].seen, past'[d].hurt, array', wrote')
  BY DEF Stored
<1>5. CASE d = c
  BY <1>4, <1>5
<1>6. CASE d # c
  <2>1. at[d].pc \in Final \union {"idle"} /\ (at[d].pc = "idle" => at[d].call.op = "none")
    BY <1>1, <1>6 DEF IInv, Exclusive, Active, Enumerating, Fits, Phase
  <2>2. Moving(at[d], past[d].seen, past[d].hurt, array, wrote)
    BY DEF Stored
  <2>3. Grows(d)
    OBVIOUS
  <2>4. Moving(at[d], past'[d].seen, past'[d].hurt, array', wrote')
    <3> DEFINE s1 == past[d].seen
               s2 == past'[d].seen
               h1 == past[d].hurt
               h2 == past'[d].hurt
               r == at[d]
               a1 == array
               a2 == array'
               w1 == wrote
               w2 == wrote'
    <3>1. /\ Moving(r, s1, h1, a1, w1) /\ s1 \subseteq s2 /\ (\A s \in s2 : BlobArray(s))
          /\ a2 = a1 \/ a2 \in s2
          /\ h1 = TRUE => h2 = TRUE
          /\ r.pc \in Final \union {"idle"} /\ (r.pc = "idle" => r.call.op = "none")
      BY <2>1, <2>2, <2>3 DEF Grows
    <3> HIDE DEF s1, s2, h1, h2, r, a1, a2, w1, w2
    <3>2. Moving(r, s2, h2, a2, w2)
      BY <3>1, RestMoving
    <3> QED BY <3>2 DEF s2, h2, r, a2, w2
  <2> QED BY <1>4, <1>6, <2>4
<1> QED BY <1>5, <1>6

\* What the invariants say of a call under way.
LEMMA StoredFacts ==
    ASSUME IInv, Stored, NEW c \in Callers, at[c].pc \notin Final \union {"idle"}
    PROVE  /\ Moving(at[c], past[c].seen, past[c].hurt, array, wrote) /\ Fields(at[c])
           /\ IsSeq(at[c].got) /\ IsSeq(at[c].held) /\ Fits(at[c], past[c].begun, cursor)
           /\ Active(c) /\ DOMAIN at = Callers /\ BlobArray(array) /\ PartialShape /\ Keeps(array, wrote)
<1>1. Fits(at[c], past[c].begun, cursor) /\ Active(c) /\ Fields(at[c]) /\ DOMAIN at = Callers
  BY ActiveFacts
<1>2. IsSeq(at[c].got) /\ IsSeq(at[c].held)
  BY <1>1 DEF Fits
<1> QED BY <1>1, <1>2 DEF Stored

\* A step that leaves the array, and perhaps an unfinished one.
LEMMA ArrayStep ==
    ASSUME IInv, Stored, NEW c \in Callers, Active(c), NEW rs, Step(c, rs),
           UNCHANGED <<array, wrote>>, PartialShape',
           \A d \in Callers : past'[d].seen = past[d].seen /\ (past[d].hurt = TRUE => past'[d].hurt = TRUE),
           \A q \in rs : Moving(q, past[c].seen, past'[c].hurt, array, wrote)
    PROVE  Stored'
<1>1. /\ BlobArray(array') /\ Keeps(array', wrote')
      /\ \A q \in rs : Moving(q, past'[c].seen, past'[c].hurt, array', wrote')
  BY DEF Stored
<1>2. ASSUME NEW d \in Callers PROVE Grows(d)
  <2>1. Moving(at[d], past[d].seen, past[d].hurt, array, wrote)
    BY DEF Stored
  <2>2. \A s \in past[d].seen : BlobArray(s)
    BY <2>1 DEF Moving
  <2> QED BY <2>2 DEF Grows
<1> QED BY <1>1, <1>2, StoredStep

\* A step that leaves both.
LEMMA QuietStep ==
    ASSUME IInv, Stored, NEW c \in Callers, Active(c), NEW rs, Step(c, rs),
           UNCHANGED <<array, partial, wrote>>,
           \A d \in Callers : past'[d].seen = past[d].seen /\ (past[d].hurt = TRUE => past'[d].hurt = TRUE),
           \A q \in rs : Moving(q, past[c].seen, past'[c].hurt, array, wrote)
    PROVE  Stored'
<1>1. PartialShape'
  BY DEF Stored, PartialShape
<1> QED BY <1>1, ArrayStep

\* The control point moves on, or the call fails.
LEMMA PcMoving ==
    ASSUME NEW r, NEW S, NEW hurt, NEW a, NEW w, Moving(r, S, hurt, a, w), Fields(r),
           r.pc \in {"keys", "begin", "next", "yield"}, r.call.op # "read",
           NEW x \in Final \union {"begin", "next", "yield", "read", "emit"}
    PROVE  Moving([r EXCEPT !.pc = x], S, hurt, a, w)
<1> DEFINE q == [r EXCEPT !.pc = x]
<1>1. /\ q.pc = x /\ q.call = r.call /\ q.got = r.got /\ q.held = r.held
      /\ q.buf = r.buf /\ q.off = r.off
  BY DEF Fields
<1> HIDE DEF q
<1>2. r.call.op = "get" => \E s \in S : Finds(q, s)
  BY <1>1 DEF Moving, Finds
<1>3. Moving(q, S, hurt, a, w)
  BY <1>1, <1>2, AheadMoving
<1> QED BY <1>3 DEF q

\* The key agreement.
LEMMA KeyAgreementStored == ASSUME IInv, Stored, NEW c \in Callers, KeyAgreement(c) PROVE Stored'
<1> DEFINE r == at[c]
           x == IF at[c].req.rest THEN "begin" ELSE "failed"
           q == [r EXCEPT !.pc = x]
<1>1. r.pc = "keys" /\ Step(c, {q}) /\ UNCHANGED past /\ UNCHANGED <<array, partial, wrote>>
  BY DEF KeyAgreement
<1>2. r.pc \notin Final \union {"idle"}
  BY <1>1 DEF Final
<1>3. /\ Moving(r, past[c].seen, past[c].hurt, array, wrote) /\ Fields(r) /\ DOMAIN at = Callers
      /\ Active(c) /\ Fits(r, past[c].begun, cursor)
  BY <1>2, StoredFacts
<1>4. r.call.op # "read"
  BY <1>1, <1>3 DEF Fits, Phase, Enumerations
<1>5. Moving(q, past[c].seen, past[c].hurt, array, wrote)
  <2>1. x \in Final \union {"begin", "next", "yield", "read", "emit"}
    BY DEF Final
  <2> HIDE DEF x, r
  <2> QED BY <1>1, <1>3, <1>4, <2>1, PcMoving
<1> HIDE DEF q, x
<1> DEFINE rs == {q}
<1>6. Step(c, rs) /\ \A p \in rs : Moving(p, past[c].seen, past[c].hurt, array, wrote)
  BY <1>1, <1>5
<1> HIDE DEF rs
<1> QED BY <1>1, <1>3, <1>6, QuietStep

\* MakeCredential does not use the array.
LEMMA MakeCredentialStored == ASSUME IInv, Stored, NEW c \in Callers, MakeCredential(c) PROVE Stored'
<1> DEFINE r == at[c]
           k == at[c].call
           accept(o) ==
               LET w == createOutputs(k.x, at[c].req, o)
               IN  IF ~w.ok THEN [at[c] EXCEPT !.pc = "failed"]
                   ELSE [at[c] EXCEPT !.pc = "done",
                           !.got = <<[outs |-> w.outs, secrets |-> w.secrets,
                                      level |-> o.level, supported |-> w.supported]>>]
           rs == {accept(o) : o \in Deviations(Answer("new", k, at[c].req))}
<1>1. /\ r.pc = "begin" /\ k.op = "make" /\ Step(c, rs) /\ UNCHANGED past
      /\ UNCHANGED <<array, partial, wrote>>
  BY DEF MakeCredential
<1>2. r.pc \notin Final \union {"idle"}
  BY <1>1 DEF Final
<1>3. Moving(r, past[c].seen, past[c].hurt, array, wrote) /\ Fields(r) /\ Active(c)
  BY <1>2, StoredFacts
<1>4. ASSUME NEW q \in rs PROVE Moving(q, past[c].seen, past[c].hurt, array, wrote)
  <2>1. PICK g : \/ q = [r EXCEPT !.pc = "failed"]
                 \/ q = [r EXCEPT !.pc = "done", !.got = g]
    <3>1. PICK o \in Deviations(Answer("new", k, at[c].req)) : q = accept(o)
      BY <1>4
    <3> DEFINE w == createOutputs(k.x, at[c].req, o)
    <3> WITNESS <<[outs |-> w.outs, secrets |-> w.secrets, level |-> o.level, supported |-> w.supported]>>
    <3> QED BY <3>1
  <2> HIDE DEF rs, accept
  <2>2. q.pc \in Final /\ q.call = r.call
    BY <1>3, <2>1 DEF Final, Fields
  <2>3. array \in past[c].seen /\ \A s \in past[c].seen : BlobArray(s)
    BY <1>1, <1>3 DEF Moving
  <2> QED BY <1>1, <2>2, <2>3, LeftMoving
<1> HIDE DEF rs
<1> QED BY <1>1, <1>3, <1>4, QuietStep

\* An assertion added to a sequence of assertions.
LEMMA AppendFound ==
    ASSUME NEW s, IsSeq(s), NEW a, \A n \in 1..Len(s) : Found(s[n], a), NEW e, Found(e, a)
    PROVE  \A n \in 1..Len(Append(s, e)) : Found(Append(s, e)[n], a)
<1> DEFINE t == Append(s, e)
<1>1. /\ Len(t) = Len(s) + 1 /\ t[Len(s) + 1] = e /\ \A n \in 1..Len(s) : t[n] = s[n]
      /\ Len(s) \in Nat
  BY AppendFacts, SeqFacts
<1> HIDE DEF t
<1> SUFFICES ASSUME NEW n \in 1..Len(t) PROVE Found(t[n], a)
  BY DEF t
<1>2. CASE n = Len(s) + 1
  BY <1>1, <1>2
<1>3. CASE n \in 1..Len(s)
  BY <1>1, <1>3
<1> QED BY <1>1, <1>2, <1>3

\* An item is received: an assertion has no blob yet.
LEMMA ReceivedMoving ==
    ASSUME NEW r, NEW S, NEW hurt, NEW a, NEW w, Moving(r, S, hurt, a, w), Fields(r),
           IsSeq(r.got), IsSeq(r.held), r.pc \in {"begin", "next"}, r.call.op # "read",
           NEW item, NEW q \in Received(r, item)
    PROVE  Moving(q, S, hurt, a, w)
<1>1. CASE r.call.op # "get"
  <2> DEFINE g == Append(r.got, [item |-> item])
  <2>1. q = [r EXCEPT !.pc = "yield", !.got = g]
    BY <1>1 DEF Received
  <2> HIDE DEF g
  <2>2. q.call = r.call /\ q.pc = "yield" /\ q.buf = r.buf /\ q.off = r.off
    BY <2>1 DEF Fields
  <2> QED BY <1>1, <2>2, AheadMoving
<1>2. CASE r.call.op = "get"
  <2>1. PICK o \in Deviations(Answer(item, r.call, r.req)) :
           LET v == getOutputs(r.call.x, r.req, o)
               e == [item |-> item, outs |-> v.outs, secrets |-> v.secrets, blob |-> None,
                     written |-> FALSE, key |-> "largeBlobKey" \in o.outs]
               h == [r EXCEPT !.held = Append(@, e)]
           IN  q = IF ~v.ok THEN [r EXCEPT !.pc = "failed"]
                   ELSE IF Legacy(r) THEN [h EXCEPT !.pc = Continue(h, Len(h.held))]
                   ELSE [r EXCEPT !.pc = "yield", !.got = Append(@, e)]
    BY <1>2, Zenon DEF Received
  <2> DEFINE v == getOutputs(r.call.x, r.req, o)
             key == "largeBlobKey" \in o.outs
             e == [item |-> item, outs |-> v.outs, secrets |-> v.secrets, blob |-> None,
                   written |-> FALSE, key |-> key]
             h == [r EXCEPT !.held = Append(@, e)]
  <2>2. \/ q = [r EXCEPT !.pc = "failed"]
        \/ q = [h EXCEPT !.pc = Continue(h, Len(h.held))]
        \/ q = [r EXCEPT !.pc = "yield", !.got = Append(@, e)]
    BY <2>1
  <2> HIDE DEF v, key
  <2>3. \A s : Found(e, s)
    BY DEF Found
  <2> HIDE DEF e
  <2>4. PICK s \in S : Finds(r, s)
    BY <1>2 DEF Moving
  <2>5. /\ \A n \in 1..Len(r.got) : Found(r.got[n], s)
        /\ \A n \in 1..Len(r.held) : Found(r.held[n], s)
    BY <2>4 DEF Finds
  <2>6. CASE q = [r EXCEPT !.pc = "failed"]
    <3> DEFINE x == "failed"
    <3>1. x \in Final \union {"begin", "next", "yield", "read", "emit"} /\ q = [r EXCEPT !.pc = x]
      BY <2>6 DEF Final
    <3> HIDE DEF x
    <3> QED BY <3>1, PcMoving
  <2>7. CASE q = [h EXCEPT !.pc = Continue(h, Len(h.held))]
    <3> DEFINE g == Append(r.held, e)
               x == Continue(h, Len(h.held))
    <3>1. h = [r EXCEPT !.held = g] /\ q = [h EXCEPT !.pc = x]
      BY <2>7
    <3>2. \A n \in 1..Len(g) : Found(g[n], s)
      BY <2>3, <2>5, AppendFound
    <3>3. x \in {"next", "done", "emit", "read"}
      BY DEF Continue
    <3> HIDE DEF g, x, h
    <3>4. /\ q.call = r.call /\ q.pc = x /\ q.buf = r.buf /\ q.off = r.off
          /\ q.got = r.got /\ q.held = g
      BY <3>1 DEF Fields
    <3>5. Finds(q, s)
      BY <2>5, <3>2, <3>4 DEF Finds
    <3> QED BY <1>2, <3>3, <3>4, <3>5, AheadMoving DEF Final
  <2>8. CASE q = [r EXCEPT !.pc = "yield", !.got = Append(@, e)]
    <3> DEFINE g == Append(r.got, e)
    <3>1. q = [r EXCEPT !.pc = "yield", !.got = g]
      BY <2>8
    <3>2. \A n \in 1..Len(g) : Found(g[n], s)
      BY <2>3, <2>5, AppendFound
    <3> HIDE DEF g
    <3>3. /\ q.call = r.call /\ q.pc = "yield" /\ q.buf = r.buf /\ q.off = r.off
          /\ q.got = g /\ q.held = r.held
      BY <3>1 DEF Fields
    <3>4. Finds(q, s)
      BY <2>5, <3>2, <3>3 DEF Finds
    <3> QED BY <1>2, <3>3, <3>4, AheadMoving
  <2> QED BY <2>2, <2>6, <2>7, <2>8
<1> QED BY <1>1, <1>2

\* The first item of an enumeration.
LEMMA BeginStored == ASSUME IInv, Stored, NEW c \in Callers, Begin(c) PROVE Stored'
<1> DEFINE S == past[c].seen
           t == past[c].hurt
<1>1. at[c].pc = "begin" /\ at[c].call.op # "make" /\ UNCHANGED <<array, partial, wrote>>
  BY DEF Begin
<1>2. at[c].pc \notin Final \union {"idle"}
  BY <1>1 DEF Final
<1>3. /\ Moving(at[c], S, t, array, wrote) /\ Fields(at[c]) /\ IsSeq(at[c].got) /\ IsSeq(at[c].held)
      /\ Fits(at[c], past[c].begun, cursor) /\ Active(c) /\ PastShape
  BY <1>2, StoredFacts DEF IInv
<1>4. at[c].call.op # "read"
  BY <1>1, <1>3 DEF Fits, Phase, Enumerations
<1>5. PICK items \in Items(at[c].call) :
          IF items = <<>>
          THEN Step(c, {[at[c] EXCEPT !.pc = "failed"]}) /\ UNCHANGED past
          ELSE /\ Step(c, Received([at[c] EXCEPT !.total = Len(items)], items[1]))
               /\ past' = [past EXCEPT ![c].begun = items]
  BY DEF Begin
<1>6. CASE items = <<>>
  <2> DEFINE x == "failed"
             rs == {[at[c] EXCEPT !.pc = x]}
  <2>1. Step(c, rs) /\ x \in Final \union {"begin", "next", "yield", "read", "emit"} /\ UNCHANGED past
    BY <1>5, <1>6 DEF Final
  <2> HIDE DEF x
  <2>2. \A q \in rs : Moving(q, S, t, array, wrote)
    BY <1>1, <1>3, <1>4, <2>1, PcMoving
  <2> HIDE DEF rs
  <2> QED BY <1>1, <1>3, <2>1, <2>2, QuietStep
<1>7. CASE items # <<>>
  <2> DEFINE l == Len(items)
             r == [at[c] EXCEPT !.total = l]
             first == items[1]
             rs == Received(r, first)
  <2>1. Step(c, rs) /\ past' = [past EXCEPT ![c].begun = items]
    BY <1>5, <1>7
  <2>2. \A d \in Callers : past'[d].seen = past[d].seen /\ past'[d].hurt = past[d].hurt
    BY <1>3, <2>1 DEF PastShape
  <2> HIDE DEF l, first
  <2>3. /\ Fields(r) /\ r.call = at[c].call /\ r.pc = at[c].pc
        /\ r.got = at[c].got /\ r.held = at[c].held /\ r.buf = at[c].buf /\ r.off = at[c].off
    BY <1>3 DEF Fields
  <2> HIDE DEF r
  <2>4. Moving(r, S, t, array, wrote)
    <3>1. at[c].call.op = "get" => \E s \in S : Finds(r, s)
      BY <1>3, <2>3 DEF Moving, Finds
    <3> QED BY <1>1, <1>3, <1>4, <2>3, <3>1, AheadMoving
  <2>5. ASSUME NEW q \in rs PROVE Moving(q, S, t, array, wrote)
    <3> HIDE DEF S, t
    <3> QED BY <1>1, <1>3, <1>4, <2>3, <2>4, <2>5, ReceivedMoving
  <2> HIDE DEF rs
  <2> QED BY <1>1, <1>3, <2>1, <2>2, <2>5, QuietStep
<1> QED BY <1>6, <1>7

\* The next one.
LEMMA GetNextStored == ASSUME IInv, Stored, NEW c \in Callers, GetNext(c) PROVE Stored'
<1> DEFINE r == at[c]
           S == past[c].seen
           t == past[c].hurt
<1>1. r.pc = "next" /\ UNCHANGED past /\ UNCHANGED <<array, partial, wrote>>
  BY DEF GetNext
<1>2. r.pc \notin Final \union {"idle"}
  BY <1>1 DEF Final
<1>3. /\ Moving(r, S, t, array, wrote) /\ Fields(r) /\ IsSeq(r.got) /\ IsSeq(r.held)
      /\ Fits(r, past[c].begun, cursor) /\ Active(c)
  BY <1>2, StoredFacts
<1>4. r.call.op # "read"
  BY <1>1, <1>3 DEF Fits, Phase, Enumerations
<1>5. CASE cursor.kind = r.call.op /\ cursor.items # <<>>
  <2> DEFINE first == cursor.items[1]
             rs == Received(r, first)
  <2>1. Step(c, rs)
    BY <1>5 DEF GetNext
  <2> HIDE DEF first
  <2>2. ASSUME NEW q \in rs PROVE Moving(q, S, t, array, wrote)
    <3> HIDE DEF r, S, t
    <3> QED BY <1>1, <1>3, <1>4, <2>2, ReceivedMoving
  <2> HIDE DEF rs
  <2> QED BY <1>1, <1>3, <2>1, <2>2, QuietStep
<1>6. CASE ~(cursor.kind = r.call.op /\ cursor.items # <<>>)
  <2> DEFINE x == "failed"
             rs == {[r EXCEPT !.pc = x]}
  <2>1. Step(c, rs) /\ x \in Final \union {"begin", "next", "yield", "read", "emit"}
    BY <1>6 DEF GetNext, Final
  <2> HIDE DEF x
  <2>2. \A q \in rs : Moving(q, S, t, array, wrote)
    <3> HIDE DEF r, S, t
    <3> QED BY <1>1, <1>3, <1>4, <2>1, PcMoving
  <2> HIDE DEF rs
  <2> QED BY <1>1, <1>3, <2>1, <2>2, QuietStep
<1> QED BY <1>5, <1>6

\* The consumer goes on, or breaks off.
LEMMA ConsumeStored == ASSUME IInv, Stored, NEW c \in Callers, Consume(c) PROVE Stored'
<1> DEFINE r == at[c]
           S == past[c].seen
           t == past[c].hurt
           x == Continue(r, Len(r.got))
           y == "broken"
           rs == {[r EXCEPT !.pc = x], [r EXCEPT !.pc = y]}
<1>1. r.pc = "yield" /\ Step(c, rs) /\ UNCHANGED past /\ UNCHANGED <<array, partial, wrote>>
  BY DEF Consume, authenticator
<1>2. r.pc \notin Final \union {"idle"}
  BY <1>1 DEF Final
<1>3. /\ Moving(r, S, t, array, wrote) /\ Fields(r) /\ Fits(r, past[c].begun, cursor) /\ Active(c)
  BY <1>2, StoredFacts
<1>4. r.call.op # "read"
  BY <1>1, <1>3 DEF Fits, Phase, Enumerations
<1>5. {x, y} \subseteq Final \union {"begin", "next", "yield", "read", "emit"}
  BY DEF Continue, Final
<1> HIDE DEF x, y
<1>6. \A q \in rs : Moving(q, S, t, array, wrote)
  <2> HIDE DEF r, S, t
  <2> QED BY <1>1, <1>3, <1>4, <1>5, PcMoving
<1> HIDE DEF rs
<1> QED BY <1>1, <1>3, <1>6, QuietStep

\* An assertion that was held back is yielded, with its blob.
LEMMA EmitStored == ASSUME IInv, Stored, NEW c \in Callers, Emit(c) PROVE Stored'
<1> DEFINE r == at[c]
           S == past[c].seen
           t == past[c].hurt
           g == Append(r.got, r.held[1])
           h == Tail(r.held)
           e == [r EXCEPT !.got = g, !.held = h]
           rs == {[e EXCEPT !.pc = IF e.held = <<>> THEN "done" ELSE "emit"],
                  [e EXCEPT !.pc = "broken"]}
<1>1. r.pc = "emit" /\ Step(c, rs) /\ UNCHANGED past /\ UNCHANGED <<array, partial, wrote>>
  BY DEF Emit, authenticator
<1>2. r.pc \notin Final \union {"idle"}
  BY <1>1 DEF Final
<1>3. /\ Moving(r, S, t, array, wrote) /\ Fields(r) /\ IsSeq(r.got) /\ IsSeq(r.held)
      /\ Fits(r, past[c].begun, cursor) /\ Active(c)
  BY <1>2, StoredFacts
<1>4. r.call.op = "get" /\ r.held # <<>>
  BY <1>1, <1>3 DEF Fits, Phase
<1>5. PICK s \in S : Finds(r, s)
  BY <1>3, <1>4 DEF Moving
<1>6. /\ \A n \in 1..Len(g) : Found(g[n], s)
      /\ \A n \in 1..Len(h) : Found(h[n], s)
  <2> DEFINE u == r.got
             v == r.held
             f == v[1]
  <2>1. /\ IsSeq(u) /\ IsSeq(v) /\ v # <<>> /\ g = Append(u, f) /\ h = Tail(v)
        /\ \A n \in 1..Len(u) : Found(u[n], s)
        /\ \A n \in 1..Len(v) : Found(v[n], s)
    BY <1>3, <1>4, <1>5 DEF Finds
  <2> HIDE DEF u, v, g, h
  <2>2. Len(v) \in Nat \ {0} /\ Len(h) = Len(v) - 1 /\ \A n \in 1..Len(h) : h[n] = v[n + 1]
    BY <2>1, TailFacts
  <2>3. Found(f, s)
    BY <2>1, <2>2
  <2> HIDE DEF f
  <2>4. \A n \in 1..Len(g) : Found(g[n], s)
    BY <2>1, <2>3, AppendFound
  <2>5. ASSUME NEW n \in 1..Len(h) PROVE Found(h[n], s)
    <3>1. n + 1 \in 1..Len(v)
      BY <2>2
    <3> QED BY <2>1, <2>2, <3>1
  <2> QED BY <2>4, <2>5
<1>7. ASSUME NEW q \in rs PROVE Moving(q, S, t, array, wrote)
  <2>1. PICK y \in {"done", "emit", "broken"} : q = [e EXCEPT !.pc = y]
    BY <1>7
  <2>2. e = [r EXCEPT !.got = g, !.held = h]
    OBVIOUS
  <2> HIDE DEF g, h, e, rs
  <2>3. q.call = r.call /\ q.got = g /\ q.held = h /\ q.pc = y
    BY <1>3, <2>1, <2>2 DEF Fields
  <2>4. Finds(q, s)
    BY <1>6, <2>3 DEF Finds
  <2>5. array \in S /\ \A z \in S : BlobArray(z)
    BY <1>1, <1>3 DEF Moving
  <2>6. y \in Final \union {"emit"}
    BY <2>1 DEF Final
  <2> HIDE DEF r, S, t
  <2> QED BY <1>4, <1>5, <2>3, <2>4, <2>5, <2>6, LeftMoving
<1> HIDE DEF rs
<1> QED BY <1>1, <1>3, <1>7, QuietStep

\* A transfer is given up.
LEMMA GaveMoving ==
    ASSUME NEW r, NEW S, NEW hurt, NEW a, NEW w, Moving(r, S, hurt, a, w), Fields(r),
           r.pc \in {"read", "write"}, NEW hurt2, r.call.op = "read" => hurt2 = TRUE
    PROVE  Moving(Gave(r), S, hurt2, a, w)
<1> DEFINE x == IF r.call.op = "get" THEN "emit" ELSE "failed"
           q == [r EXCEPT !.pc = x]
<1>1. q = Gave(r) /\ x \in Final \union {"emit"} /\ (r.call.op = "read" => x = "failed")
  BY DEF Gave, Final
<1> HIDE DEF x
<1>2. q.pc = x /\ q.call = r.call /\ q.got = r.got /\ q.held = r.held
  BY DEF Fields
<1> HIDE DEF q
<1>3. r.call.op = "get" => \E s \in S : Finds(q, s)
  BY <1>2 DEF Moving, Finds
<1>4. a \in S /\ \A s \in S : BlobArray(s)
  BY DEF Moving
<1>5. Moving(q, S, hurt2, a, w)
  BY <1>1, <1>2, <1>3, <1>4, LeftMoving
<1> QED BY <1>1, <1>5

\* An exchange fails.
LEMMA FailStored == ASSUME IInv, Stored, NEW c \in Callers, Fail(c) PROVE Stored'
<1> DEFINE r == at[c]
           S == past[c].seen
           t == past[c].hurt
           x == "failed"
<1>1. /\ r.pc \in {"keys", "begin", "next", "read", "write"}
      /\ past' = [past EXCEPT ![c].hurt = TRUE] /\ UNCHANGED <<array, partial, wrote>>
  BY DEF Fail, authenticator
<1>2. r.pc \notin Final \union {"idle"}
  BY <1>1 DEF Final
<1>3. /\ Moving(r, S, t, array, wrote) /\ Fields(r) /\ Fits(r, past[c].begun, cursor) /\ Active(c)
      /\ PastShape
  BY <1>2, StoredFacts DEF IInv
<1>4. /\ \A d \in Callers : past'[d].seen = past[d].seen /\ (past[d].hurt = TRUE => past'[d].hurt = TRUE)
      /\ past'[c].hurt = TRUE
  BY <1>1, <1>3 DEF PastShape
<1> DEFINE t2 == past'[c].hurt
<1>5. /\ Active(c) /\ UNCHANGED <<array, partial, wrote>>
      /\ \A d \in Callers : past'[d].seen = past[d].seen /\ (past[d].hurt = TRUE => past'[d].hurt = TRUE)
  BY <1>1, <1>3, <1>4
<1>6. CASE r.pc \in {"read", "write"}
  <2> DEFINE rs == {Gave(r)}
  <2>1. Step(c, rs)
    BY <1>6 DEF Fail
  <2>2. \A q \in rs : Moving(q, S, t2, array, wrote)
    <3> HIDE DEF r, S, t
    <3> QED BY <1>3, <1>4, <1>6, GaveMoving
  <2> HIDE DEF rs
  <2> QED BY <1>5, <2>1, <2>2, QuietStep
<1>7. CASE r.pc \notin {"read", "write"}
  <2> DEFINE q == [r EXCEPT !.pc = x]
             rs == {q}
  <2>1. Step(c, rs)
    BY <1>7 DEF Fail
  <2>2. x \in Final /\ r.call.op # "read"
    BY <1>1, <1>3, <1>7 DEF Fits, Phase, Enumerations, Final
  <2> HIDE DEF x
  <2>3. q.pc = x /\ q.call = r.call /\ q.got = r.got /\ q.held = r.held
    BY <1>3 DEF Fields
  <2>4. Moving(q, S, t2, array, wrote)
    <3> HIDE DEF q
    <3>1. r.call.op = "get" => \E s \in S : Finds(q, s)
      BY <1>3, <2>3 DEF Moving, Finds
    <3>2. array \in S /\ \A s \in S : BlobArray(s)
      BY <1>2, <1>3 DEF Moving
    <3> HIDE DEF r, S, t2
    <3> QED BY <2>2, <2>3, <3>1, <3>2, LeftMoving
  <2> HIDE DEF q
  <2>5. \A p \in rs : Moving(p, S, t2, array, wrote)
    BY <2>4
  <2> HIDE DEF rs
  <2> QED BY <1>5, <2>1, <2>5, QuietStep
<1> QED BY <1>6, <1>7

\* The array has been read: if its checksum is right it is one of those seen.
LEMMA ReadArrayMoving ==
    ASSUME NEW r, NEW S, NEW hurt, NEW a, NEW w, Moving(r, S, hurt, a, w), Fields(r),
           r.pc = "read", r.call.op \in {"read", "get"}, IsSeq(r.held),
           r.call.op = "get" => r.got = <<>>,
           NEW s, IsSeq(s), \A n \in 1..Len(s) : IsBlob(s[n]) \/ \E z \in S : s[n] = Checksum(z),
           ~Whole(s) => hurt = TRUE
    PROVE  Moving(ReadArray(r, s), S, hurt, a, w)
<1> DEFINE q == ReadArray(r, s)
           b == Blobs(s)
           item == r.held[1].item
           content == r.call.x.content
           next == ReplaceBlob(b, [cred |-> item, content |-> content])
           m == [n \in DOMAIN r.held |->
                   [r.held[n] EXCEPT !.blob = IF r.held[n].key THEN Opened(b, r.held[n].item) ELSE None]]
<1>1. \/ ~Whole(s) /\ q = Gave(r)
      \/ Whole(s) /\ r.call.op = "read" /\ q = [r EXCEPT !.pc = "done", !.got = <<b>>]
      \/ Whole(s) /\ r.call.op # "read" /\ q = [r EXCEPT !.pc = "emit", !.held = m]
      \/ Whole(s) /\ r.call.op # "read"
                  /\ q = [r EXCEPT !.pc = "write", !.buf = Serialized(next), !.off = 0]
      \/ r.call.op # "read" /\ q = Gave(r)
  BY DEF ReadArray
<1>2. a \in S /\ \A z \in S : BlobArray(z) /\ Keeps(z, w)
  BY DEF Moving
<1>3. ASSUME Whole(s) PROVE b \in S /\ BlobArray(b) /\ Keeps(b, w)
  <2>1. s # <<>> /\ s[Len(s)] = Checksum(b)
    BY <1>3 DEF Whole
  <2>2. Len(s) \in 1..Len(s)
    BY <2>1, BlobsFacts
  <2> HIDE DEF b
  <2>3. PICK z \in S : Checksum(b) = Checksum(z)
    BY <2>1, <2>2, ChecksumFacts
  <2>4. b = z
    BY <2>3, ChecksumFacts
  <2> QED BY <1>2, <2>4
<1>4. CASE ~Whole(s) /\ q = Gave(r)
  <2> HIDE DEF q
  <2>1. Moving(q, S, hurt, a, w)
    BY <1>4, GaveMoving
  <2> QED BY <2>1 DEF q
<1>5. CASE r.call.op # "read" /\ q = Gave(r)
  <2> HIDE DEF q
  <2>1. Moving(q, S, hurt, a, w)
    BY <1>5, GaveMoving
  <2> QED BY <2>1 DEF q
<1>6. CASE Whole(s) /\ r.call.op = "read" /\ q = [r EXCEPT !.pc = "done", !.got = <<b>>]
  <2> DEFINE g == <<b>>
  <2>1. q = [r EXCEPT !.pc = "done", !.got = g] /\ g[1] = b
    BY <1>6
  <2> HIDE DEF g, q
  <2>2. q.pc = "done" /\ q.call = r.call /\ q.got = g
    BY <2>1 DEF Fields
  <2>3. b \in S
    BY <1>3, <1>6
  <2>4. Moving(q, S, hurt, a, w)
    <3> HIDE DEF b
    <3> QED BY <1>2, <1>6, <2>1, <2>2, <2>3, LeftMoving DEF Final
  <2> QED BY <2>4 DEF q
<1>7. CASE Whole(s) /\ r.call.op # "read" /\ q = [r EXCEPT !.pc = "emit", !.held = m]
  <2>1. b \in S
    BY <1>3, <1>7
  <2> HIDE DEF b
  <2>2. PICK z \in S : Finds(r, z)
    BY <1>7 DEF Moving
  <2>3. Len(r.held) \in Nat /\ DOMAIN r.held = 1..Len(r.held)
    BY SeqFacts
  <2>4. DOMAIN m = 1..Len(r.held) /\ m = [n \in 1..Len(r.held) |-> m[n]]
    BY <2>3
  <2>5. Len(m) = Len(r.held)
    <3> HIDE DEF m
    <3> QED BY <2>3, <2>4, MapFacts
  <2>6. ASSUME NEW n \in 1..Len(m) PROVE Found(m[n], b)
    <3> DEFINE e == r.held[n]
               y == IF r.held[n].key THEN Opened(b, r.held[n].item) ELSE None
    <3>1. m[n] = [e EXCEPT !.blob = y]
      BY <2>3, <2>5, <2>6
    <3>2. {"blob", "item"} \subseteq DOMAIN e
      BY <2>2, <2>5, <2>6 DEF Finds, Found
    <3>3. y \in {None, Opened(b, e.item)}
      OBVIOUS
    <3> HIDE DEF m, e, y
    <3>4. {"blob", "item"} \subseteq DOMAIN m[n] /\ m[n].blob = y /\ m[n].item = e.item
      BY <3>1, <3>2
    <3> QED BY <3>3, <3>4 DEF Found
  <2>7. q.pc = "emit" /\ q.call = r.call /\ q.got = r.got /\ q.held = m
    <3> HIDE DEF m, q
    <3> QED BY <1>7 DEF Fields
  <2> HIDE DEF m, q
  <2>8. Finds(q, b)
    <3>1. Len(q.got) = 0
      BY <1>7, <2>7, SeqFacts
    <3> QED BY <2>6, <2>7, <3>1 DEF Finds
  <2>9. Moving(q, S, hurt, a, w)
    BY <1>2, <1>7, <2>1, <2>7, <2>8, LeftMoving
  <2> QED BY <2>9 DEF q
<1>8. CASE /\ Whole(s) /\ r.call.op # "read"
           /\ q = [r EXCEPT !.pc = "write", !.buf = Serialized(next), !.off = 0]
  <2>1. BlobArray(b) /\ Keeps(b, w)
    BY <1>3, <1>8
  <2> HIDE DEF b, item, content
  <2>2. /\ BlobArray(next) /\ Opened(next, item) = content
        /\ \A z : z # item => Opened(next, z) = Opened(b, z)
    BY <2>1, ReplaceFacts
  <2> DEFINE d == Serialized(next)
  <2>3. q = [r EXCEPT !.pc = "write", !.buf = d, !.off = 0]
    BY <1>8
  <2> HIDE DEF next
  <2>4. IsSeq(d) /\ d # <<>> /\ Whole(d) /\ Blobs(d) = next /\ Len(d) = Len(next) + 1 /\ Len(next) \in Nat
    BY <2>2, SerializedFacts DEF BlobArray
  <2>5. 0 < Len(d)
    BY <2>4
  <2> HIDE DEF d, q
  <2>6. /\ q.pc = "write" /\ q.call = r.call /\ q.got = r.got /\ q.held = r.held
        /\ q.buf = d /\ q.off = 0
    BY <2>3 DEF Fields
  <2>7. Keeps(next, {v \in w : v[1] # item})
    BY <2>1, <2>2 DEF Keeps
  <2>8. Writing(q, w)
    BY <2>2, <2>4, <2>5, <2>6, <2>7 DEF Writing, item, content
  <2>9. \E z \in S : Finds(q, z)
    BY <1>8, <2>6 DEF Moving, Finds
  <2>10. Moving(q, S, hurt, a, w)
    BY <1>2, <1>8, <2>6, <2>8, <2>9 DEF Moving
  <2> QED BY <2>10 DEF q
<1> HIDE DEF q, m, b, next
<1>9. Moving(q, S, hurt, a, w)
  BY <1>1, <1>4, <1>5, <1>6, <1>7, <1>8 DEF q
<1> QED BY <1>9 DEF q

\* A unit of a serialized array is a blob, or its checksum.
LEMMA SerializedUnits ==
    ASSUME NEW a, BlobArray(a), NEW n \in 1..Len(Serialized(a))
    PROVE  IsBlob(Serialized(a)[n]) \/ Serialized(a)[n] = Checksum(a)
<1> DEFINE f == Serialized(a)
<1>1. /\ Len(f) = Len(a) + 1 /\ Len(a) \in Nat /\ f[Len(a) + 1] = Checksum(a)
      /\ \A i \in 1..Len(a) : f[i] = a[i]
  BY SerializedFacts DEF BlobArray
<1>2. \A i \in 1..Len(a) : IsBlob(a[i])
  BY SeqFacts DEF BlobArray, IsBlob
<1> HIDE DEF f
<1>3. n \in 1..Len(f)
  BY DEF f
<1>4. CASE n = Len(a) + 1
  BY <1>1, <1>4 DEF f
<1>5. CASE n \in 1..Len(a)
  BY <1>1, <1>2, <1>5 DEF f
<1> QED BY <1>1, <1>3, <1>4, <1>5

\* A reader adds a fragment to what it has.
LEMMA FragmentFacts ==
    ASSUME NEW r, NEW S, NEW hurt, NEW a, Reading(r, S, hurt, a), BlobArray(a), a \in S,
           NEW f, f = Serialized(a), r.off <= Len(f), NEW p, p = Piece(f, r.off),
           NEW q, q.off = r.off + Len(p), q.buf = r.buf \o p
    PROVE  Reading(q, S, hurt, a)
<1> DEFINE off == r.off
           buf == r.buf
           o == q.off
           s == q.buf
           l == Len(buf)
           m == Len(p)
<1>1. IsSeq(f) /\ Len(f) = Len(a) + 1 /\ Len(a) \in Nat
  BY SerializedFacts DEF BlobArray
<1>2. /\ off \in Nat /\ off <= Len(f) /\ IsSeq(buf) /\ s = buf \o p /\ o = off + m
      /\ \A n \in 1..l : IsBlob(buf[n]) \/ \E z \in S : buf[n] = Checksum(z)
  BY DEF Reading
<1>3. hurt # TRUE => l = off /\ \A n \in 1..off : buf[n] = f[n]
  BY DEF Reading
<1>4. \A n \in 1..Len(f) : IsBlob(f[n]) \/ f[n] = Checksum(a)
  BY SerializedUnits
<1> HIDE DEF off, buf, o, s
<1>5. IsSeq(p) /\ m \in Nat /\ off + m <= Len(f) /\ \A i \in 1..m : p[i] = f[off + i]
  BY <1>1, <1>2, PieceFacts DEF off
<1>6. /\ IsSeq(s) /\ Len(s) = l + m /\ l \in Nat
      /\ \A i \in 1..l : s[i] = buf[i]
      /\ \A i \in 1..m : s[l + i] = p[i]
  BY <1>2, <1>5, ConcatFacts, SeqFacts
<1> HIDE DEF l, m
<1>7. o \in Nat /\ o <= Len(f)
  BY <1>2, <1>5
<1>8. ASSUME NEW n \in 1..Len(s) PROVE n \in 1..l \/ \E i \in 1..m : n = l + i
  <2>1. CASE n <= l
    BY <1>6, <1>8, <2>1
  <2>2. CASE n > l
    <3>1. n - l \in 1..m /\ n = l + (n - l)
      BY <1>5, <1>6, <1>8, <2>2
    <3> QED BY <3>1
  <2> QED BY <1>6, <1>8, <2>1, <2>2
<1>9. ASSUME NEW n \in 1..Len(s) PROVE IsBlob(s[n]) \/ \E z \in S : s[n] = Checksum(z)
  <2>1. CASE n \in 1..l
    BY <1>2, <1>6, <2>1
  <2>2. ASSUME NEW i \in 1..m, n = l + i PROVE IsBlob(s[n]) \/ \E z \in S : s[n] = Checksum(z)
    <3>1. off + i \in 1..Len(f)
      BY <1>1, <1>2, <1>5
    <3>2. s[n] = f[off + i]
      BY <1>5, <1>6, <2>2
    <3> QED BY <1>4, <3>1, <3>2
  <2> QED BY <1>8, <2>1, <2>2
<1>10. ASSUME hurt # TRUE PROVE Len(s) = o /\ \A n \in 1..o : s[n] = f[n]
  <2>1. l = off /\ \A n \in 1..off : buf[n] = f[n]
    BY <1>3, <1>10
  <2>2. Len(s) = o
    BY <1>2, <1>6, <2>1
  <2>3. ASSUME NEW n \in 1..o PROVE s[n] = f[n]
    <3>1. CASE n \in 1..l
      BY <1>6, <2>1, <3>1
    <3>2. ASSUME NEW i \in 1..m, n = l + i PROVE s[n] = f[n]
      BY <1>5, <1>6, <2>1, <3>2
    <3> QED BY <1>8, <2>2, <3>1, <3>2
  <2> QED BY <2>2, <2>3
<1> QED BY <1>6, <1>7, <1>9, <1>10 DEF Reading, o, s

\* A fragment is read.
LEMMA ReadFragmentStored == ASSUME IInv, Stored, NEW c \in Callers, ReadFragment(c) PROVE Stored'
<1> DEFINE r == at[c]
           S == past[c].seen
           t == past[c].hurt
           f == Serialized(array)
           piece == Piece(f, r.off)
           s == r.buf \o piece
           o == r.off + Len(piece)
           more == [r EXCEPT !.buf = s, !.off = o]
           all == ReadArray(r, s)
           gave == Gave(r)
           left == [r EXCEPT !.pc = "failed"]
<1>1. r.pc = "read" /\ UNCHANGED past /\ UNCHANGED <<array, partial, wrote>>
  BY DEF ReadFragment
<1>0. \/ r.off > Len(f) /\ Step(c, {gave})
      \/ ~(r.off > Len(f)) /\ Step(c, {more})
      \/ ~(r.off > Len(f)) /\ Len(piece) # Fragment /\ Step(c, {all} \union Unresolved(r, s))
  BY DEF ReadFragment
<1>2. \/ r.off > Len(f) /\ Step(c, {gave})
      \/ ~(r.off > Len(f)) /\ Step(c, {more})
      \/ ~(r.off > Len(f)) /\ Len(piece) # Fragment /\ Step(c, {all})
      \/ r.call.op = "get" /\ Step(c, {left})
  <2> HIDE DEF s, f, piece, more, all, gave
  <2> QED BY <1>0, ResolveStep
<1>3. r.pc \notin Final \union {"idle"}
  BY <1>1 DEF Final
<1>4. /\ Moving(r, S, t, array, wrote) /\ Fields(r) /\ IsSeq(r.held) /\ Active(c)
      /\ Fits(r, past[c].begun, cursor) /\ BlobArray(array)
  BY <1>3, StoredFacts
<1>5. Reading(r, S, t, array) /\ array \in S
  BY <1>1, <1>4 DEF Moving
<1>6. IsSeq(f) /\ Len(f) \in Nat /\ Whole(f) /\ r.off \in Nat
  <2>1. r.off \in Nat
    BY <1>5 DEF Reading
  <2>2. IsSeq(array)
    BY <1>4 DEF BlobArray
  <2>3. IsSeq(f) /\ Whole(f)
    BY <2>2, SerializedFacts
  <2> HIDE DEF f
  <2> QED BY <2>1, <2>3, SeqFacts
<1>7. ASSUME NEW q, Step(c, {q}), Moving(q, S, t, array, wrote) PROVE Stored'
  <2> DEFINE rs == {q}
  <2>1. Step(c, rs) /\ \A x \in rs : Moving(x, S, t, array, wrote)
    BY <1>7
  <2> HIDE DEF rs
  <2> QED BY <1>1, <1>4, <2>1, QuietStep
<1>8. CASE r.off > Len(f) /\ Step(c, {gave})
  <2>1. t = TRUE
    <3>1. t # TRUE => r.off <= Len(f)
      BY <1>5 DEF Reading
    <3>2. ~(r.off <= Len(f))
      BY <1>6, <1>8
    <3> QED BY <3>1, <3>2
  <2>2. Moving(gave, S, t, array, wrote)
    <3> HIDE DEF r, S, t
    <3> QED BY <1>1, <1>4, <2>1, GaveMoving
  <2> HIDE DEF gave
  <2> QED BY <1>7, <1>8, <2>2
<1>9. /\ more.pc = "read" /\ more.call = r.call /\ more.got = r.got /\ more.held = r.held
      /\ more.buf = s /\ more.off = o
  <2> HIDE DEF s, o
  <2> QED BY <1>1, <1>4 DEF Fields
<1>10. ASSUME ~(r.off > Len(f)) PROVE Reading(more, S, t, array)
  <2>1. r.off <= Len(f)
    BY <1>6, <1>10
  <2>2. /\ f = Serialized(array) /\ piece = Piece(f, r.off) /\ more.off = r.off + Len(piece)
        /\ more.buf = r.buf \o piece
    BY <1>9
  <2> HIDE DEF r, S, t, f, piece, more
  <2> QED BY <1>4, <1>5, <2>1, <2>2, FragmentFacts
<1> HIDE DEF more, s, o
<1>11. CASE ~(r.off > Len(f)) /\ Step(c, {more})
  <2>1. Reading(more, S, t, array)
    BY <1>10, <1>11
  <2>2. r.call.op = "get" => \E z \in S : Finds(more, z)
    BY <1>4, <1>9 DEF Moving, Finds
  <2>3. Moving(more, S, t, array, wrote)
    BY <1>1, <1>4, <1>9, <2>1, <2>2 DEF Moving
  <2> QED BY <1>7, <1>11, <2>3
<1>12. CASE ~(r.off > Len(f)) /\ Len(piece) # Fragment /\ Step(c, {all})
  <2>1. o = Len(f)
    <3>1. r.off <= Len(f)
      BY <1>6, <1>12
    <3> HIDE DEF f
    <3> QED BY <1>6, <1>12, <3>1, PieceFacts DEF o
  <2>2. /\ IsSeq(s) /\ (\A n \in 1..Len(s) : IsBlob(s[n]) \/ \E z \in S : s[n] = Checksum(z))
        /\ t # TRUE => Len(s) = o /\ \A n \in 1..o : s[n] = f[n]
    BY <1>9, <1>10, <1>12 DEF Reading
  <2>3. ~Whole(s) => t = TRUE
    <3> SUFFICES ASSUME t # TRUE PROVE Whole(s)
      OBVIOUS
    <3>1. Len(s) = Len(f) /\ \A n \in 1..Len(s) : s[n] = f[n]
      BY <2>1, <2>2
    <3>2. s = f
      <4> HIDE DEF f
      <4> QED BY <1>6, <2>2, <3>1, SeqEqual
    <3> QED BY <1>6, <3>2
  <2>4. r.call.op \in {"read", "get"} /\ (r.call.op = "get" => r.got = <<>>)
    BY <1>1, <1>4 DEF Fits, Phase
  <2>5. Moving(all, S, t, array, wrote)
    <3>1. IsSeq(s) /\ \A n \in 1..Len(s) : IsBlob(s[n]) \/ \E z \in S : s[n] = Checksum(z)
      BY <2>2
    <3> HIDE DEF r, S, t
    <3> QED BY <1>1, <1>4, <2>3, <2>4, <3>1, ReadArrayMoving
  <2> HIDE DEF all
  <2> QED BY <1>7, <1>12, <2>5
<1>13. CASE r.call.op = "get" /\ Step(c, {left})
  <2>1. left.pc = "failed" /\ left.call = r.call /\ left.got = r.got /\ left.held = r.held
    BY <1>4 DEF Fields
  <2> HIDE DEF left
  <2>2. \E z \in S : Finds(left, z)
    BY <1>4, <1>13, <2>1 DEF Moving, Finds
  <2>3. array \in S /\ \A z \in S : BlobArray(z)
    BY <1>3, <1>4 DEF Moving
  <2>4. left.pc \in Final
    BY <2>1 DEF Final
  <2>5. Moving(left, S, t, array, wrote)
    <3> HIDE DEF r, S, t
    <3> QED BY <1>13, <2>1, <2>2, <2>3, <2>4, LeftMoving
  <2> QED BY <1>7, <1>13, <2>5
<1> QED BY <1>2, <1>8, <1>11, <1>12, <1>13

\* The authenticator commits what ends with a fragment of a whole array only if
\* the fragment is the last one: the array it commits is the one that was sent.
LEMMA CommitFacts ==
    ASSUME NEW buf, IsSeq(buf), Whole(buf), BlobArray(Blobs(buf)), NEW off \in Nat, off < Len(buf),
           NEW p, p = Piece(buf, off), NEW d, Whole(d), d[Len(d)] = p[Len(p)]
    PROVE  off + Len(p) = Len(buf) /\ Blobs(d) = Blobs(buf)
<1> DEFINE n == off + Len(p)
<1>1. buf # <<>> /\ buf[Len(buf)] = Checksum(Blobs(buf)) /\ d[Len(d)] = Checksum(Blobs(d))
  BY DEF Whole
<1>2. /\ Len(buf) \in Nat \ {0} /\ Len(Blobs(buf)) = Len(buf) - 1
      /\ \A i \in 1..(Len(buf) - 1) : Blobs(buf)[i] = buf[i]
  BY <1>1, BlobsFacts
<1>3. off <= Len(buf)
  BY <1>2
<1>4. /\ Len(p) \in Nat /\ n <= Len(buf) /\ Len(p) > 0
      /\ \A i \in 1..Len(p) : p[i] = buf[off + i]
  BY <1>3, PieceFacts
<1>5. n \in 1..Len(buf) /\ buf[n] = Checksum(Blobs(d))
  <2> DEFINE l == Len(buf)
             m == Len(p)
  <2>1. l \in Nat /\ m \in Nat /\ m > 0 /\ off + m <= l
    BY <1>2, <1>4
  <2> HIDE DEF l, m
  <2>2. off + m \in 1..l /\ m \in 1..m
    BY <2>1
  <2> QED BY <1>1, <1>4, <2>2 DEF l, m
<1>6. n = Len(buf)
  <2> SUFFICES ASSUME n # Len(buf) PROVE FALSE
    OBVIOUS
  <2> HIDE DEF n
  <2>1. n \in 1..(Len(buf) - 1)
    <3> DEFINE l == Len(buf)
    <3>1. l \in Nat /\ n \in 1..l /\ n # l
      BY <1>2, <1>5
    <3> HIDE DEF l
    <3>2. n \in 1..(l - 1)
      BY <3>1
    <3> QED BY <3>2 DEF l
  <2>2. Blobs(buf)[n] = buf[n] /\ n \in 1..Len(Blobs(buf))
    BY <1>2, <2>1
  <2>3. IsBlob(Blobs(buf)[n])
    BY <2>2, SeqFacts DEF BlobArray, IsBlob
  <2> QED BY <1>5, <2>2, <2>3, ChecksumFacts
<1>7. Checksum(Blobs(d)) = Checksum(Blobs(buf))
  BY <1>1, <1>5, <1>6
<1>8. Blobs(d) = Blobs(buf)
  BY <1>7, ChecksumFacts
<1> QED BY <1>6, <1>8

\* Marking the first assertion as written leaves the blobs of all.
LEMMA WrittenFound ==
    ASSUME NEW s, IsSeq(s), NEW h, h = [s EXCEPT ![1].written = TRUE]
    PROVE  /\ Len(h) = Len(s)
           /\ \A z : \A n \in 1..Len(s) : Found(s[n], z) => Found(h[n], z)
<1>1. Len(s) \in Nat /\ DOMAIN s = 1..Len(s)
  BY SeqFacts
<1>2. DOMAIN h = 1..Len(s) /\ h = [n \in 1..Len(s) |-> h[n]]
  BY <1>1
<1>3. Len(h) = Len(s)
  BY <1>1, <1>2, MapFacts
<1>4. ASSUME NEW z, NEW n \in 1..Len(s), Found(s[n], z) PROVE Found(h[n], z)
  <2>1. CASE n # 1
    <3>1. h[n] = s[n]
      BY <1>1, <2>1
    <3> QED BY <1>4, <3>1
  <2>2. CASE n = 1
    <3> DEFINE e == s[n]
    <3>1. h[n] = [e EXCEPT !.written = TRUE]
      BY <1>1, <2>2
    <3>2. {"blob", "item"} \subseteq DOMAIN e /\ e.blob \in {None, Opened(z, e.item)}
      BY <1>4 DEF Found
    <3> HIDE DEF e
    <3>3. {"blob", "item"} \subseteq DOMAIN h[n] /\ h[n].blob = e.blob /\ h[n].item = e.item
      BY <3>1, <3>2
    <3> QED BY <3>2, <3>3 DEF Found
  <2> QED BY <2>1, <2>2
<1> QED BY <1>3, <1>4

\* A writer goes on with the next fragment.
LEMMA NextMoving ==
    ASSUME NEW r, NEW S, NEW hurt, NEW a, NEW w, Moving(r, S, hurt, a, w), r.pc = "write",
           r.call.op \in {"set", "get"}, NEW q, q.call = r.call, q.pc = "write", q.buf = r.buf,
           q.held = r.held, q.off \in Nat, q.off < Len(r.buf), \A z : Finds(r, z) => Finds(q, z)
    PROVE  Moving(q, S, hurt, a, w)
<1>1. Writing(r, w)
  BY DEF Moving
<1>2. Writing(q, w)
  BY <1>1 DEF Writing
<1>3. r.call.op = "get" => \E z \in S : Finds(q, z)
  BY DEF Moving
<1> QED BY <1>2, <1>3 DEF Moving

\* What was committed has the confirmed blobs.
LEMMA CommitKeeps ==
    ASSUME NEW r, NEW w, Writing(r, w), r.call.op \in {"set", "get"}, NEW a, a = Blobs(r.buf),
           NEW out, out = {v \in w : r.call.op = "set" \/ v[1] = r.held[1].item},
           NEW v \in (w \ out) \union Confirmed(r)
    PROVE  Opened(a, v[1]) = v[2]
<1>1. CASE r.call.op = "set"
  BY <1>1 DEF Confirmed
<1>2. CASE r.call.op = "get"
  <2> DEFINE item == r.held[1].item
             content == r.call.x.content
  <2>1. Opened(a, item) = content /\ Keeps(a, {u \in w : u[1] # item})
    BY <1>2 DEF Writing
  <2>2. v = <<item, content>> \/ (v \in w /\ v[1] # item)
    BY <1>2 DEF Confirmed
  <2> HIDE DEF item, content
  <2>3. CASE v = <<item, content>>
    BY <2>1, <2>3
  <2>4. CASE v \in w /\ v[1] # item
    BY <2>1, <2>4 DEF Keeps
  <2> QED BY <2>2, <2>3, <2>4
<1> QED BY <1>1, <1>2

\* A fragment is written.
LEMMA WriteFragmentStored == ASSUME IInv, Stored, NEW c \in Callers, WriteFragment(c) PROVE Stored'
<1> DEFINE r == at[c]
           S == past[c].seen
           t == past[c].hurt
           piece == Piece(r.buf, r.off)
           p == IF r.off = 0 THEN [data |-> piece, length |-> Len(r.buf)]
                ELSE [partial EXCEPT !.data = @ \o piece]
           o == r.off + Len(piece)
           last == o = Len(r.buf)
           out == {v \in wrote : r.call.op = "set" \/ v[1] = r.held[1].item}
           y == IF last THEN "done" ELSE "write"
           sent == [r EXCEPT !.off = o, !.pc = y]
           ok == IF last /\ r.call.op = "get"
                 THEN [sent EXCEPT !.pc = "emit", !.held[1].written = TRUE] ELSE sent
           gave == Gave(r)
           b == Blobs(p.data)
<1>1. r.pc = "write"
  BY DEF WriteFragment
<1>2. \/ Step(c, {gave}) /\ UNCHANGED <<array, partial, past, wrote>>
      \/ /\ r.off # 0 => Len(partial.data) = r.off
         /\ Step(c, {ok, gave}) /\ partial' = p /\ UNCHANGED <<array, past, wrote>>
      \/ /\ r.off # 0 => Len(partial.data) = r.off
         /\ Whole(p.data) /\ Commit(b)
         /\ \/ Step(c, {ok}) /\ wrote' = (wrote \ out) \union Confirmed(r)
            \/ Step(c, {gave}) /\ wrote' = wrote \ out
      \/ Step(c, {gave}) /\ partial' = Nothing /\ UNCHANGED <<array, past, wrote>>
  BY DEF WriteFragment
<1>3. r.pc \notin Final \union {"idle"}
  BY <1>1 DEF Final
<1>4. /\ Moving(r, S, t, array, wrote) /\ Fields(r) /\ IsSeq(r.held) /\ Active(c)
      /\ Fits(r, past[c].begun, cursor) /\ PartialShape /\ PastShape
  BY <1>3, StoredFacts DEF IInv
<1>5. /\ Writing(r, wrote) /\ array \in S /\ (\A s \in S : BlobArray(s))
      /\ r.call.op \in {"set", "get"}
  <2>1. Writing(r, wrote) /\ array \in S /\ \A s \in S : BlobArray(s)
    BY <1>1, <1>4 DEF Moving
  <2>2. r.call.op \in {"set", "get"}
    BY <1>1, <1>4 DEF Fits, Phase
  <2> QED BY <2>1, <2>2
<1>6. /\ IsSeq(r.buf) /\ r.off \in Nat /\ r.off < Len(r.buf) /\ Len(r.buf) \in Nat /\ Whole(r.buf)
      /\ BlobArray(Blobs(r.buf))
  <2>1. IsSeq(r.buf) /\ r.off \in Nat /\ r.off < Len(r.buf) /\ Whole(r.buf) /\ BlobArray(Blobs(r.buf))
    BY <1>5 DEF Writing
  <2>2. Len(r.buf) \in Nat
    BY <2>1, SeqFacts
  <2> QED BY <2>1, <2>2
<1>7. IsSeq(piece) /\ Len(piece) \in Nat /\ o \in Nat /\ o <= Len(r.buf) /\ Len(piece) > 0
  <2> DEFINE l == r.off
             buf == r.buf
  <2>1. IsSeq(buf) /\ l \in Nat /\ l < Len(buf) /\ Len(buf) \in Nat /\ l <= Len(buf)
    BY <1>6
  <2> HIDE DEF l, buf
  <2>2. /\ IsSeq(Piece(buf, l)) /\ Len(Piece(buf, l)) \in Nat /\ l + Len(Piece(buf, l)) <= Len(buf)
        /\ Len(Piece(buf, l)) > 0
    BY <2>1, PieceFacts
  <2>3. l + Len(Piece(buf, l)) \in Nat
    BY <2>1, <2>2
  <2> QED BY <2>2, <2>3 DEF l, buf
<1>8. /\ ok.call = r.call /\ ok.got = r.got /\ ok.buf = r.buf /\ ok.off = o
      /\ last => ok.pc \in {"done", "emit"}
      /\ ~last => ok.pc = "write" /\ ok.held = r.held
      /\ \A z : Finds(r, z) => Finds(ok, z)
  <2> DEFINE h == [r.held EXCEPT ![1].written = TRUE]
             x == "emit"
  <2>1. /\ sent = [r EXCEPT !.off = o, !.pc = y]
        /\ \/ ok = sent
           \/ last /\ ok = [sent EXCEPT !.pc = x, !.held = [sent.held EXCEPT ![1].written = TRUE]]
        /\ last => y = "done"
        /\ ~last => y = "write"
    OBVIOUS
  <2> HIDE DEF o, y, sent, ok, last, r
  <2>2. sent.held = r.held
    BY <1>4, <2>1 DEF Fields
  <2>3. ok = sent \/ (last /\ ok = [sent EXCEPT !.pc = x, !.held = h])
    BY <2>1, <2>2
  <2>4. Len(h) = Len(r.held) /\ \A z : \A n \in 1..Len(r.held) : Found(r.held[n], z) => Found(h[n], z)
    <3> DEFINE g == r.held
    <3>1. IsSeq(g) /\ h = [g EXCEPT ![1].written = TRUE]
      BY <1>4
    <3> HIDE DEF g, h
    <3>2. Len(h) = Len(g) /\ \A z : \A n \in 1..Len(g) : Found(g[n], z) => Found(h[n], z)
      BY <3>1, WrittenFound
    <3> QED BY <3>2 DEF g
  <2>5. CASE ok = sent
    <3>1. /\ ok.pc = y /\ ok.call = r.call /\ ok.got = r.got /\ ok.held = r.held
          /\ ok.buf = r.buf /\ ok.off = o
      BY <1>4, <2>1, <2>5 DEF Fields
    <3> QED BY <2>1, <3>1 DEF Finds
  <2>6. CASE last /\ ok = [sent EXCEPT !.pc = x, !.held = h]
    <3> HIDE DEF h
    <3>1. /\ ok.pc = x /\ ok.call = r.call /\ ok.got = r.got /\ ok.held = h
          /\ ok.buf = r.buf /\ ok.off = o
      BY <1>4, <2>1, <2>6 DEF Fields
    <3>2. ASSUME NEW z, Finds(r, z) PROVE Finds(ok, z)
      BY <2>4, <3>1, <3>2 DEF Finds
    <3> QED BY <2>6, <3>1, <3>2
  <2> QED BY <2>3, <2>5, <2>6
<1>9. Moving(gave, S, t, array, wrote)
  <2> HIDE DEF r, S, t
  <2> QED BY <1>1, <1>4, <1>5, GaveMoving
<1> HIDE DEF ok, gave, sent, y
<1>10. Moving(ok, S, t, array, wrote)
  <2>1. CASE last
    <3>1. r.call.op = "get" => \E z \in S : Finds(ok, z)
      BY <1>4, <1>8 DEF Moving
    <3>2. ok.pc \in Final \union {"emit"}
      BY <1>8, <2>1 DEF Final
    <3>3. ok.call.op # "read"
      BY <1>5, <1>8
    <3> HIDE DEF S, t
    <3> QED BY <1>5, <1>8, <3>1, <3>2, <3>3, LeftMoving
  <2>2. CASE ~last
    <3>1. o < Len(r.buf)
      <4> HIDE DEF o
      <4> QED BY <1>6, <1>7, <2>2
    <3> HIDE DEF r, S, t, o, last
    <3> QED BY <1>1, <1>4, <1>5, <1>7, <1>8, <2>2, <3>1, NextMoving
  <2> QED BY <2>1, <2>2
<1>11. ASSUME NEW rs, rs \subseteq {ok, gave}, Step(c, rs), UNCHANGED <<array, past, wrote>>, PartialShape'
       PROVE  Stored'
  <2>1. \A q \in rs : Moving(q, S, t, array, wrote)
    BY <1>9, <1>10, <1>11
  <2> QED BY <1>4, <1>11, <2>1, ArrayStep
<1>12. r.off # 0 => p = [partial EXCEPT !.data = partial.data \o piece]
  OBVIOUS
<1>13. ASSUME r.off # 0 => Len(partial.data) = r.off
       PROVE  /\ IsSeq(p.data) /\ p = [data |-> p.data, length |-> p.length]
              /\ p.data[Len(p.data)] = piece[Len(piece)]
  <2>1. CASE r.off = 0
    <3>1. p.data = piece /\ p = [data |-> p.data, length |-> p.length]
      BY <2>1
    <3> QED BY <1>7, <3>1
  <2>2. CASE r.off # 0
    <3> DEFINE pre == partial.data
               data == pre \o piece
    <3>1. IsSeq(pre) /\ partial = [data |-> pre, length |-> partial.length]
      BY <1>4 DEF PartialShape
    <3>2. p = [partial EXCEPT !.data = data]
      BY <1>12, <2>2
    <3> HIDE DEF data, p
    <3>3. p.data = data /\ p = [data |-> p.data, length |-> p.length]
      BY <3>1, <3>2
    <3> HIDE DEF pre, piece
    <3>4. IsSeq(data) /\ data[Len(data)] = piece[Len(piece)]
      <4>1. /\ IsSeq(data) /\ Len(data) = Len(pre) + Len(piece)
            /\ \A i \in 1..Len(piece) : data[Len(pre) + i] = piece[i]
        BY <1>7, <3>1, ConcatFacts DEF data
      <4>2. Len(piece) \in 1..Len(piece)
        BY <1>7
      <4> QED BY <4>1, <4>2
    <3> QED BY <3>3, <3>4
  <2> QED BY <2>1, <2>2
<1> HIDE DEF p
<1>14. CASE Step(c, {gave}) /\ UNCHANGED <<array, partial, past, wrote>>
  <2> DEFINE rs == {gave}
  <2>1. rs \subseteq {ok, gave} /\ Step(c, rs)
    BY <1>14
  <2>2. PartialShape'
    BY <1>4, <1>14 DEF PartialShape
  <2> HIDE DEF rs
  <2> QED BY <1>11, <1>14, <2>1, <2>2
<1>15. CASE /\ r.off # 0 => Len(partial.data) = r.off
            /\ Step(c, {ok, gave}) /\ partial' = p /\ UNCHANGED <<array, past, wrote>>
  <2>1. PartialShape'
    BY <1>13, <1>15 DEF PartialShape
  <2> QED BY <1>11, <1>15, <2>1
<1>16. CASE Step(c, {gave}) /\ partial' = Nothing /\ UNCHANGED <<array, past, wrote>>
  <2> DEFINE rs == {gave}
  <2>1. rs \subseteq {ok, gave} /\ Step(c, rs)
    BY <1>16
  <2>2. PartialShape'
    BY <1>16, SeqFacts DEF PartialShape, Nothing
  <2> HIDE DEF rs
  <2> QED BY <1>11, <1>16, <2>1, <2>2
<1>17. CASE /\ r.off # 0 => Len(partial.data) = r.off
            /\ Whole(p.data) /\ Commit(b)
            /\ \/ Step(c, {ok}) /\ wrote' = (wrote \ out) \union Confirmed(r)
               \/ Step(c, {gave}) /\ wrote' = wrote \ out
  <2>1. last /\ b = Blobs(r.buf)
    <3> DEFINE d == p.data
               buf == r.buf
               off == r.off
    <3>1. /\ Whole(d) /\ d[Len(d)] = piece[Len(piece)] /\ piece = Piece(buf, off)
          /\ IsSeq(buf) /\ Whole(buf) /\ BlobArray(Blobs(buf)) /\ off \in Nat /\ off < Len(buf)
      BY <1>6, <1>13, <1>17
    <3> HIDE DEF d, buf, off, piece
    <3>2. off + Len(piece) = Len(buf) /\ Blobs(d) = Blobs(buf)
      BY <3>1, CommitFacts
    <3> QED BY <3>2 DEF d, buf, off
  <2>2. /\ array' = b /\ partial' = Nothing /\ BlobArray(b)
        /\ past' = [d \in Callers |-> [past[d] EXCEPT !.seen = @ \union {b}]]
    BY <1>6, <1>17, <2>1 DEF Commit
  <2> HIDE DEF b, out, last
  <2>3. PartialShape'
    BY <2>2, SeqFacts DEF PartialShape, Nothing
  <2>4. ASSUME NEW d \in Callers PROVE past'[d].seen = past[d].seen \union {b} /\ past'[d].hurt = past[d].hurt
    <3> DEFINE u == past[d].seen \union {b}
    <3>1. past'[d] = [past[d] EXCEPT !.seen = u]
      BY <2>2
    <3> HIDE DEF u
    <3>2. past'[d].seen = u /\ past'[d].hurt = past[d].hurt
      BY <1>4, <3>1 DEF PastShape
    <3> QED BY <3>2 DEF u
  <2>5. ASSUME NEW d \in Callers PROVE Grows(d)
    <3>1. \A s \in past[d].seen : BlobArray(s)
      BY DEF Stored, Moving
    <3> QED BY <2>2, <2>4, <3>1 DEF Grows
  <2>6. Keeps(array', wrote')
    <3> SUFFICES ASSUME NEW v \in wrote' PROVE Opened(array', v[1]) = v[2]
      BY DEF Keeps
    <3>1. v \in (wrote \ out) \union Confirmed(r)
      BY <1>17
    <3>2. out = {u \in wrote : r.call.op = "set" \/ u[1] = r.held[1].item}
      BY DEF out
    <3>3. Opened(b, v[1]) = v[2]
      <4> HIDE DEF r
      <4> QED BY <1>5, <2>1, <3>1, <3>2, CommitKeeps
    <3> QED BY <2>2, <3>3
  <2> DEFINE S2 == past'[c].seen
             t2 == past'[c].hurt
             w2 == wrote'
  <2>7. b \in S2 /\ S \subseteq S2 /\ \A s \in S2 : BlobArray(s)
    BY <2>4, <2>5 DEF Grows
  <2>8. ASSUME NEW q \in {ok, gave} PROVE Moving(q, S2, t2, b, w2)
    <3>1. q.pc \in Final \union {"emit"} /\ q.call = r.call /\ \A z : Finds(r, z) => Finds(q, z)
      <4>1. CASE q = ok
        BY <1>8, <2>1, <4>1 DEF Final
      <4>2. CASE q = gave
        <5> DEFINE x == IF r.call.op = "get" THEN "emit" ELSE "failed"
        <5>1. q = [r EXCEPT !.pc = x] /\ x \in Final \union {"emit"}
          BY <4>2 DEF gave, Gave, Final
        <5> HIDE DEF x
        <5>2. q.pc = x /\ q.call = r.call /\ q.got = r.got /\ q.held = r.held
          BY <1>4, <5>1 DEF Fields
        <5> QED BY <5>1, <5>2 DEF Finds
      <4> QED BY <2>8, <4>1, <4>2
    <3>2. r.call.op = "get" => \E z \in S2 : Finds(q, z)
      BY <1>4, <2>7, <3>1 DEF Moving
    <3> HIDE DEF S2, t2, w2, r
    <3> QED BY <1>5, <2>7, <3>1, <3>2, LeftMoving
  <2>9. PICK rs \in {{ok}, {gave}} : Step(c, rs)
    BY <1>17
  <2>10. \A q \in rs : Moving(q, past'[c].seen, past'[c].hurt, array', wrote')
    BY <2>2, <2>8, <2>9
  <2> QED BY <1>4, <2>2, <2>3, <2>5, <2>6, <2>9, <2>10, StoredStep
<1> QED BY <1>2, <1>14, <1>15, <1>16, <1>17

\* A call is made: the array it meets has every confirmed blob.
LEMMA CallStored ==
    ASSUME IInv, Stored, NEW c \in Callers, NEW k \in CallsOf[c], Call(c, k)
    PROVE  Stored'
<1> DEFINE S == {array}
           t == FALSE
<1>1. /\ at[c].pc = "idle" /\ DOMAIN at = Callers /\ PastShape /\ UNCHANGED <<array, partial, wrote>>
      /\ Fits(at[c], past[c].begun, cursor) /\ Moving(at[c], past[c].seen, past[c].hurt, array, wrote)
      /\ BlobArray(array) /\ PartialShape /\ Keeps(array, wrote)
  BY DEF Call, IInv, Enumerating, Stored, authenticator
<1>2. /\ Fields(at[c]) /\ at[c].got = <<>> /\ at[c].held = <<>> /\ at[c].call.op = "none"
      /\ at[c].buf = <<>> /\ at[c].off = 0
  BY <1>1 DEF Fits, Phase, Moving
<1>3. past'[c].seen = S /\ past'[c].hurt = t /\ \A d \in Callers \ {c} : past'[d] = past[d]
  BY <1>1 DEF Call, PastShape
<1>4. Len(Serialized(array)) \in Nat
  <2>1. Len(array) \in Nat /\ Len(Serialized(array)) = Len(array) + 1
    BY <1>1, SerializedFacts DEF BlobArray
  <2> QED BY <2>1
<1>5. (\A d \in Callers \ {c} : at'[d] = at[d]) /\ Moving(at'[c], S, t, array, wrote)
  <2>1. CASE Allowed(k)
    <3> DEFINE x == FirstStep(k)
               y == Request(k)
               z == IF k.op = "set" THEN Serialized(k.blobs) ELSE <<>>
               q == at'[c]
    <3>1. at' = [at EXCEPT ![c] = [@ EXCEPT !.pc = x, !.call = k, !.req = y, !.buf = z]]
      BY <2>1 DEF Call
    <3>2. /\ k.op \in Enumerations \union {"make", "read", "set"}
          /\ k.op = "set" => BlobArray(k.blobs)
      BY CallsAssumption
    <3>3. /\ k.op \in Enumerations \union {"make"} => x \in {"keys", "begin"} /\ z = <<>>
          /\ k.op = "read" => x = "read" /\ z = <<>>
          /\ k.op = "set" => x = "write" /\ z = Serialized(k.blobs)
      BY DEF FirstStep, Enumerations
    <3> HIDE DEF x, y, z
    <3>4. /\ \A d \in Callers \ {c} : at'[d] = at[d]
          /\ q = [at[c] EXCEPT !.pc = x, !.call = k, !.req = y, !.buf = z]
      BY <1>1, <3>1
    <3> HIDE DEF q
    <3>5. /\ q.pc = x /\ q.call = k /\ q.got = <<>> /\ q.held = <<>>
          /\ q.buf = z /\ q.off = 0
      BY <1>2, <3>4 DEF Fields
    <3>6. (\A s \in S : BlobArray(s) /\ Keeps(s, wrote)) /\ array \in S
      BY <1>1
    <3>7. Finds(q, array)
      BY <3>5, SeqFacts DEF Finds
    <3>8. Moving(q, S, t, array, wrote)
      <4> HIDE DEF S, t
      <4>1. CASE k.op \in Enumerations \union {"make"}
        BY <3>3, <3>5, <3>6, <3>7, <4>1 DEF Moving, Enumerations
      <4>2. CASE k.op = "read"
        <5>1. IsSeq(q.buf) /\ Len(q.buf) = 0 /\ q.off = 0
          BY <3>3, <3>5, <4>2, SeqFacts
        <5>2. 0 <= Len(Serialized(array)) /\ 1..0 = {}
          BY <1>4
        <5>3. \A n \in 1..Len(q.buf) : IsBlob(q.buf[n]) \/ \E s \in S : q.buf[n] = Checksum(s)
          BY <5>1, <5>2
        <5>4. /\ Len(q.buf) = q.off /\ q.off <= Len(Serialized(array)) /\ q.off \in Nat
              /\ \A n \in 1..q.off : q.buf[n] = Serialized(array)[n]
          BY <5>1, <5>2
        <5>5. Reading(q, S, t, array)
          BY <5>1, <5>3, <5>4 DEF Reading
        <5> QED BY <3>3, <3>5, <3>6, <4>2, <5>5 DEF Moving
      <4>3. CASE k.op = "set"
        <5> DEFINE a == k.blobs
        <5>1. BlobArray(a) /\ z = Serialized(a)
          BY <3>2, <3>3, <4>3
        <5> HIDE DEF a
        <5>2. IsSeq(z) /\ z # <<>> /\ Whole(z) /\ Blobs(z) = a /\ Len(z) = Len(a) + 1 /\ Len(a) \in Nat
          BY <5>1, SerializedFacts DEF BlobArray
        <5>3. 0 < Len(z)
          BY <5>2
        <5>4. Writing(q, wrote)
          BY <3>5, <4>3, <5>1, <5>2, <5>3 DEF Writing
        <5> QED BY <3>3, <3>5, <3>6, <4>3, <5>4 DEF Moving
      <4> QED BY <3>2, <4>1, <4>2, <4>3
    <3> QED BY <3>4, <3>8 DEF q
  <2>2. CASE ~Allowed(k)
    <3> DEFINE q == at'[c]
    <3>1. at' = [at EXCEPT ![c].pc = "refused"]
      BY <2>2 DEF Call
    <3>2. /\ \A d \in Callers \ {c} : at'[d] = at[d]
          /\ q = [at[c] EXCEPT !.pc = "refused"]
      BY <1>1, <3>1
    <3> HIDE DEF q
    <3>3. q.call = at[c].call /\ q.pc = "refused"
      BY <1>2, <3>2, SetPc
    <3>4. (\A s \in S : BlobArray(s)) /\ array \in S
      BY <1>1
    <3>5. Moving(q, S, t, array, wrote)
      <4> HIDE DEF S, t
      <4> QED BY <1>2, <3>3, <3>4, LeftMoving DEF Final
    <3> QED BY <3>2, <3>5 DEF q
  <2> QED BY <2>1, <2>2
<1> HIDE DEF S, t
<1>6. BlobArray(array') /\ PartialShape' /\ Keeps(array', wrote')
  BY <1>1 DEF PartialShape
<1> SUFFICES ASSUME NEW d \in Callers
             PROVE  Moving(at'[d], past'[d].seen, past'[d].hurt, array', wrote')
  BY <1>6 DEF Stored
<1>7. CASE d = c
  BY <1>1, <1>3, <1>5, <1>7
<1>8. CASE d # c
  <2>1. Moving(at[d], past[d].seen, past[d].hurt, array, wrote)
    BY DEF Stored
  <2> QED BY <1>1, <1>3, <1>5, <1>8, <2>1
<1> QED BY <1>7, <1>8

\* A call that another platform disturbs.
LEMMA OtherMoving ==
    ASSUME NEW r, NEW S, NEW hurt, NEW a, NEW w, Moving(r, S, hurt, a, w),
           NEW S2, S \subseteq S2, \A s \in S2 : BlobArray(s), NEW a2, a2 = a \/ a2 \in S2,
           NEW w2, (S2 = S /\ w2 = w) \/ w2 = {}, NEW t, t = TRUE
    PROVE  Moving(r, S2, t, a2, w2)
<1>1. r.pc # "idle" => a2 \in S2
  BY DEF Moving
<1>2. r.pc \in {"keys", "begin", "next", "yield", "read"} => \A s \in S2 : Keeps(s, w2)
  BY DEF Moving, Keeps
<1>3. r.pc = "read" => Reading(r, S2, t, a2)
  <2> SUFFICES ASSUME r.pc = "read" PROVE Reading(r, S2, t, a2)
    OBVIOUS
  <2>1. Reading(r, S, hurt, a)
    BY DEF Moving
  <2>2. /\ IsSeq(r.buf) /\ r.off \in Nat
        /\ \A n \in 1..Len(r.buf) : IsBlob(r.buf[n]) \/ \E s \in S2 : r.buf[n] = Checksum(s)
    BY <2>1 DEF Reading
  <2> QED BY <2>2 DEF Reading
<1>4. r.pc = "write" => Writing(r, w2)
  <2> SUFFICES ASSUME r.pc = "write" PROVE Writing(r, w2)
    OBVIOUS
  <2>1. Writing(r, w)
    BY DEF Moving
  <2>2. CASE w2 = w
    BY <2>1, <2>2
  <2>3. CASE w2 = {}
    BY <2>1, <2>3 DEF Writing, Keeps
  <2> QED BY <2>2, <2>3
<1>5. /\ r.call.op = "read" => (r.pc = "done" => r.got[1] \in S2)
      /\ r.call.op = "get" => \E s \in S2 : Finds(r, s)
  BY DEF Moving
<1>6. r.pc \in {"idle", "keys", "begin", "next", "yield"} => r.buf = <<>> /\ r.off = 0
  BY DEF Moving
<1> QED BY <1>1, <1>2, <1>3, <1>4, <1>5, <1>6 DEF Moving

\* Another platform uses the authenticator.
LEMMA OtherPlatformStored == ASSUME IInv, Stored, OtherPlatform PROVE Stored'
<1>1. PastShape /\ UNCHANGED at
  BY DEF IInv, OtherPlatform
<1>2. PartialShape /\ BlobArray(array) /\ Keeps(array, wrote)
  BY DEF Stored
<1>3. ASSUME NEW a2, NEW w2, array' = a2, wrote' = w2, BlobArray(a2), Keeps(a2, w2), PartialShape',
             \A d \in Callers :
                /\ past'[d].hurt = TRUE /\ past[d].seen \subseteq past'[d].seen
                /\ \A s \in past'[d].seen : BlobArray(s)
                /\ a2 = array \/ a2 \in past'[d].seen
                /\ (past'[d].seen = past[d].seen /\ w2 = wrote) \/ w2 = {}
      PROVE  Stored'
  <2> SUFFICES ASSUME NEW d \in Callers
               PROVE  Moving(at'[d], past'[d].seen, past'[d].hurt, array', wrote')
    BY <1>3 DEF Stored
  <2> DEFINE r == at[d]
             S == past[d].seen
             t == past[d].hurt
             S2 == past'[d].seen
             t2 == past'[d].hurt
             a == array
             w == wrote
  <2>1. /\ Moving(r, S, t, a, w) /\ S \subseteq S2 /\ (\A s \in S2 : BlobArray(s)) /\ t2 = TRUE
        /\ a2 = a \/ a2 \in S2
        /\ (S2 = S /\ w2 = w) \/ w2 = {}
    BY <1>3 DEF Stored
  <2> HIDE DEF r, S, t, S2, t2, a, w
  <2>2. Moving(r, S2, t2, a2, w2)
    BY <2>1, OtherMoving
  <2> QED BY <1>1, <1>3, <2>2 DEF r, S2, t2
<1>4. ASSUME NEW d \in Callers PROVE \A s \in past[d].seen : BlobArray(s)
  BY DEF Stored, Moving
<1>5. CASE /\ past' = [c \in Callers |-> [past[c] EXCEPT !.hurt = TRUE]]
           /\ UNCHANGED <<array, wrote>> /\ PartialShape'
  <2>1. \A d \in Callers : past'[d].hurt = TRUE /\ past'[d].seen = past[d].seen
    BY <1>1, <1>5 DEF PastShape
  <2> QED BY <1>2, <1>3, <1>4, <1>5, <2>1
<1>6. ASSUME NEW a \in Arrays, array' = a, partial' = Nothing, wrote' = {},
             past' = [c \in Callers |-> [[past[c] EXCEPT !.hurt = TRUE] EXCEPT !.seen = @ \union {a}]]
      PROVE  Stored'
  <2>1. BlobArray(a)
    BY CallsAssumption
  <2>2. PartialShape'
    BY <1>6, SeqFacts DEF PartialShape, Nothing
  <2>3. ASSUME NEW d \in Callers PROVE past'[d].hurt = TRUE /\ past'[d].seen = past[d].seen \union {a}
    <3> DEFINE x == [past[d] EXCEPT !.hurt = TRUE]
               y == x.seen \union {a}
    <3>1. past'[d] = [x EXCEPT !.seen = y]
      BY <1>6
    <3>2. DOMAIN x = {"begun", "seen", "hurt"} /\ x.hurt = TRUE /\ x.seen = past[d].seen
      BY <1>1 DEF PastShape
    <3>3. y = past[d].seen \union {a}
      BY <3>2
    <3> HIDE DEF x, y
    <3> QED BY <3>1, <3>2, <3>3
  <2>4. Keeps(a, {})
    BY DEF Keeps
  <2>5. ASSUME NEW d \in Callers
        PROVE  /\ past'[d].hurt = TRUE /\ past[d].seen \subseteq past'[d].seen
               /\ \A s \in past'[d].seen : BlobArray(s)
               /\ a \in past'[d].seen
    BY <1>4, <2>1, <2>3
  <2> DEFINE w2 == {}
  <2>6. wrote' = w2 /\ Keeps(a, w2)
    BY <1>6, <2>4
  <2> QED BY <1>3, <1>6, <2>1, <2>2, <2>5, <2>6
<1>7. ASSUME NEW a \in Arrays, UNCHANGED <<array, wrote>>,
             partial' = [data |-> Piece(Serialized(a), 0), length |-> Len(Serialized(a))]
      PROVE  PartialShape'
  <2>1. IsSeq(Serialized(a)) /\ Len(Serialized(a)) = Len(a) + 1 /\ Len(a) \in Nat
    BY CallsAssumption, SerializedFacts DEF BlobArray
  <2> DEFINE s == Serialized(a)
             o == 0
  <2>2. IsSeq(s) /\ o \in Nat /\ o <= Len(s)
    BY <2>1
  <2>3. partial' = [data |-> Piece(s, o), length |-> Len(s)]
    BY <1>7
  <2> HIDE DEF s, o
  <2>4. IsSeq(Piece(s, o))
    BY <2>2, PieceFacts
  <2> QED BY <2>3, <2>4 DEF PartialShape
<1>8. UNCHANGED partial => PartialShape'
  BY <1>2 DEF PartialShape
<1>9. \/ /\ past' = [c \in Callers |-> [past[c] EXCEPT !.hurt = TRUE]] 
         /\ UNCHANGED <<array, partial, wrote>>
      \/ \E a \in Arrays :
            /\ array' = a /\ partial' = Nothing /\ wrote' = {}
            /\ past' = [c \in Callers |-> [[past[c] EXCEPT !.hurt = TRUE] EXCEPT !.seen = @ \union {a}]]
      \/ \E a \in Arrays :
            /\ past' = [c \in Callers |-> [past[c] EXCEPT !.hurt = TRUE]] /\ UNCHANGED <<array, wrote>>
            /\ partial' = [data |-> Piece(Serialized(a), 0), length |-> Len(Serialized(a))]
  BY DEF OtherPlatform
<1> QED BY <1>5, <1>6, <1>7, <1>8, <1>9

\* The third invariant: the arrays that calls have seen, and the blobs that
\* were confirmed.
THEOREM StoredInvariance == Spec => []Stored
<1>1. Init => Stored
  <2> SUFFICES ASSUME Init PROVE Stored
    OBVIOUS
  <2>1. array \in Arrays /\ partial = Nothing /\ wrote = {}
    BY DEF Init
  <2>2. BlobArray(array) /\ Keeps(array, wrote)
    BY <2>1, CallsAssumption DEF Keeps
  <2>3. PartialShape
    BY <2>1, SeqFacts DEF PartialShape, Nothing
  <2>4. ASSUME NEW c \in Callers PROVE Moving(at[c], past[c].seen, past[c].hurt, array, wrote)
    <3>1. at[c] = Start /\ past[c].seen = {}
      BY DEF Init
    <3>2. Start.pc = "idle" /\ Start.call.op = "none" /\ Start.buf = <<>> /\ Start.off = 0
      BY DEF Start
    <3> QED BY <3>1, <3>2 DEF Moving
  <2> QED BY <2>2, <2>3, <2>4 DEF Stored
<1>2. ASSUME IInv, Stored, [Next]_vars PROVE Stored'
  <2>1. CASE UNCHANGED vars
    BY <1>2, <2>1 DEF vars, authenticator, Stored, PartialShape
  <2>2. ASSUME NEW c \in Callers, NEW k \in CallsOf[c], Call(c, k) PROVE Stored'
    BY <1>2, <2>2, CallStored
  <2>3. ASSUME NEW c \in Callers, CallerStep(c) PROVE Stored'
    BY <1>2, <2>3, KeyAgreementStored, MakeCredentialStored, BeginStored, GetNextStored, ConsumeStored,
       EmitStored, ReadFragmentStored, WriteFragmentStored, FailStored DEF CallerStep
  <2>4. CASE OtherPlatform
    BY <1>2, <2>4, OtherPlatformStored
  <2> QED BY <1>2, <2>1, <2>2, <2>3, <2>4 DEF Next, Terminated
<1> QED BY <1>1, <1>2, Invariance, PTL DEF Spec

\* GetLargeBlobs and GetAssertion see an array that was whole at some moment of
\* the call, and a GetLargeBlobs that nothing disturbs succeeds.
THEOREM ReadsAreWhole == Spec => []BlobReadWhole
<1>1. ASSUME IInv, Stored PROVE BlobReadWhole
  <2>1. ASSUME NEW c \in Callers, at[c].call.op = "read"
        PROVE  /\ at[c].pc = "done" => at[c].got[1] \in past[c].seen
               /\ at[c].pc = "failed" => past[c].hurt
    BY <1>1, <2>1 DEF Stored, Moving
  <2>2. ASSUME NEW c \in Callers, at[c].call.op = "get"
        PROVE  \E a \in past[c].seen : \A k \in DOMAIN at[c].got :
                  at[c].got[k].blob \in {None, Opened(a, at[c].got[k].item)}
    <3>1. IsSeq(at[c].got)
      BY <1>1 DEF IInv, Enumerating, Fits
    <3>2. DOMAIN at[c].got = 1..Len(at[c].got)
      BY <3>1, SeqFacts
    <3>3. PICK a \in past[c].seen : Finds(at[c], a)
      BY <1>1, <2>2 DEF Stored, Moving
    <3> QED BY <3>2, <3>3 DEF Finds, Found
  <2> QED BY <2>1, <2>2 DEF BlobReadWhole
<1> QED BY <1>1, Invariance, StoredInvariance, PTL

\* A blob that GetAssertion reported as written is what a reader finds for that
\* credential, until its blob or the whole array is written again.
THEOREM WrittenBlobsStay == Spec => []WrittenBlobStays
<1>1. Stored => WrittenBlobStays
  BY DEF Stored, Keeps, WrittenBlobStays
<1> QED BY <1>1, StoredInvariance, PTL
===============================================================================
