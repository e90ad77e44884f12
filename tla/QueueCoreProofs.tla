-------------------------- MODULE QueueCoreProofs --------------------------
(***************************************************************************)
(* What the critical sections of QueueCore do and keep, for every finite   *)
(* set of handles and all limits: the facts that the proofs about Queue    *)
(* and about Relay rest on.                                                *)
(***************************************************************************)
EXTENDS QueueCore, FiniteSetTheorems, SequenceTheorems, TLAPS

(* ---------------- Facts about the lists and the channels --------------- *)

\* The first n elements of a sequence.
LEMMA PrefixFacts ==
  ASSUME NEW S, NEW s \in Seq(S), NEW n \in 0 .. Len(s)
  PROVE  /\ SubSeq(s, 1, n) \in Seq(S)
         /\ Len(SubSeq(s, 1, n)) = n
         /\ \A k \in 1 .. n : SubSeq(s, 1, n)[k] = s[k]
<1>1. Len(s) \in Nat /\ \A k \in 1 .. n : s[k] \in S
  BY LenProperties, ElementOfSeq
<1>2. /\ SubSeq(s, 1, n) \in Seq(S)
      /\ Len(SubSeq(s, 1, n)) = IF 1 <= n THEN n - 1 + 1 ELSE 0
      /\ \A k \in 1 .. n - 1 + 1 : SubSeq(s, 1, n)[k] = s[1 + k - 1]
  BY ONLY <1>1, SubSeqProperties, n \in Int, 1 \in Int
<1> QED BY <1>1, <1>2

\* And the rest of it.
LEMMA SuffixFacts ==
  ASSUME NEW S, NEW s \in Seq(S), NEW n \in 0 .. Len(s)
  PROVE  /\ SubSeq(s, n + 1, Len(s)) \in Seq(S)
         /\ Len(SubSeq(s, n + 1, Len(s))) = Len(s) - n
         /\ \A k \in 1 .. Len(s) - n : SubSeq(s, n + 1, Len(s))[k] = s[k + n]
<1> DEFINE m == n + 1
           l == Len(s)
<1>1. m \in Int /\ l \in Nat /\ \A k \in m .. l : s[k] \in S
  BY LenProperties, ElementOfSeq
<1>2. m = n + 1 /\ l = Len(s) /\ n \in 0 .. l
  OBVIOUS
<1> HIDE DEF m, l
<1>3. /\ SubSeq(s, m, l) \in Seq(S)
      /\ Len(SubSeq(s, m, l)) = IF m <= l THEN l - m + 1 ELSE 0
      /\ \A k \in 1 .. l - m + 1 : SubSeq(s, m, l)[k] = s[m + k - 1]
  BY <1>1, SubSeqProperties
<1> DEFINE t == SubSeq(s, m, l)
<1>4. t \in Seq(S) /\ Len(t) = l - n /\ \A k \in 1 .. l - n : t[k] = s[k + n]
  <2> HIDE DEF t
  <2>1. /\ t \in Seq(S) /\ Len(t) = IF m <= l THEN l - m + 1 ELSE 0
        /\ \A k \in 1 .. l - m + 1 : t[k] = s[m + k - 1]
    BY <1>3 DEF t
  <2>2. Len(t) = l - n /\ l - m + 1 = l - n
    BY <2>1, <1>1, <1>2
  <2>3. ASSUME NEW k \in 1 .. l - n PROVE t[k] = s[k + n]
    <3>1. m + k - 1 = k + n
      BY <1>1, <1>2
    <3> QED BY <3>1, <2>1, <2>2
  <2> QED BY <2>1, <2>2, <2>3
<1> QED BY <1>2, <1>4

\* The line after one waiter left: the others, still each once.
LEMMA RemoveAtFacts ==
  ASSUME NEW S, NEW s \in Seq(S), NEW i \in 1 .. Len(s), IsInjective(s)
  PROVE  /\ RemoveAt(s, i) \in Seq(S)
         /\ Len(RemoveAt(s, i)) = Len(s) - 1
         /\ IsInjective(RemoveAt(s, i))
         /\ ToSet(RemoveAt(s, i)) = ToSet(s) \ {s[i]}
<1> DEFINE a == SubSeq(s, 1, i - 1)
           b == SubSeq(s, i + 1, Len(s))
           t == RemoveAt(s, i)
<1>1. /\ Len(s) \in Nat /\ DOMAIN s = 1 .. Len(s)
      /\ \A k \in 1 .. Len(s) : s[k] \in S
  BY LenProperties, ElementOfSeq
<1>2. /\ a \in Seq(S) /\ Len(a) = i - 1
      /\ \A k \in 1 .. i - 1 : a[k] = s[k]
  BY <1>1, PrefixFacts
<1>3. /\ b \in Seq(S) /\ Len(b) = Len(s) - i
      /\ \A k \in 1 .. Len(s) - i : b[k] = s[k + i]
  <2>1. i \in 0 .. Len(s)
    BY <1>1
  <2> QED BY <2>1, SuffixFacts
<1>4. t = a \o b
  BY DEF RemoveAt
<1> HIDE DEF a, b, t
<1>5. /\ t \in Seq(S) /\ Len(t) = Len(a) + Len(b)
      /\ \A k \in 1 .. Len(a) + Len(b) :
            t[k] = IF k <= Len(a) THEN a[k] ELSE b[k - Len(a)]
  BY <1>2, <1>3, <1>4, ConcatProperties
<1>6. /\ Len(t) = Len(s) - 1
      /\ DOMAIN t = 1 .. Len(s) - 1
      /\ \A k \in 1 .. Len(s) - 1 : t[k] = IF k < i THEN s[k] ELSE s[k + 1]
  <2>1. Len(t) = Len(s) - 1 /\ DOMAIN t = 1 .. Len(s) - 1
    BY <1>1, <1>2, <1>3, <1>5, LenProperties
  <2>2. ASSUME NEW k \in 1 .. Len(s) - 1 PROVE t[k] = IF k < i THEN s[k] ELSE s[k + 1]
    <3>1. CASE k < i
      <4>1. k \in 1 .. i - 1 /\ k <= Len(a) /\ k \in 1 .. Len(a) + Len(b)
        BY <3>1, <1>1, <1>2, <1>3
      <4>2. t[k] = a[k]
        BY <4>1, <1>5
      <4> QED BY <4>1, <4>2, <3>1, <1>2
    <3>2. CASE ~(k < i)
      <4> DEFINE l == Len(s)
                 j == k - (i - 1)
      <4>1. l \in Nat /\ i \in 1 .. l /\ k \in 1 .. l - 1
        BY <1>1
      <4> HIDE DEF l
      <4>2. j \in 1 .. l - i /\ j + i = k + 1 /\ k \in 1 .. (i - 1) + (l - i)
        BY <4>1, <3>2
      <4>3. Len(a) = i - 1 /\ Len(b) = l - i /\ ~(k <= i - 1)
        BY <4>1, <3>2, <1>2, <1>3 DEF l
      <4>4. t[k] = b[j]
        BY <4>2, <4>3, <1>5
      <4>5. b[j] = s[j + i]
        BY <4>2, <1>3 DEF l
      <4> QED BY <4>2, <4>4, <4>5, <3>2
    <3> QED BY <3>1, <3>2
  <2> QED BY <2>1, <2>2
<1>7. IsInjective(t)
  BY <1>1, <1>6 DEF IsInjective
<1>8. ASSUME NEW x PROVE x \in ToSet(t) <=> x \in ToSet(s) \ {s[i]}
  <2>1. ASSUME x \in ToSet(t) PROVE x \in ToSet(s) \ {s[i]}
    BY <2>1, <1>1, <1>6 DEF ToSet, IsInjective
  <2>2. ASSUME x \in ToSet(s) \ {s[i]} PROVE x \in ToSet(t)
    <3>1. PICK k \in 1 .. Len(s) : s[k] = x /\ k # i
      BY <2>2, <1>1 DEF ToSet
    <3>2. CASE k < i
      BY <3>1, <3>2, <1>1, <1>6 DEF ToSet
    <3>3. CASE k > i
      <4>1. k - 1 \in 1 .. Len(s) - 1 /\ t[k - 1] = x
        BY <3>1, <3>3, <1>1, <1>6
      <4> QED BY <4>1, <1>6 DEF ToSet
    <3> QED BY <3>1, <3>2, <3>3
  <2> QED BY <2>1, <2>2
<1> QED BY <1>5, <1>6, <1>7, <1>8 DEF t

\* The line cut after its first n waiters: both parts keep each waiter once.
LEMMA CutFacts ==
  ASSUME NEW S, NEW s \in Seq(S), NEW n \in 0 .. Len(s), IsInjective(s)
  PROVE  /\ SubSeq(s, n + 1, Len(s)) \in Seq(S)
         /\ Len(SubSeq(s, n + 1, Len(s))) = Len(s) - n
         /\ IsInjective(SubSeq(s, n + 1, Len(s)))
         /\ ToSet(SubSeq(s, 1, n)) \subseteq ToSet(s)
         /\ ToSet(SubSeq(s, n + 1, Len(s))) = ToSet(s) \ ToSet(SubSeq(s, 1, n))
<1> DEFINE a == SubSeq(s, 1, n)
           b == SubSeq(s, n + 1, Len(s))
<1>1. /\ Len(s) \in Nat /\ DOMAIN s = 1 .. Len(s)
      /\ \A k \in 1 .. Len(s) : s[k] \in S
  BY LenProperties, ElementOfSeq
<1>2. /\ a \in Seq(S) /\ Len(a) = n /\ DOMAIN a = 1 .. n
      /\ \A k \in 1 .. n : a[k] = s[k]
  BY <1>1, PrefixFacts, LenProperties
<1>3. /\ b \in Seq(S) /\ Len(b) = Len(s) - n /\ DOMAIN b = 1 .. Len(s) - n
      /\ \A k \in 1 .. Len(s) - n : b[k] = s[k + n]
  <2>1. /\ b \in Seq(S) /\ Len(b) = Len(s) - n
        /\ \A k \in 1 .. Len(s) - n : b[k] = s[k + n]
    BY SuffixFacts
  <2> HIDE DEF b
  <2>2. DOMAIN b = 1 .. Len(b)
    BY <2>1, LenProperties
  <2> QED BY <2>1, <2>2
<1> HIDE DEF a, b
<1>5. IsInjective(b)
  <2>1. ASSUME NEW j \in 1 .. Len(s) - n, NEW k \in 1 .. Len(s) - n, b[j] = b[k]
        PROVE  j = k
    <3>1. j + n \in 1 .. Len(s) /\ k + n \in 1 .. Len(s) /\ s[j + n] = s[k + n]
      BY <2>1, <1>1, <1>3
    <3>2. j + n = k + n
      BY <3>1, <1>1 DEF IsInjective
    <3> QED BY <3>2, <1>1
  <2> QED BY <2>1, <1>3 DEF IsInjective
<1>6. ToSet(a) \subseteq ToSet(s)
  BY <1>1, <1>2 DEF ToSet
<1>7. ASSUME NEW x PROVE x \in ToSet(b) <=> x \in ToSet(s) \ ToSet(a)
  <2>1. ASSUME x \in ToSet(b) PROVE x \in ToSet(s) \ ToSet(a)
    <3>1. PICK k \in 1 .. Len(s) - n : b[k] = x
      BY <2>1, <1>3 DEF ToSet
    <3>2. k + n \in 1 .. Len(s) /\ s[k + n] = x
      BY <3>1, <1>1, <1>3
    <3>3. x \in ToSet(s)
      BY <3>2, <1>1 DEF ToSet
    <3>4. \A j \in 1 .. n : a[j] # x
      BY <3>1, <3>2, <1>1, <1>2 DEF IsInjective
    <3> QED BY <3>3, <3>4, <1>2 DEF ToSet
  <2>2. ASSUME x \in ToSet(s) \ ToSet(a) PROVE x \in ToSet(b)
    <3>1. PICK k \in 1 .. Len(s) : s[k] = x
      BY <2>2, <1>1 DEF ToSet
    <3>2. k > n
      BY <3>1, <2>2, <1>1, <1>2 DEF ToSet
    <3>3. k - n \in 1 .. Len(s) - n /\ b[k - n] = x
      BY <3>1, <3>2, <1>1, <1>3
    <3> QED BY <3>3, <1>3 DEF ToSet
  <2> QED BY <2>1, <2>2
<1> QED BY <1>3, <1>5, <1>6, <1>7 DEF a, b

\* A prefix of a line: who stands in it, and how many.
LEMMA PrefixSetFacts ==
  ASSUME NEW S, NEW s \in Seq(S), NEW n \in 0 .. Len(s)
  PROVE  /\ ToSet(SubSeq(s, 1, n)) = {s[k] : k \in 1 .. n}
         /\ IsFiniteSet(ToSet(SubSeq(s, 1, n)))
         /\ Cardinality(ToSet(SubSeq(s, 1, n))) <= n
<1> DEFINE a == SubSeq(s, 1, n)
           T == {s[k] : k \in 1 .. n}
           f == [k \in 1 .. n |-> s[k]]
<1>1. a \in Seq(S) /\ DOMAIN a = 1 .. n /\ \A k \in 1 .. n : a[k] = s[k]
  BY PrefixFacts, LenProperties
<1> HIDE DEF a
<1>2. ToSet(a) = T
  BY <1>1 DEF ToSet
<1>3. f \in Surjection(1 .. n, T)
  BY DEF Surjection
<1>4. IsFiniteSet(1 .. n) /\ Cardinality(1 .. n) = n
  <2>1. n \in Nat /\ 1 \in Int
    BY LenProperties
  <2>2. /\ IsFiniteSet(1 .. n)
        /\ Cardinality(1 .. n) = IF 1 > n THEN 0 ELSE n - 1 + 1
    BY <2>1, FS_Interval
  <2> QED BY <2>1, <2>2
<1> HIDE DEF T, f
<1>5. IsFiniteSet(T) /\ Cardinality(T) <= n
  BY <1>3, <1>4, FS_Surjection
<1> QED BY <1>2, <1>5 DEF a, T

\* The line with a newcomer at its end.
LEMMA AppendFacts ==
  ASSUME NEW S, NEW s \in Seq(S), NEW e \in S, IsInjective(s), e \notin ToSet(s)
  PROVE  /\ Append(s, e) \in Seq(S)
         /\ IsInjective(Append(s, e))
         /\ ToSet(Append(s, e)) = ToSet(s) \cup {e}
<1> DEFINE t == Append(s, e)
<1>1. Len(s) \in Nat /\ DOMAIN s = 1 .. Len(s)
  BY LenProperties
<1>2. /\ t \in Seq(S) /\ Len(t) = Len(s) + 1
      /\ \A k \in 1 .. Len(s) : t[k] = s[k]
      /\ t[Len(s) + 1] = e
  BY AppendProperties
<1>3. DOMAIN t = 1 .. Len(s) + 1
  BY <1>2, LenProperties
<1> HIDE DEF t
<1>4. IsInjective(t)
  BY <1>1, <1>2, <1>3 DEF IsInjective, ToSet
<1>5. ToSet(t) = ToSet(s) \cup {e}
  BY <1>1, <1>2, <1>3 DEF ToSet
<1> QED BY <1>2, <1>4, <1>5 DEF t
ChanType == [buf : Seq(Status), closed : BOOLEAN]
IsPosition(st) == st \in Status /\ ~st.Ok /\ ~st.Full

\* The four kinds of status: their type and what they say.
LEMMA StatusFacts ==
  /\ Granted \in Status /\ Granted.Ok
  /\ Rejected \in Status /\ Rejected.Full /\ ~Rejected.Ok
  /\ \A i, m \in Int : IsPosition(Position(i, m))
BY DEF Granted, Rejected, Position, Status, IsPosition

\* trySend replaces what the channel holds and leaves it open or closed.
LEMMA TrySendFacts ==
  ASSUME NEW c \in ChanType, Len(c.buf) <= 1, NEW st \in Status
  PROVE  /\ TrySend(c, st) \in ChanType
         /\ TrySend(c, st).buf = <<st>>
         /\ TrySend(c, st).closed = c.closed
<1>1. c.buf \in Seq(Status) /\ c.closed \in BOOLEAN
  BY DEF ChanType
<1>2. Drain(c) = [buf |-> << >>, closed |-> c.closed]
  <2>1. CASE c.buf = << >>
    BY <2>1, <1>1 DEF Drain, ChanType
  <2>2. CASE c.buf # << >>
    <3>1. Tail(c.buf) \in Seq(Status) /\ Len(Tail(c.buf)) = Len(c.buf) - 1
      BY <1>1, <2>2, HeadTailProperties
    <3> DEFINE u == c.buf
               v == Tail(c.buf)
    <3> HIDE DEF u, v
    <3>2. Len(u) = 1
      <4>1. u \in Seq(Status) /\ u # << >> /\ Len(u) <= 1
        BY <1>1, <2>2 DEF u
      <4>2. Len(u) \in Nat /\ Len(u) # 0
        BY <4>1, EmptySeq
      <4> DEFINE l == Len(u)
      <4>3. l \in Nat /\ l # 0 /\ l <= 1
        BY <4>1, <4>2
      <4> HIDE DEF l
      <4>4. l = 1
        BY <4>3
      <4> QED BY <4>4 DEF l
    <3>3. v = << >>
      <4>1. v \in Seq(Status) /\ Len(v) = 0
        BY <3>1, <3>2 DEF u, v
      <4> QED BY <4>1, EmptySeq
    <3> QED BY <3>3, <2>2 DEF Drain, ChanType, v
  <2> QED BY <2>1, <2>2
<1>3. Append(<< >>, st) = <<st>>
  OBVIOUS
<1>4. TrySend(c, st) = [buf |-> <<st>>, closed |-> c.closed]
  BY <1>2, <1>3 DEF TrySend, Send
<1> QED BY <1>1, <1>4 DEF ChanType

\* broadcastStatus gives every waiter a position and touches nobody else.
LEMMA BroadcastFacts ==
  ASSUME NEW ch \in [Handles -> ChanType], \A h \in Handles : Len(ch[h].buf) <= 1,
         NEW q \in Seq(Handles), NEW n \in Int, max \in Nat
  PROVE  /\ Broadcast(ch, q, n) \in [Handles -> ChanType]
         /\ \A h \in Handles :
              /\ Broadcast(ch, q, n)[h].closed = ch[h].closed
              /\ h \notin ToSet(q) => Broadcast(ch, q, n)[h] = ch[h]
              /\ h \in ToSet(q) =>
                   \E st : IsPosition(st) /\ Broadcast(ch, q, n)[h].buf = <<st>>
<1> DEFINE b == Broadcast(ch, q, n)
<1>1. ASSUME NEW h \in Handles, h \in ToSet(q)
      PROVE  /\ b[h] \in ChanType /\ b[h].closed = ch[h].closed
             /\ \E st : IsPosition(st) /\ b[h].buf = <<st>>
  <2> DEFINE i == CHOOSE j \in DOMAIN q : q[j] = h
             st == Position(n - max + i - 1, n - max + Len(q))
  <2>1. Len(q) \in Nat /\ DOMAIN q = 1 .. Len(q)
    BY LenProperties
  <2>2. i \in DOMAIN q
    BY <1>1 DEF ToSet
  <2>3. n - max + i - 1 \in Int /\ n - max + Len(q) \in Int
    BY <2>1, <2>2
  <2>4. IsPosition(st) /\ st \in Status
    BY <2>3, StatusFacts DEF IsPosition
  <2>5. b[h] = TrySend(ch[h], st)
    BY <1>1 DEF Broadcast
  <2> HIDE DEF st, b
  <2>6. TrySend(ch[h], st) \in ChanType /\ TrySend(ch[h], st).buf = <<st>>
        /\ TrySend(ch[h], st).closed = ch[h].closed
    BY <2>4, TrySendFacts
  <2> QED BY <2>4, <2>5, <2>6
<1>2. ASSUME NEW h \in Handles, h \notin ToSet(q) PROVE b[h] = ch[h]
  BY <1>2 DEF Broadcast
<1>3. b \in [Handles -> ChanType]
  <2>1. \A h \in Handles : b[h] \in ChanType
    BY <1>1, <1>2
  <2>2. b = [h \in Handles |-> b[h]]
    BY DEF Broadcast
  <2> HIDE DEF b
  <2> QED BY <2>1, <2>2
<1> QED BY <1>1, <1>2, <1>3

\* Promotion sends Ok and closes; nobody else's channel changes.
LEMMA PromoteFacts ==
  ASSUME NEW ch \in [Handles -> ChanType], \A h \in Handles : Len(ch[h].buf) <= 1,
         NEW hs
  PROVE  /\ Promote(ch, hs) \in [Handles -> ChanType]
         /\ \A h \in Handles \ hs : Promote(ch, hs)[h] = ch[h]
         /\ \A h \in Handles \cap hs :
              Promote(ch, hs)[h].buf = <<Granted>> /\ Promote(ch, hs)[h].closed
<1> DEFINE p == Promote(ch, hs)
<1>1. ASSUME NEW h \in Handles, h \in hs
      PROVE  p[h] \in ChanType /\ p[h].buf = <<Granted>> /\ p[h].closed
  <2> DEFINE c == TrySend(ch[h], Granted)
  <2>1. c \in ChanType /\ c.buf = <<Granted>>
    BY TrySendFacts, StatusFacts
  <2>2. p[h] = Close(c)
    BY <1>1 DEF Promote
  <2> HIDE DEF c, p
  <2> QED BY <2>1, <2>2 DEF Close, ChanType
<1>2. ASSUME NEW h \in Handles, h \notin hs PROVE p[h] = ch[h]
  BY <1>2 DEF Promote
<1>3. p \in [Handles -> ChanType]
  <2>1. \A h \in Handles : p[h] \in ChanType
    BY <1>1, <1>2
  <2>2. p = [h \in Handles |-> p[h]]
    BY DEF Promote
  <2> HIDE DEF p
  <2> QED BY <2>1, <2>2
<1> QED BY <1>1, <1>2, <1>3

\* The promotion loop pops waiters that exist, no more than there is room for
\* and no fewer.
LEMMA PromotableFacts ==
  ASSUME NEW n \in Nat, max \in Nat, queued \in Seq(Handles)
  PROVE  /\ Promotable(n) \in 0 .. Len(queued)
         /\ Promotable(n) > 0 => max = 0 \/ n + Promotable(n) <= max
         /\ Promotable(n) < Len(queued) => max # 0 /\ n + Promotable(n) >= max
<1>1. Len(queued) \in Nat
  BY LenProperties
<1> QED BY <1>1 DEF Promotable
(* ---------------------- The queue's own invariant ---------------------- *)

QueueTypeOK ==
  /\ max \in Nat /\ maxQueued \in Nat
  /\ active \subseteq Handles /\ queued \in Seq(Handles)
  /\ chan \in [Handles -> ChanType]

\* Only handles are in the lists.
LEMMA InLists == QueueTypeOK => active \cup Waiting \subseteq Handles
<1> SUFFICES ASSUME QueueTypeOK PROVE Waiting \subseteq Handles
  BY DEF QueueTypeOK
<1>1. DOMAIN queued = 1 .. Len(queued)
  BY LenProperties DEF QueueTypeOK
<1> QED BY <1>1, ElementOfSeq DEF QueueTypeOK, Waiting, ToSet

\* What one critical section relies on and leaves behind.
QueueInv ==
  /\ QueueTypeOK
  /\ IsInjective(queued)
  /\ active \cap Waiting = {}
  /\ ChannelDiscipline
  /\ NeverStuck

\* What a critical section does to a handle g it is not called for.
Bystander(g) ==
  \/ /\ g \in active <=> g \in active'
     /\ g \in Waiting <=> g \in Waiting'
     /\ chan'[g] = chan[g]
  \/ /\ g \in Waiting /\ g \in Waiting'
     /\ \E st : IsPosition(st) /\ chan'[g].buf = <<st>>
  \/ /\ g \in Waiting /\ g \in active' /\ chan'[g].buf = <<Granted>>

\* A waiter leaves the line.
LEMMA LeaveLineFacts ==
  ASSUME QueueInv, NEW h \in Handles, LeaveLine(h)
  PROVE  /\ QueueInv'
         /\ h \notin active' \cup Waiting'
         /\ \A g \in Handles \ {h} : Bystander(g)
<1> DEFINE p == Place(h)
           n == Cardinality(active)
<1>1. /\ h \in Waiting /\ queued' = RemoveAt(queued, p)
      /\ chan' = Broadcast(chan, queued', n)
      /\ active' = active /\ max' = max /\ maxQueued' = maxQueued
  BY DEF LeaveLine
<1>2. /\ QueueTypeOK /\ IsInjective(queued) /\ active \cap Waiting = {}
      /\ ChannelDiscipline /\ NeverStuck
  BY DEF QueueInv
<1>3. p \in 1 .. Len(queued) /\ queued[p] = h
  <2>1. DOMAIN queued = 1 .. Len(queued)
    BY <1>2, LenProperties DEF QueueTypeOK
  <2> QED BY <2>1, <1>1 DEF Waiting, ToSet, Place
<1> HIDE DEF p
<1>4. queued' \in Seq(Handles) /\ IsInjective(queued') /\ Waiting' = Waiting \ {h}
  BY <1>1, <1>2, <1>3, RemoveAtFacts DEF QueueTypeOK, Waiting
<1>5. n \in Int
  BY <1>2, HandlesAssumption, FS_Subset, FS_CardinalityType DEF QueueTypeOK
<1> HIDE DEF n
<1>6. /\ chan' \in [Handles -> ChanType]
      /\ \A g \in Handles :
           /\ chan'[g].closed = chan[g].closed
           /\ g \notin Waiting' => chan'[g] = chan[g]
           /\ g \in Waiting' => \E st : IsPosition(st) /\ chan'[g].buf = <<st>>
  <2>1. chan \in [Handles -> ChanType] /\ \A g \in Handles : Len(chan[g].buf) <= 1
    BY <1>2 DEF QueueTypeOK, ChannelDiscipline
  <2>2. max \in Nat /\ queued' \in Seq(Handles)
    BY <1>2, <1>4 DEF QueueTypeOK
  <2> DEFINE b == Broadcast(chan, queued', n)
  <2>3. /\ b \in [Handles -> ChanType]
        /\ \A g \in Handles :
             /\ b[g].closed = chan[g].closed
             /\ g \notin ToSet(queued') => b[g] = chan[g]
             /\ g \in ToSet(queued') => \E st : IsPosition(st) /\ b[g].buf = <<st>>
    BY <2>1, <2>2, <1>5, BroadcastFacts
  <2> QED BY <2>3, <1>1 DEF Waiting
<1>7. ChannelDiscipline'
  <2>1. ASSUME NEW g \in Handles PROVE Len(chan'[g].buf) <= 1
    <3>1. CASE g \in Waiting'
      <4>1. PICK st : chan'[g].buf = <<st>>
        BY <1>6, <3>1
      <4> QED BY <4>1
    <3>2. CASE g \notin Waiting'
      BY <1>2, <1>6, <3>2 DEF ChannelDiscipline
    <3> QED BY <3>1, <3>2
  <2> QED BY <2>1, <1>1, <1>2, <1>4, <1>6 DEF ChannelDiscipline
<1>8. NeverStuck'
  <2>1. Waiting # {}
    BY <1>1
  <2>2. queued # << >>
    BY <2>1 DEF Waiting, ToSet
  <2> QED BY <2>2, <1>1, <1>2 DEF NeverStuck
<1>9. QueueInv'
  BY <1>1, <1>2, <1>4, <1>6, <1>7, <1>8 DEF QueueInv, QueueTypeOK
<1>10. h \notin active' \cup Waiting'
  BY <1>1, <1>2, <1>4
<1>11. ASSUME NEW g \in Handles \ {h} PROVE Bystander(g)
  BY <1>1, <1>4, <1>6 DEF Bystander
<1> QED BY <1>9, <1>10, <1>11
\* A handle that does not wait frees its slot, if any; a prefix of the line is
\* promoted.
LEMMA FreeSlotFacts ==
  ASSUME QueueInv, NEW h \in Handles, FreeSlot(h)
  PROVE  /\ QueueInv'
         /\ h \notin active' \cup Waiting'
         /\ \A g \in Handles \ {h} : Bystander(g)
<1> DEFINE rest == active \ {h}
           n == Promotable(Cardinality(rest))
           promoted == ToSet(SubSeq(queued, 1, n))
           k == Cardinality(active')
           ch == Promote(chan, promoted)
<1>1. /\ h \notin Waiting
      /\ active' = rest \cup promoted
      /\ queued' = SubSeq(queued, n + 1, Len(queued))
      /\ chan' = Broadcast(ch, queued', k)
      /\ max' = max /\ maxQueued' = maxQueued
  BY DEF FreeSlot
<1>2. /\ QueueTypeOK /\ IsInjective(queued) /\ active \cap Waiting = {}
      /\ ChannelDiscipline /\ NeverStuck
  BY DEF QueueInv
<1>3. rest \subseteq Handles /\ IsFiniteSet(rest) /\ Cardinality(rest) \in Nat
  BY <1>2, HandlesAssumption, FS_Subset, FS_CardinalityType DEF QueueTypeOK
<1>4. /\ n \in 0 .. Len(queued)
      /\ n < Len(queued) => max # 0 /\ Cardinality(rest) + n >= max
  BY <1>2, <1>3, PromotableFacts DEF QueueTypeOK
<1> HIDE DEF n
<1>5. /\ queued' \in Seq(Handles) /\ Len(queued') = Len(queued) - n
      /\ IsInjective(queued')
      /\ promoted \subseteq Waiting
      /\ Waiting' = Waiting \ promoted
  BY <1>1, <1>2, <1>4, CutFacts DEF QueueTypeOK, Waiting
<1>6. Waiting \subseteq Handles
  BY <1>2, InLists
<1>7. promoted # {} <=> n > 0
  <2>1. SubSeq(queued, 1, n) \in Seq(Handles) /\ Len(SubSeq(queued, 1, n)) = n
    BY <1>2, <1>4, PrefixFacts DEF QueueTypeOK
  <2>2. DOMAIN SubSeq(queued, 1, n) = 1 .. n
    BY <2>1, LenProperties
  <2>3. n \in Nat
    BY <1>2, <1>4, LenProperties DEF QueueTypeOK
  <2> QED BY <2>2, <2>3 DEF ToSet
<1> HIDE DEF promoted
<1>8. active' \subseteq Handles /\ k \in Int
  BY <1>1, <1>3, <1>5, <1>6, HandlesAssumption, FS_Subset, FS_CardinalityType
<1> HIDE DEF k
<1>9. /\ chan \in [Handles -> ChanType] /\ \A g \in Handles : Len(chan[g].buf) <= 1
      /\ max \in Nat
  BY <1>2 DEF QueueTypeOK, ChannelDiscipline
<1>10. /\ ch \in [Handles -> ChanType]
       /\ \A g \in Handles \ promoted : ch[g] = chan[g]
       /\ \A g \in Handles \cap promoted : ch[g].buf = <<Granted>> /\ ch[g].closed
  BY <1>9, PromoteFacts
<1> HIDE DEF ch
<1>11. \A g \in Handles : Len(ch[g].buf) <= 1
  <2>1. Len(<<Granted>>) <= 1
    OBVIOUS
  <2> QED BY <2>1, <1>9, <1>10
<1>12. /\ chan' \in [Handles -> ChanType]
       /\ \A g \in Handles :
            /\ chan'[g].closed = ch[g].closed
            /\ g \notin Waiting' => chan'[g] = ch[g]
            /\ g \in Waiting' => \E st : IsPosition(st) /\ chan'[g].buf = <<st>>
  <2> DEFINE b == Broadcast(ch, queued', k)
  <2>1. /\ b \in [Handles -> ChanType]
        /\ \A g \in Handles :
             /\ b[g].closed = ch[g].closed
             /\ g \notin ToSet(queued') => b[g] = ch[g]
             /\ g \in ToSet(queued') => \E st : IsPosition(st) /\ b[g].buf = <<st>>
    BY <1>5, <1>8, <1>9, <1>10, <1>11, BroadcastFacts
  <2> QED BY <2>1, <1>1 DEF Waiting
<1>13. ChannelDiscipline'
  <2>1. ASSUME NEW g \in Handles PROVE Len(chan'[g].buf) <= 1
    <3>1. CASE g \in Waiting'
      <4>1. PICK st : chan'[g].buf = <<st>>
        BY <1>12, <3>1
      <4> QED BY <4>1
    <3>2. CASE g \notin Waiting'
      BY <1>11, <1>12, <3>2
    <3> QED BY <3>1, <3>2
  <2>2. ASSUME NEW g \in Handles, g \in Waiting' PROVE ~chan'[g].closed
    BY <2>2, <1>2, <1>5, <1>10, <1>12 DEF ChannelDiscipline
  <2>3. ASSUME NEW g \in Handles, g \in active' PROVE chan'[g].closed
    <3>1. CASE g \in promoted
      BY <3>1, <1>10, <1>12
    <3>2. CASE g \notin promoted
      BY <3>2, <2>3, <1>1, <1>2, <1>10, <1>12 DEF ChannelDiscipline
    <3> QED BY <3>1, <3>2
  <2> QED BY <2>1, <2>2, <2>3 DEF ChannelDiscipline
<1>14. NeverStuck'
  <2> SUFFICES ASSUME queued' # << >> PROVE active' # {}
    BY DEF NeverStuck
  <2>1. Len(queued') # 0
    BY <1>5, EmptySeq
  <2>2. n < Len(queued)
    BY <2>1, <1>2, <1>4, <1>5, LenProperties DEF QueueTypeOK
  <2>3. max # 0 /\ Cardinality(rest) + n >= max
    BY <2>2, <1>4
  <2>4. CASE rest = {}
    <3>1. Cardinality(rest) = 0
      BY <2>4, FS_EmptySet
    <3>2. n > 0
      BY <3>1, <2>3, <1>4, <1>9
    <3> QED BY <3>2, <1>1, <1>7
  <2>5. CASE rest # {}
    BY <2>5, <1>1
  <2> QED BY <2>4, <2>5
<1>15. QueueInv'
  <2>1. active' \cap Waiting' = {}
    BY <1>1, <1>2, <1>5
  <2> QED BY <2>1, <1>1, <1>2, <1>5, <1>8, <1>12, <1>13, <1>14 DEF QueueInv, QueueTypeOK
<1>16. h \notin active' \cup Waiting'
  BY <1>1, <1>5
<1>17. ASSUME NEW g \in Handles \ {h} PROVE Bystander(g)
  <2>1. CASE g \in promoted
    BY <2>1, <1>1, <1>5, <1>10, <1>12 DEF Bystander
  <2>2. CASE g \in Waiting'
    BY <2>2, <1>5, <1>12 DEF Bystander
  <2>3. CASE g \notin promoted /\ g \notin Waiting'
    BY <2>3, <1>1, <1>5, <1>10, <1>12 DEF Bystander
  <2> QED BY <2>1, <2>2, <2>3
<1> QED BY <1>15, <1>16, <1>17

\* Acquire: the newcomer is admitted, refused or put last, and told so.
LEMMA AcquireFacts ==
  ASSUME QueueInv, NEW h \in Handles, h \notin active \cup Waiting, AcquireSlot(h)
  PROVE  /\ QueueInv'
         /\ \E st \in Status :
              /\ chan'[h].buf = <<st>>
              /\ h \in active' <=> st.Ok
              /\ h \in Waiting' <=> ~st.Ok /\ ~st.Full
         /\ \A g \in Handles \ {h} : Bystander(g)
<1>1. /\ QueueTypeOK /\ IsInjective(queued) /\ active \cap Waiting = {}
      /\ ChannelDiscipline /\ NeverStuck
  BY DEF QueueInv
<1>2. /\ IsFiniteSet(active) /\ Cardinality(active) \in Nat
      /\ Len(queued) \in Nat
  BY <1>1, HandlesAssumption, FS_Subset, FS_CardinalityType, LenProperties DEF QueueTypeOK
<1>3. ASSUME NEW st \in Status
      PROVE  /\ Send(NoChannel, st) \in ChanType
             /\ Send(NoChannel, st).buf = <<st>> /\ ~Send(NoChannel, st).closed
             /\ Close(Send(NoChannel, st)) \in ChanType
             /\ Close(Send(NoChannel, st)).buf = <<st>> /\ Close(Send(NoChannel, st)).closed
  <2> DEFINE e == << >>
             v == <<st>>
             c == Send(NoChannel, st)
  <2>1. Append(e, st) = v /\ v \in Seq(Status)
    OBVIOUS
  <2>2. NoChannel = [buf |-> e, closed |-> FALSE]
    BY DEF NoChannel
  <2>3. c = [NoChannel EXCEPT !.buf = Append(NoChannel.buf, st)]
    BY DEF Send
  <2> HIDE DEF e, v
  <2>4. c = [buf |-> v, closed |-> FALSE]
    BY <2>1, <2>2, <2>3
  <2> HIDE DEF c
  <2>5. c \in ChanType /\ c.buf = v /\ ~c.closed
    BY <2>1, <2>4 DEF ChanType
  <2>6. Close(c) \in ChanType /\ Close(c).buf = v /\ Close(c).closed
    BY <2>5 DEF Close, ChanType
  <2> QED BY <2>5, <2>6 DEF c, v
<1>5. ASSUME NEW st \in Status, NEW c \in ChanType, c.buf = <<st>>,
             chan' = [chan EXCEPT ![h] = c],
             h \in active' => c.closed, h \in Waiting' => ~c.closed,
             \A g \in Handles \ {h} :
               (g \in active <=> g \in active') /\ (g \in Waiting <=> g \in Waiting')
      PROVE  /\ chan' \in [Handles -> ChanType] /\ chan'[h].buf = <<st>>
             /\ ChannelDiscipline'
             /\ \A g \in Handles \ {h} : Bystander(g)
  <2>1. chan' \in [Handles -> ChanType] /\ chan'[h] = c
        /\ \A g \in Handles \ {h} : chan'[g] = chan[g]
    BY <1>1, <1>5 DEF QueueTypeOK
  <2>2. Len(chan'[h].buf) <= 1
    BY <2>1, <1>5
  <2>3. ChannelDiscipline'
    BY <2>1, <2>2, <1>1, <1>5 DEF ChannelDiscipline
  <2> QED BY <2>1, <2>3, <1>5 DEF Bystander
<1>6. CASE Admit(h)
  <2>1. /\ active' = active \cup {h} /\ queued' = queued /\ Waiting' = Waiting
        /\ max' = max /\ maxQueued' = maxQueued
        /\ chan' = [chan EXCEPT ![h] = Close(Send(NoChannel, Granted))]
    BY <1>6 DEF Admit, Waiting
  <2>2. /\ chan' \in [Handles -> ChanType] /\ chan'[h].buf = <<Granted>>
        /\ ChannelDiscipline' /\ \A g \in Handles \ {h} : Bystander(g)
    BY <2>1, <1>1, <1>3, <1>5, StatusFacts
  <2>3. QueueInv'
    BY <2>1, <2>2, <1>1 DEF QueueInv, QueueTypeOK, NeverStuck
  <2> QED BY <2>1, <2>2, <2>3, StatusFacts
<1>7. CASE Reject(h)
  <2>1. /\ active' = active /\ queued' = queued /\ Waiting' = Waiting
        /\ max' = max /\ maxQueued' = maxQueued
        /\ chan' = [chan EXCEPT ![h] = Close(Send(NoChannel, Rejected))]
    BY <1>7 DEF Reject, Waiting
  <2>2. /\ chan' \in [Handles -> ChanType] /\ chan'[h].buf = <<Rejected>>
        /\ ChannelDiscipline' /\ \A g \in Handles \ {h} : Bystander(g)
    BY <2>1, <1>1, <1>3, <1>5, StatusFacts
  <2>3. QueueInv'
    BY <2>1, <2>2, <1>1 DEF QueueInv, QueueTypeOK, NeverStuck
  <2> QED BY <2>1, <2>2, <2>3, StatusFacts
<1>8. CASE Enqueue(h)
  <2> DEFINE i == Cardinality(active) - max + (Len(queued) + 1) - 1
             m == Cardinality(active) - max + (Len(queued) + 1)
             st == Position(i, m)
  <2>1. i \in Int /\ m \in Int
    BY <1>1, <1>2 DEF QueueTypeOK
  <2>2. IsPosition(st) /\ st \in Status
    BY <2>1, StatusFacts DEF IsPosition
  <2>3. /\ active' = active /\ queued' = Append(queued, h)
        /\ max' = max /\ maxQueued' = maxQueued
        /\ chan' = [chan EXCEPT ![h] = Send(NoChannel, st)]
        /\ ~HasRoom(Cardinality(active))
    BY <1>8 DEF Enqueue
  <2> HIDE DEF i, m, st
  <2>5. queued' \in Seq(Handles) /\ IsInjective(queued') /\ Waiting' = Waiting \cup {h}
    BY <2>3, <1>1, AppendFacts DEF QueueTypeOK, Waiting
  <2>6. /\ chan' \in [Handles -> ChanType] /\ chan'[h].buf = <<st>>
        /\ ChannelDiscipline' /\ \A g \in Handles \ {h} : Bystander(g)
    BY <2>2, <2>3, <2>5, <1>1, <1>3, <1>5
  <2>7. NeverStuck'
    <3>1. Cardinality(active) # 0
      BY <2>3, <1>1, <1>2 DEF HasRoom, QueueTypeOK
    <3> QED BY <3>1, <2>3, FS_EmptySet DEF NeverStuck
  <2>8. QueueInv'
    BY <2>3, <2>5, <2>6, <2>7, <1>1 DEF QueueInv, QueueTypeOK
  <2> QED BY <2>2, <2>3, <2>5, <2>6, <2>8 DEF IsPosition
<1> QED BY <1>6, <1>7, <1>8 DEF AcquireSlot

\* As many are promoted as places in the line are vacated.
LEMMA PrefixSize ==
  ASSUME NEW S, NEW s \in Seq(S), IsInjective(s), NEW n \in 0 .. Len(s)
  PROVE  /\ IsFiniteSet(ToSet(SubSeq(s, 1, n)))
         /\ Cardinality(ToSet(SubSeq(s, 1, n))) = n
<1> DEFINE T == {s[k] : k \in 1 .. n}
           f == [k \in 1 .. n |-> s[k]]
<1>1. ToSet(SubSeq(s, 1, n)) = T
  BY PrefixSetFacts
<1>2. Len(s) \in Nat /\ DOMAIN s = 1 .. Len(s)
  BY LenProperties
<1>3. f \in Bijection(1 .. n, T)
  BY <1>2 DEF Bijection, Injection, Surjection, IsInjective
<1>4. IsFiniteSet(1 .. n) /\ Cardinality(1 .. n) = n
  <2>1. n \in Nat /\ 1 \in Int
    BY <1>2
  <2>2. /\ IsFiniteSet(1 .. n)
        /\ Cardinality(1 .. n) = IF 1 > n THEN 0 ELSE n - 1 + 1
    BY <2>1, FS_Interval
  <2> QED BY <2>1, <2>2
<1> HIDE DEF T, f
<1>5. IsFiniteSet(T) /\ Cardinality(T) = n
  BY <1>3, <1>4, FS_Bijection DEF ExistsBijection
<1> QED BY <1>1, <1>5

\* How many slots are taken after one was freed.
LEMMA FreeSlotSize ==
  ASSUME QueueInv, NEW h \in Handles, FreeSlot(h)
  PROVE  LET rest == active \ {h}
             n == Promotable(Cardinality(rest))
         IN /\ n \in 0 .. Len(queued)
            /\ ToSet(SubSeq(queued, 1, n)) \subseteq Waiting
            /\ Cardinality(active') = Cardinality(rest) + n
            /\ n > 0 => max = 0 \/ Cardinality(rest) + n <= max
            /\ queued' # << >> => max # 0 /\ Cardinality(rest) + n >= max
<1> DEFINE rest == active \ {h}
           n == Promotable(Cardinality(rest))
           called == ToSet(SubSeq(queued, 1, n))
<1>1. active' = rest \cup called /\ queued' = SubSeq(queued, n + 1, Len(queued))
  BY DEF FreeSlot
<1>2. /\ IsFiniteSet(rest) /\ Cardinality(rest) \in Nat /\ max \in Nat
      /\ queued \in Seq(Handles) /\ IsInjective(queued) /\ Len(queued) \in Nat
      /\ active \cap Waiting = {}
  BY HandlesAssumption, FS_Subset, FS_CardinalityType, LenProperties DEF QueueInv, QueueTypeOK
<1>3. /\ n \in 0 .. Len(queued)
      /\ n > 0 => max = 0 \/ Cardinality(rest) + n <= max
      /\ n < Len(queued) => max # 0 /\ Cardinality(rest) + n >= max
  BY <1>2, PromotableFacts
<1> HIDE DEF n
<1>4. called \subseteq Waiting
  BY <1>2, <1>3, CutFacts DEF Waiting
<1>5. Cardinality(active') = Cardinality(rest) + n
  <2>1. IsFiniteSet(called) /\ Cardinality(called) = n
    BY <1>2, <1>3, PrefixSize
  <2>2. rest \cap called = {}
    BY <1>2, <1>4
  <2> HIDE DEF called, rest
  <2>3. Cardinality(rest \cup called) = Cardinality(rest) + Cardinality(called) - Cardinality({})
    BY <2>1, <2>2, <1>2, FS_Union
  <2>4. Cardinality({}) = 0 /\ n \in Nat
    BY <1>2, <1>3, FS_EmptySet
  <2>5. active' = rest \cup called
    BY <1>1
  <2> QED BY <2>1, <2>3, <2>4, <2>5, <1>2
<1>6. queued' # << >> => n < Len(queued)
  <2> DEFINE q == queued'
  <2>1. q \in Seq(Handles) /\ Len(q) = Len(queued) - n
    BY <1>1, <1>2, <1>3, CutFacts
  <2> HIDE DEF q
  <2>2. n = Len(queued) => Len(q) = 0
    BY <2>1, <1>2
  <2>3. n = Len(queued) => q = << >>
    BY <2>1, <2>2, EmptySeq
  <2> QED BY <2>3, <1>2, <1>3 DEF q
<1> HIDE DEF called
<1>7. ToSet(SubSeq(queued, 1, n)) \subseteq Waiting
  BY <1>4 DEF called
<1> QED BY <1>3, <1>5, <1>6, <1>7 DEF n

\* The waiter at place i of the line is told that place.
LEMMA BroadcastExact ==
  ASSUME NEW ch \in [Handles -> ChanType], \A h \in Handles : Len(ch[h].buf) <= 1,
         NEW q \in Seq(Handles), IsInjective(q), NEW n \in Int, max \in Nat,
         NEW i \in DOMAIN q
  PROVE  Broadcast(ch, q, n)[q[i]].buf = <<Position(n - max + i - 1, n - max + Len(q))>>
<1> DEFINE h == q[i]
           j == CHOOSE k \in DOMAIN q : q[k] = h
           st == Position(n - max + j - 1, n - max + Len(q))
<1>1. Len(q) \in Nat /\ DOMAIN q = 1 .. Len(q)
  BY LenProperties
<1>2. h \in Handles /\ h \in ToSet(q)
  BY <1>1, ElementOfSeq DEF ToSet
<1>3. j \in DOMAIN q /\ q[j] = h
  OBVIOUS
<1>4. j = i
  BY <1>3 DEF IsInjective
<1>5. n - max + j - 1 \in Int /\ n - max + Len(q) \in Int
  BY <1>1, <1>3
<1>6. st \in Status
  BY <1>5, StatusFacts DEF IsPosition
<1>7. Broadcast(ch, q, n)[h] = TrySend(ch[h], st)
  BY <1>2 DEF Broadcast
<1> HIDE DEF st, j, h
<1>8. TrySend(ch[h], st).buf = <<st>>
  BY <1>2, <1>6, TrySendFacts
<1> QED BY <1>4, <1>7, <1>8 DEF st, h
=============================================================================
