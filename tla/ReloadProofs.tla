---------------------------- MODULE ReloadProofs ----------------------------
(***************************************************************************)
(* Proofs about Reload, for any finite sets of upstreams and relays, any   *)
(* number of reloads and inquiries and any versions of the file.           *)
(***************************************************************************)
EXTENDS Reload, FiniteSetTheorems, TLAPS

Queues == [upstream : Upstreams, max : Nat, active : SUBSET Relays, line : Seq(Relays)]

---------------------------------------------------------------------------
(* A queue *)

\* A limit is all that SetMax changes, and a new queue is empty.
LEMMA SetMaxFacts ==
  ASSUME NEW q \in Queues, NEW max \in Nat
  PROVE  /\ SetMax(q, max) \in Queues
         /\ SetMax(q, max).upstream = q.upstream /\ SetMax(q, max).active = q.active
         /\ SetMax(q, max).max = max
BY DEF SetMax, Queues

LEMMA NewQueueFacts ==
  ASSUME NEW u \in Upstreams, NEW max \in Nat
  PROVE  /\ NewQueue(u, max) \in Queues
         /\ NewQueue(u, max).upstream = u /\ NewQueue(u, max).active = {}
         /\ NewQueue(u, max).max = max
BY DEF NewQueue, Queues

\* A newcomer changes neither whose queue it is nor its limit.
LEMMA JoinedFacts ==
  ASSUME NEW q \in Queues, NEW c \in Relays
  PROVE  /\ Joined(q, c) \in Queues
         /\ Joined(q, c).upstream = q.upstream /\ Joined(q, c).max = q.max
<1>1. q.active \cup {c} \in SUBSET Relays /\ Append(q.line, c) \in Seq(Relays)
  BY DEF Queues
<1>2. CASE HasRoom(q)
  BY <1>1, <1>2 DEF Joined, Queues
<1>3. CASE ~HasRoom(q)
  BY <1>1, <1>3 DEF Joined, Queues
<1> QED BY <1>2, <1>3

\* No more are promoted than are waiting.
LEMMA PromotedFacts ==
  ASSUME NEW q \in Queues, NEW rest \in SUBSET Relays
  PROVE  /\ Promoted(q, rest) \in 0 .. Len(q.line)
         /\ q.max # 0 /\ Promoted(q, rest) # 0
              => Cardinality(rest) + Promoted(q, rest) <= q.max
<1>1. Cardinality(rest) \in Nat
  BY ActorsAssumption, FS_Subset, FS_CardinalityType
<1>2. q.max \in Nat /\ Len(q.line) \in Nat
  BY DEF Queues
<1> QED BY <1>1, <1>2 DEF Promoted

\* Nor does one that leaves, whoever is promoted for it.
LEMMA LeftFacts ==
  ASSUME NEW q \in Queues, NEW c \in Relays
  PROVE  /\ Left(q, c) \in Queues
         /\ Left(q, c).upstream = q.upstream /\ Left(q, c).max = q.max
<1>1. CASE c \in ToSet(q.line)
  <2> DEFINE i == CHOOSE i \in DOMAIN q.line : q.line[i] = c
  <2>1. i \in 1 .. Len(q.line)
    BY <1>1 DEF ToSet, Queues
  <2>2. RemoveAt(q.line, i) \in Seq(Relays)
    <3> HIDE DEF i
    <3>1. q.line \in Seq(Relays)
      BY DEF Queues
    <3>2. SubSeq(q.line, 1, i - 1) \in Seq(Relays)
      BY <2>1, <3>1
    <3>3. SubSeq(q.line, i + 1, Len(q.line)) \in Seq(Relays)
      BY <2>1, <3>1
    <3> QED BY <3>2, <3>3 DEF RemoveAt
  <2>3. Left(q, c) = [q EXCEPT !.line = RemoveAt(q.line, i)]
    BY <1>1 DEF Left, Queues
  <2> HIDE DEF i
  <2> QED BY <2>2, <2>3 DEF Queues
<1>2. CASE c \notin ToSet(q.line)
  <2> DEFINE rest == q.active \ {c}
             n == Promoted(q, rest)
  <2>1. rest \in SUBSET Relays /\ q.line \in Seq(Relays)
    BY DEF Queues
  <2>2. n \in 0 .. Len(q.line)
    BY <2>1, PromotedFacts
  <2>3. Left(q, c) = [q EXCEPT !.active = rest \cup ToSet(SubSeq(q.line, 1, n)),
                               !.line = SubSeq(q.line, n + 1, Len(q.line))]
    BY <1>2 DEF Left
  <2> HIDE DEF n
  <2>4. SubSeq(q.line, 1, n) \in Seq(Relays) /\ SubSeq(q.line, n + 1, Len(q.line)) \in Seq(Relays)
    BY <2>1, <2>2
  <2>5. ToSet(SubSeq(q.line, 1, n)) \subseteq Relays
    BY <2>4 DEF ToSet
  <2> QED BY <2>1, <2>3, <2>4, <2>5 DEF Queues
<1> QED BY <1>1, <1>2

---------------------------------------------------------------------------
(* updateUpstreamQueuesLocked *)

\* Two lists, one after the other.
LEMMA ConcatFacts ==
  ASSUME NEW T, NEW s \in Seq(T), NEW t \in Seq(T)
  PROVE  /\ s \o t \in Seq(T) /\ DOMAIN (s \o t) = 1 .. Len(s) + Len(t)
         /\ \A k \in 1 .. Len(s) : (s \o t)[k] = s[k]
         /\ \A i \in 1 .. Len(t) : (s \o t)[Len(s) + i] = t[i]
OBVIOUS

\* The upstreams without a queue are gone through one by one.
LEMMA FreshFacts ==
  ASSUME NEW S \in SUBSET Upstreams
  PROVE  /\ SetToSeq(S) \in Seq(S) /\ IsInjective(SetToSeq(S))
         /\ \A u \in S : \E i \in DOMAIN SetToSeq(S) : SetToSeq(S)[i] = u
<1> DEFINE n == Cardinality(S)
           f == SetToSeq(S)
<1>1. IsFiniteSet(S) /\ n \in Nat /\ ExistsBijection(1 .. n, S)
  BY UpstreamsAssumption, FS_Subset, FS_CardinalityType
<1>2. PICK g \in [1 .. n -> S] : IsInjective(g)
  BY <1>1 DEF ExistsBijection, Bijection, Injection
<1>3. f \in [1 .. n -> S] /\ IsInjective(f)
  BY <1>2 DEF SetToSeq
<1> HIDE DEF f, n
<1>4. f \in Injection(1 .. n, S)
  BY <1>3 DEF Injection
<1>5. IsFiniteSet(1 .. n) /\ Cardinality(1 .. n) = n
  BY <1>1, FS_Interval
<1>6. f \in Surjection(1 .. n, S)
  BY <1>1, <1>4, <1>5, FS_Injection DEF n
<1>7. \A u \in S : \E i \in 1 .. n : f[i] = u
  BY <1>6 DEF Surjection
<1>8. DOMAIN f = 1 .. n /\ f \in Seq(S)
  BY <1>1, <1>3
<1> QED BY <1>3, <1>7, <1>8 DEF f

\* An upstream that had a queue keeps it, others get new ones; all have the new
\* limits, and nobody's slot or place changes.
LEMMA UpdateQueuesFacts ==
  ASSUME TypeOK, RoutesServed, NEW conf, IsConfig(conf), LimitsSet(conf), UpdateQueues(conf)
  PROVE  /\ queues' \in Seq(Queues)
         /\ DOMAIN queues \subseteq DOMAIN queues'
         /\ queueOf' \in [DOMAIN conf -> DOMAIN queues']
         /\ \A u \in DOMAIN conf : /\ queues'[queueOf'[u]].upstream = u
                                  /\ queues'[queueOf'[u]].max = conf[u].max
         /\ \A u \in DOMAIN conf \cap DOMAIN upstreams : queueOf'[u] = queueOf[u]
         /\ \A k \in DOMAIN queues : queues'[k] = queues[k]
         /\ \A k \in DOMAIN queues' \ DOMAIN queues :
              queues'[k].active = {} /\ queues'[k].upstream \in DOMAIN conf \ DOMAIN upstreams
<1> DEFINE new == DOMAIN conf \ DOMAIN queueOf
           fresh == SetToSeq(new)
           made == [i \in DOMAIN fresh |-> NewQueue(fresh[i], conf[fresh[i]].max)]
           n == Len(queues)
<1>1. new \in SUBSET Upstreams /\ \A u \in DOMAIN conf : conf[u].max \in Nat
  BY DEF IsConfig, Entry
<1>2. fresh \in Seq(new) /\ \A u \in new : \E i \in DOMAIN fresh : fresh[i] = u
  BY <1>1, FreshFacts
<1>3. queues \in Seq(Queues) /\ n \in Nat /\ DOMAIN queues = 1 .. n
  BY DEF TypeOK, Queues
<1>4. queueOf \in [DOMAIN queueOf -> 1 .. n]
  BY <1>3 DEF TypeOK
<1>5. /\ queues' = queues \o made
      /\ queueOf' = [u \in DOMAIN conf |->
                       IF u \in DOMAIN queueOf THEN queueOf[u]
                       ELSE n + CHOOSE i \in DOMAIN fresh : fresh[i] = u]
  BY DEF UpdateQueues
<1> HIDE DEF fresh
<1>6. made \in Seq(Queues) /\ Len(made) = Len(fresh) /\ Len(fresh) \in Nat
      /\ DOMAIN fresh = 1 .. Len(fresh)
  <2>1. ASSUME NEW i \in DOMAIN fresh PROVE made[i] \in Queues
    BY <1>1, <1>2, NewQueueFacts
  <2>2. Len(fresh) \in Nat /\ DOMAIN fresh = 1 .. Len(fresh)
    BY <1>2
  <2>3. made \in [1 .. Len(fresh) -> Queues]
    BY <2>1, <2>2
  <2> HIDE DEF made
  <2> QED BY <2>2, <2>3
<1>7. /\ queues' \in Seq(Queues) /\ DOMAIN queues' = 1 .. n + Len(fresh)
      /\ \A k \in 1 .. n : queues'[k] = queues[k]
      /\ \A i \in 1 .. Len(fresh) : queues'[n + i] = made[i]
  <2> HIDE DEF made
  <2>1. queues \in Seq(Queues) /\ made \in Seq(Queues)
    BY <1>3, <1>6
  <2>2. /\ queues \o made \in Seq(Queues)
        /\ DOMAIN (queues \o made) = 1 .. Len(queues) + Len(made)
        /\ \A k \in 1 .. Len(queues) : (queues \o made)[k] = queues[k]
        /\ \A i \in 1 .. Len(made) : (queues \o made)[Len(queues) + i] = made[i]
    BY <2>1, ConcatFacts
  <2> QED BY <1>5, <1>6, <2>2
<1>8. ASSUME NEW u \in DOMAIN conf \cap DOMAIN queueOf
      PROVE  /\ queueOf'[u] = queueOf[u] /\ queueOf'[u] \in 1 .. n
             /\ queues'[queueOf'[u]].upstream = u /\ queues'[queueOf'[u]].max = conf[u].max
  <2>1. queueOf'[u] = queueOf[u] /\ queueOf[u] \in 1 .. n /\ queues[queueOf[u]].upstream = u
    BY <1>4, <1>5 DEF RoutesServed
  <2>2. queues[queueOf[u]].max = conf[u].max
    BY DEF LimitsSet
  <2> QED BY <1>7, <2>1, <2>2
<1>9. ASSUME NEW u \in new
      PROVE  /\ queueOf'[u] \in n + 1 .. n + Len(fresh)
             /\ queues'[queueOf'[u]].upstream = u /\ queues'[queueOf'[u]].max = conf[u].max
  <2> DEFINE i == CHOOSE i \in DOMAIN fresh : fresh[i] = u
  <2>1. i \in 1 .. Len(fresh) /\ fresh[i] = u
    BY <1>2, <1>6
  <2>2. queueOf'[u] = n + i
    BY <1>5
  <2> HIDE DEF i
  <2>3. queues'[n + i] = NewQueue(u, conf[u].max)
    BY <1>6, <1>7, <2>1
  <2> QED BY <1>3, <1>6, <2>1, <2>2, <2>3, <1>1, NewQueueFacts
<1>10. ASSUME NEW k \in DOMAIN queues' \ DOMAIN queues
       PROVE  queues'[k].active = {} /\ queues'[k].upstream \in new
  <2>1. PICK i \in 1 .. Len(fresh) : k = n + i
    <3>1. k \in n + 1 .. n + Len(fresh)
      BY <1>3, <1>6, <1>7
    <3>2. k - n \in 1 .. Len(fresh) /\ k = n + (k - n)
      BY <1>3, <1>6, <3>1
    <3> QED BY <3>2
  <2>2. queues'[k] = NewQueue(fresh[i], conf[fresh[i]].max) /\ fresh[i] \in new
    BY <1>2, <1>6, <1>7, <2>1
  <2> QED BY <1>1, <2>2, NewQueueFacts
<1>11. DOMAIN queueOf = DOMAIN upstreams
  BY DEF RoutesServed
<1>12. queueOf' \in [DOMAIN conf -> DOMAIN queues']
  <2>1. \A u \in DOMAIN conf : queueOf'[u] \in DOMAIN queues'
    BY <1>3, <1>6, <1>7, <1>8, <1>9
  <2> QED BY <1>5, <2>1
<1> QED BY <1>3, <1>6, <1>7, <1>8, <1>9, <1>10, <1>11, <1>12

---------------------------------------------------------------------------
(* The invariant, and its parts *)

PlacesOK ==
  /\ pc \in [Relays \cup Reloaders \cup Inquirers -> RelayPlaces \cup ReloadPlaces \cup InquiryPlaces]
  /\ \A c \in Relays : pc[c] \in RelayPlaces
  /\ \A r \in Reloaders : pc[r] \in ReloadPlaces
  /\ \A i \in Inquirers : pc[i] \in InquiryPlaces

LocksOK ==
  /\ readers \subseteq Relays \cup Inquirers /\ blocked \subseteq Relays \cup Inquirers
  /\ pending \in Reloaders \cup {NoOne}

StoreOK ==
  /\ version \in DOMAIN Configs /\ IsConfig(upstreams)
  /\ queues \in Seq(Queues) /\ queueOf \in [DOMAIN queueOf -> DOMAIN queues]

JobsOK ==
  /\ job \in [Relays -> [upstream : Upstreams, queue : Nat]]
  /\ \A c \in Relays : pc[c] \in {"asking", "waiting", "rejected"} => job[c].queue \in DOMAIN queues

ReadOK ==
  /\ got \in [Reloaders -> [version : DOMAIN Configs,
                           resolved : {got[r].resolved : r \in Reloaders}]]
  /\ \A r \in Reloaders : IsConfig(got[r].resolved)

IInv ==
  /\ file \in DOMAIN Configs
  /\ PlacesOK /\ LocksOK /\ StoreOK /\ JobsOK /\ ReadOK
  /\ RoutesServed

\* Together they are what is checked.
LEMMA PartsGiveType == IInv => TypeOK
BY DEF IInv, TypeOK, PlacesOK, LocksOK, StoreOK, JobsOK, ReadOK, Queues

\* A reload that stores goes on with what it has read.
StoringStays == \A r \in Reloaders : pc[r] = "storing" => pc'[r] = "storing" /\ got'[r] = got[r]

\* Then no limit in force is dropped.
LEMMA LimitsStay ==
  ASSUME StoringStays, UNCHANGED upstreams, NEW u
  PROVE  LimitsInForce(u) \subseteq LimitsInForce(u)'
BY DEF StoringStays, LimitsInForce

\* What an action leaves alone stays as it was.
LEMMA Untouched ==
  /\ LocksOK /\ UNCHANGED lockVars => LocksOK'
  /\ StoreOK /\ RoutesServed /\ UNCHANGED <<confVars, queues>> /\ StoringStays
       => StoreOK' /\ RoutesServed'
  /\ JobsOK /\ UNCHANGED <<job, queues, pc>> => JobsOK'
  /\ ReadOK /\ UNCHANGED got => ReadOK'
<1>1. ASSUME RoutesServed, UNCHANGED <<confVars, queues>>, StoringStays PROVE RoutesServed'
  <2>1. \A u : LimitsInForce(u) \subseteq LimitsInForce(u)'
    BY <1>1, LimitsStay DEF confVars
  <2> QED BY <1>1, <2>1 DEF RoutesServed, confVars
<1> QED BY <1>1 DEF LocksOK, StoreOK, JobsOK, ReadOK, lockVars, confVars

\* A goroutine goes on to a place of its kind, the others stay.
LEMMA PlaceFacts ==
  ASSUME PlacesOK, NEW p, NEW to, pc' = [pc EXCEPT ![p] = to],
         \/ p \in Relays /\ to \in RelayPlaces
         \/ p \in Reloaders /\ to \in ReloadPlaces
         \/ p \in Inquirers /\ to \in InquiryPlaces
  PROVE  /\ PlacesOK' /\ pc'[p] = to
         /\ \A s \in Relays \cup Reloaders \cup Inquirers : s # p => pc'[s] = pc[s]
BY ActorsAssumption DEF PlacesOK, RelayPlaces, ReloadPlaces, InquiryPlaces

LEMMA LockFacts ==
  ASSUME LocksOK, NEW p
  PROVE  /\ p \in Relays \cup Inquirers /\ (RLock(p) \/ RUnlock(p)) => LocksOK'
         /\ p \in Reloaders /\ Lock(p) => LocksOK'
         /\ Unlock => LocksOK'
BY DEF LocksOK, RLock, RUnlock, Lock, Unlock

\* A queue changes its slots and its line, or its limit to one in force, and
\* everything else stands.
LEMMA QueueChange ==
  ASSUME StoreOK, RoutesServed, StoringStays, NEW k \in DOMAIN queues, NEW q \in Queues,
         q.upstream = queues[k].upstream,
         q.max = queues[k].max \/ q.max \in LimitsInForce(q.upstream),
         queues' = [queues EXCEPT ![k] = q], UNCHANGED confVars
  PROVE  StoreOK' /\ RoutesServed' /\ DOMAIN queues' = DOMAIN queues
<1>1. queues' \in Seq(Queues) /\ DOMAIN queues' = DOMAIN queues
  BY DEF StoreOK
<1>2. \A j \in DOMAIN queues : queues'[j] = IF j = k THEN q ELSE queues[j]
  BY DEF StoreOK
<1>3. \A u : LimitsInForce(u) \subseteq LimitsInForce(u)'
  BY LimitsStay DEF confVars
<1>4. ASSUME NEW u \in DOMAIN upstreams
      PROVE  queues'[queueOf[u]].upstream = u /\ queues'[queueOf[u]].max \in LimitsInForce(u)
  BY <1>2 DEF RoutesServed, StoreOK
<1>5. RoutesServed'
  BY <1>3, <1>4 DEF RoutesServed, confVars
<1> QED BY <1>1, <1>5 DEF StoreOK, confVars

---------------------------------------------------------------------------
(* The actions *)

\* Looking up changes nothing but what the relay knows.
LEMMA LookUpStep ==
  ASSUME IInv, NEW c \in Relays, Arrive(c) \/ Routing(c) \/ AskQueue(c)
  PROVE  IInv'
<1>1. /\ file \in DOMAIN Configs
      /\ PlacesOK /\ LocksOK /\ StoreOK /\ JobsOK /\ ReadOK /\ RoutesServed
  BY DEF IInv
<1>2. UNCHANGED <<file, confVars, queues, got>> /\ (RLock(c) \/ RUnlock(c))
  BY DEF Arrive, Routing, AskQueue, GetTargets, NoTargets, GetQueue, NoQueue
<1>3. PICK to \in RelayPlaces : pc' = [pc EXCEPT ![c] = to]
  BY DEF Arrive, Routing, AskQueue, GetTargets, NoTargets, GetQueue, NoQueue, Go, RelayPlaces
<1>4. PlacesOK' /\ pc'[c] = to /\ \A d \in Relays : d # c => pc'[d] = pc[d]
  BY <1>1, <1>3, PlaceFacts
<1>5. JobsOK'
  <2>1. CASE Arrive(c) \/ NoTargets(c) \/ AskQueue(c)
    <3>1. UNCHANGED job /\ pc'[c] \in {"routing", "done", "choosing"}
      BY <1>1, <2>1 DEF Arrive, NoTargets, AskQueue, Go, PlacesOK
    <3> QED BY <1>1, <1>2, <1>4, <3>1 DEF JobsOK
  <2>2. CASE \E m \in Modules : GetTargets(c, m)
    <3>1. PICK u \in DOMAIN upstreams : job' = [job EXCEPT ![c].upstream = u]
      BY <2>2 DEF GetTargets
    <3>2. u \in Upstreams
      BY <1>1 DEF StoreOK, IsConfig
    <3>3. pc'[c] = "routed"
      BY <1>1, <2>2 DEF GetTargets, Go, PlacesOK
    <3> QED BY <1>1, <1>2, <1>4, <3>1, <3>2, <3>3 DEF JobsOK
  <2>3. CASE GetQueue(c)
    <3>1. job' = [job EXCEPT ![c].queue = queueOf[job[c].upstream]]
      BY <2>3 DEF GetQueue
    <3>2. queueOf[job[c].upstream] \in DOMAIN queues /\ DOMAIN queues \subseteq Nat
      BY <1>1, <2>3 DEF GetQueue, StoreOK
    <3> QED BY <1>1, <1>2, <1>4, <3>1, <3>2 DEF JobsOK
  <2>4. CASE NoQueue(c)
    <3>1. job' = [job EXCEPT ![c] = NoJob] /\ pc'[c] = "failed"
      BY <1>1, <2>4 DEF NoQueue, Go, PlacesOK
    <3>2. NoJob \in [upstream : Upstreams, queue : Nat]
      BY UpstreamsAssumption DEF NoJob
    <3> HIDE DEF NoJob
    <3> QED BY <1>1, <1>2, <1>4, <3>1, <3>2 DEF JobsOK
  <2> QED BY <2>1, <2>2, <2>3, <2>4 DEF Routing
<1>6. LocksOK'
  BY <1>1, <1>2, LockFacts
<1>7. StoringStays
  BY <1>1, <1>2, <1>3, PlaceFacts, ActorsAssumption DEF StoringStays
<1> QED BY <1>1, <1>2, <1>4, <1>5, <1>6, <1>7, Untouched DEF IInv

\* What joining and leaving do to the one queue they touch.
LEMMA QueueTouched ==
  ASSUME IInv, NEW c \in Relays, Acquire(c) \/ Release(c)
  PROVE  LET k == job[c].queue
         IN /\ k \in DOMAIN queues /\ queues[k] \in Queues
            /\ \E q \in {Joined(queues[k], c), Left(queues[k], c)} :
                 queues' = [queues EXCEPT ![k] = q]
<1>1. pc[c] \in {"asking", "waiting", "rejected"}
  BY DEF Acquire, Release, Go
<1>2. job[c].queue \in DOMAIN queues /\ queues[job[c].queue] \in Queues
  BY <1>1 DEF IInv, JobsOK, StoreOK
<1> QED BY <1>2 DEF Acquire, Release

LEMMA QueueStep ==
  ASSUME IInv, NEW c \in Relays, Acquire(c) \/ Release(c)
  PROVE  IInv'
<1>1. /\ file \in DOMAIN Configs
      /\ PlacesOK /\ LocksOK /\ StoreOK /\ JobsOK /\ ReadOK /\ RoutesServed
  BY DEF IInv
<1>2. UNCHANGED <<file, confVars, lockVars, got>>
  BY DEF Acquire, Release
<1> DEFINE k == job[c].queue
<1>3. k \in DOMAIN queues /\ queues[k] \in Queues
  BY QueueTouched
<1>4. PICK q \in {Joined(queues[k], c), Left(queues[k], c)} : queues' = [queues EXCEPT ![k] = q]
  BY QueueTouched
<1>5. q \in Queues /\ q.upstream = queues[k].upstream /\ q.max = queues[k].max
  BY <1>3, <1>4, JoinedFacts, LeftFacts
<1>6. PICK to \in RelayPlaces : pc' = [pc EXCEPT ![c] = to]
  BY DEF Acquire, Release, Go, RelayPlaces
<1>7. PlacesOK' /\ pc'[c] = to /\ \A d \in Relays : d # c => pc'[d] = pc[d]
  BY <1>1, <1>6, PlaceFacts
<1>8. StoringStays
  BY <1>1, <1>2, <1>6, PlaceFacts, ActorsAssumption DEF StoringStays
<1>9. StoreOK' /\ RoutesServed' /\ DOMAIN queues' = DOMAIN queues
  BY <1>1, <1>2, <1>3, <1>4, <1>5, <1>8, QueueChange
<1>10. JobsOK'
  <2>1. CASE Acquire(c)
    BY <1>1, <1>3, <1>9, <1>7, <2>1 DEF Acquire, JobsOK
  <2>2. CASE Release(c)
    <3>1. job' = [job EXCEPT ![c] = NoJob] /\ pc'[c] = "done"
      BY <1>1, <2>2 DEF Release, PlacesOK
    <3>2. NoJob \in [upstream : Upstreams, queue : Nat]
      BY UpstreamsAssumption DEF NoJob
    <3> QED BY <1>1, <1>9, <1>7, <3>1, <3>2 DEF JobsOK
  <2> QED BY <2>1, <2>2
<1> QED BY <1>1, <1>2, <1>9, <1>7, <1>10, Untouched DEF IInv

\* A rejected relay remembers the queue that rejected it.
LEMMA RefusedStep ==
  ASSUME IInv, NEW c \in Relays, Refused(c)
  PROVE  IInv'
<1>1. /\ file \in DOMAIN Configs
      /\ PlacesOK /\ LocksOK /\ StoreOK /\ JobsOK /\ ReadOK /\ RoutesServed
  BY DEF IInv
<1>2. UNCHANGED <<file, confVars, queues, lockVars, got, job>>
      /\ pc[c] = "asking" /\ pc' = [pc EXCEPT ![c] = "rejected"]
  BY DEF Refused, Go
<1>3. PlacesOK' /\ \A p \in Relays \cup Reloaders : p # c => pc'[p] = pc[p]
  <2>1. "rejected" \in RelayPlaces
    BY DEF RelayPlaces
  <2> QED BY <1>1, <1>2, <2>1, PlaceFacts
<1>4. StoringStays
  BY <1>2, <1>3, ActorsAssumption DEF StoringStays
<1>5. JobsOK'
  BY <1>1, <1>2, <1>3 DEF JobsOK
<1> QED BY <1>1, <1>2, <1>3, <1>4, <1>5, Untouched DEF IInv

\* An inquiry holds a lock and changes nothing.
LEMMA InquiryStep ==
  ASSUME IInv, NEW i \in Inquirers, Inquire(i) \/ Answer(i)
  PROVE  IInv'
<1>1. /\ file \in DOMAIN Configs
      /\ PlacesOK /\ LocksOK /\ StoreOK /\ JobsOK /\ ReadOK /\ RoutesServed
  BY DEF IInv
<1>2. UNCHANGED <<file, confVars, queues, got, job>> /\ (RLock(i) \/ RUnlock(i))
  BY DEF Inquire, Answer
<1>3. PICK to \in InquiryPlaces : pc' = [pc EXCEPT ![i] = to]
  BY DEF Inquire, Answer, Go, InquiryPlaces
<1>4. PlacesOK' /\ \A p \in Relays \cup Reloaders : pc'[p] = pc[p]
  BY <1>1, <1>3, PlaceFacts, ActorsAssumption
<1>5. JobsOK'
  BY <1>1, <1>2, <1>4 DEF JobsOK
<1>6. LocksOK'
  BY <1>1, <1>2, LockFacts
<1>7. StoringStays
  BY <1>2, <1>4 DEF StoringStays
<1> QED BY <1>1, <1>2, <1>4, <1>5, <1>6, <1>7, Untouched DEF IInv

\* What a reload reads is a configuration, and still one when it is resolved.
LEMMA GotFacts ==
  ASSUME ReadOK, NEW r \in Reloaders, NEW v \in DOMAIN Configs, NEW conf, IsConfig(conf),
         got' = [got EXCEPT ![r] = [version |-> v, resolved |-> conf]]
  PROVE  ReadOK'
<1>1. \A s \in Reloaders : got'[s] = IF s = r THEN [version |-> v, resolved |-> conf] ELSE got[s]
  BY DEF ReadOK
<1>2. \A s \in Reloaders : IsConfig(got'[s].resolved)
  BY <1>1 DEF ReadOK
<1>3. \A s \in Reloaders : got'[s] \in [version : DOMAIN Configs,
                                        resolved : {got'[t].resolved : t \in Reloaders}]
  BY <1>1 DEF ReadOK
<1> QED BY <1>2, <1>3 DEF ReadOK

LEMMA FirstVersion == 1 \in DOMAIN Configs /\ IsConfig(Configs[1])
BY ConfigsAssumption

\* What a reload does before it stores, or instead.
Preparing(r) == ReadFile(r) \/ InvalidFile(r) \/ AskLock(r) \/ Discover(r) \/ OpenLogs(r) \/ Fail(r)

\* It changes nothing but what the reload knows and the lock.
LEMMA PreparingStep ==
  ASSUME IInv, NEW r \in Reloaders, Preparing(r)
  PROVE  IInv'
<1>1. /\ file \in DOMAIN Configs
      /\ PlacesOK /\ LocksOK /\ StoreOK /\ JobsOK /\ ReadOK /\ RoutesServed
  BY DEF IInv
<1>2. UNCHANGED <<file, confVars, queues, job>>
  BY DEF Preparing, ReadFile, InvalidFile, AskLock, Discover, OpenLogs, Fail
<1>3. PICK to \in ReloadPlaces : pc' = [pc EXCEPT ![r] = to]
  BY DEF Preparing, ReadFile, InvalidFile, AskLock, Discover, OpenLogs, Fail, Go, ReloadPlaces
<1>4. PlacesOK' /\ (\A c \in Relays : pc'[c] = pc[c]) /\ \A s \in Reloaders \ {r} : pc'[s] = pc[s]
  BY <1>1, <1>3, PlaceFacts, ActorsAssumption
<1>5. ReadOK'
  <2>1. CASE ReadFile(r)
    BY <1>1, <2>1, GotFacts, ConfigsAssumption DEF ReadFile
  <2>2. CASE AskLock(r) \/ OpenLogs(r)
    BY <1>1, <2>2, Untouched DEF AskLock, OpenLogs
  <2>3. CASE Discover(r)
    <3> DEFINE old == got[r].resolved
    <3>1. PICK found \in [DOMAIN old -> SUBSET Modules] :
            got' = [got EXCEPT ![r] = [version |-> got[r].version,
                                       resolved |-> Resolved(old, found)]]
      BY <2>3 DEF Discover
    <3>2. IsConfig(Resolved(old, found))
      BY <1>1 DEF ReadOK, IsConfig, Entry, Resolved
    <3>3. got[r].version \in DOMAIN Configs
      BY <1>1 DEF ReadOK
    <3> QED BY <1>1, <3>1, <3>2, <3>3, GotFacts
  <2>4. CASE InvalidFile(r) \/ Fail(r)
    BY <1>1, <2>4, GotFacts, FirstVersion DEF InvalidFile, Fail, NothingRead
  <2> QED BY <2>1, <2>2, <2>3, <2>4 DEF Preparing
<1>6. LocksOK'
  BY <1>1, LockFacts, Untouched DEF Preparing, ReadFile, InvalidFile, AskLock, Discover, OpenLogs, Fail
<1>7. StoringStays
  <2>1. pc[r] # "storing"
    BY DEF Preparing, ReadFile, InvalidFile, AskLock, Discover, OpenLogs, Fail, MayFail, Go
  <2>2. \A s \in Reloaders \ {r} : got'[s] = got[s]
    <3>1. UNCHANGED got \/ \E e : got' = [got EXCEPT ![r] = e]
      BY DEF Preparing, ReadFile, InvalidFile, AskLock, Discover, OpenLogs, Fail
    <3> QED BY <1>1, <3>1 DEF ReadOK
  <2> QED BY <1>4, <2>1, <2>2 DEF StoringStays
<1>8. JobsOK'
  BY <1>1, <1>2, <1>4 DEF JobsOK
<1> QED BY <1>1, <1>2, <1>4, <1>5, <1>6, <1>7, <1>8, Untouched DEF IInv

\* It sets the limit of a queue to one that is in force already.
LEMMA LimitQueueStep ==
  ASSUME IInv, NEW r \in Reloaders, NEW u \in Upstreams, LimitQueue(r, u)
  PROVE  IInv'
<1>1. /\ file \in DOMAIN Configs
      /\ PlacesOK /\ LocksOK /\ StoreOK /\ JobsOK /\ ReadOK /\ RoutesServed
  BY DEF IInv
<1> DEFINE k == queueOf[u]
           max == got[r].resolved[u].max
           q == SetMax(queues[k], max)
<1>2. /\ UNCHANGED <<file, confVars, lockVars, pc, got, job>>
      /\ queues' = [queues EXCEPT ![k] = q]
      /\ pc[r] = "storing" /\ u \in DOMAIN got[r].resolved /\ u \in DOMAIN queueOf
  BY DEF LimitQueue
<1>3. k \in DOMAIN queues /\ queues[k] \in Queues /\ queues[k].upstream = u
  BY <1>1, <1>2 DEF StoreOK, RoutesServed
<1>4. max \in Nat /\ max \in LimitsInForce(u)
  BY <1>1, <1>2 DEF ReadOK, IsConfig, Entry, LimitsInForce
<1> HIDE DEF max
<1>5. q \in Queues /\ q.upstream = queues[k].upstream /\ q.max = max
  BY <1>3, <1>4, SetMaxFacts
<1>6. StoringStays
  BY <1>2 DEF StoringStays
<1> HIDE DEF k, q
<1>7. StoreOK' /\ RoutesServed' /\ DOMAIN queues' = DOMAIN queues
  <2>1. q.max \in LimitsInForce(q.upstream)
    BY <1>3, <1>4, <1>5
  <2> QED BY <1>1, <1>2, <1>3, <1>5, <1>6, <2>1, QueueChange
<1>8. JobsOK' /\ PlacesOK'
  BY <1>1, <1>2, <1>7 DEF JobsOK, PlacesOK
<1> QED BY <1>1, <1>2, <1>7, <1>8, Untouched DEF IInv

\* It puts in force what it has read, with the limits that are set.
LEMMA StoreStep ==
  ASSUME IInv, NEW r \in Reloaders, Store(r)
  PROVE  IInv'
<1>1. /\ file \in DOMAIN Configs
      /\ PlacesOK /\ LocksOK /\ StoreOK /\ JobsOK /\ ReadOK /\ RoutesServed
  BY DEF IInv
<1> DEFINE conf == got[r].resolved
<1>2. IsConfig(conf) /\ got[r].version \in DOMAIN Configs
  BY <1>1 DEF ReadOK
<1>3. LimitsSet(conf) /\ UpdateQueues(conf) /\ upstreams' = conf /\ version' = got[r].version
  BY DEF Store
<1> HIDE DEF conf
<1>4. /\ queues' \in Seq(Queues) /\ DOMAIN queues \subseteq DOMAIN queues'
      /\ queueOf' \in [DOMAIN conf -> DOMAIN queues']
      /\ \A u \in DOMAIN conf : /\ queues'[queueOf'[u]].upstream = u
                                /\ queues'[queueOf'[u]].max = conf[u].max
  BY <1>2, <1>3, UpdateQueuesFacts, PartsGiveType DEF IInv
<1>5. RoutesServed'
  <2>1. \A u : upstreams'[u].max \in LimitsInForce(u)'
    BY DEF LimitsInForce
  <2> QED BY <1>3, <1>4, <2>1 DEF RoutesServed
<1>6. StoreOK'
  BY <1>2, <1>3, <1>4 DEF StoreOK
<1>7. PlacesOK' /\ \A c \in Relays : pc'[c] = pc[c]
  BY <1>1, PlaceFacts, ActorsAssumption DEF Store, Go, ReloadPlaces
<1>8. JobsOK'
  BY <1>1, <1>4, <1>7 DEF JobsOK, Store
<1>9. ReadOK'
  BY <1>1, GotFacts, FirstVersion DEF Store, NothingRead
<1>10. LocksOK' /\ UNCHANGED file
  BY <1>1, LockFacts DEF Store
<1> QED BY <1>1, <1>5, <1>6, <1>7, <1>8, <1>9, <1>10 DEF IInv

LEMMA ReloadStep ==
  ASSUME IInv, NEW r \in Reloaders,
         ReadFile(r) \/ InvalidFile(r) \/ AskLock(r) \/ Loading(r)
  PROVE  IInv'
BY PreparingStep, LimitQueueStep, StoreStep DEF Preparing, Loading

LEMMA EditStep ==
  ASSUME IInv, Edit
  PROVE  IInv'
<1>1. file' \in DOMAIN Configs
  BY ConfigsAssumption DEF IInv, Edit
<1>2. PlacesOK /\ UNCHANGED pc => PlacesOK'
  BY DEF PlacesOK
<1>3. StoringStays
  BY DEF StoringStays, Edit
<1> QED BY <1>1, <1>2, <1>3, Untouched DEF IInv, Edit

---------------------------------------------------------------------------
\* The server starts with a queue for each upstream of its file.
LEMMA InitIInv == Init => IInv
<1> SUFFICES ASSUME Init PROVE IInv
  OBVIOUS
<1> DEFINE us == SetToSeq(DOMAIN Configs[1])
           S == DOMAIN Configs[1]
<1>1. S \in SUBSET Upstreams /\ \A u \in S : Configs[1][u].max \in Nat
  BY FirstVersion DEF IsConfig, Entry
<1>2. us \in Seq(S) /\ \A u \in S : \E i \in DOMAIN us : us[i] = u
  BY <1>1, FreshFacts
<1>3. /\ queues = [i \in DOMAIN us |-> NewQueue(us[i], Configs[1][us[i]].max)]
      /\ queueOf = [u \in S |-> CHOOSE i \in DOMAIN us : us[i] = u]
      /\ upstreams = Configs[1]
  BY DEF Init
<1> HIDE DEF us
<1>4. \A i \in DOMAIN us : /\ queues[i] \in Queues
                           /\ queues[i].upstream = us[i]
                           /\ queues[i].max = Configs[1][us[i]].max
  BY <1>1, <1>2, <1>3, NewQueueFacts
<1>5. queues \in Seq(Queues) /\ DOMAIN queues = DOMAIN us
  <2>1. Len(us) \in Nat /\ DOMAIN us = 1 .. Len(us)
    BY <1>2
  <2>2. queues \in [1 .. Len(us) -> Queues]
    BY <1>3, <1>4, <2>1
  <2> QED BY <2>1, <2>2
<1>6. \A u \in S : queueOf[u] \in DOMAIN us /\ us[queueOf[u]] = u
  BY <1>2, <1>3
<1>7. StoreOK /\ RoutesServed
  <2>1. \A u : upstreams[u].max \in LimitsInForce(u)
    BY DEF LimitsInForce
  <2> QED BY <1>3, <1>4, <1>5, <1>6, <2>1, FirstVersion DEF Init, StoreOK, RoutesServed
<1>8. PlacesOK
  BY DEF Init, PlacesOK, RelayPlaces, ReloadPlaces, InquiryPlaces
<1>9. JobsOK
  <2>1. NoJob \in [upstream : Upstreams, queue : Nat]
    BY UpstreamsAssumption DEF NoJob
  <2> QED BY <2>1 DEF Init, JobsOK
<1>10. ReadOK
  BY FirstVersion DEF Init, ReadOK, NothingRead
<1>11. LocksOK /\ file \in DOMAIN Configs
  BY FirstVersion DEF Init, LocksOK
<1> QED BY <1>7, <1>8, <1>9, <1>10, <1>11 DEF IInv

\* Every step of Reload keeps the invariant.
THEOREM InvariantStep == IInv /\ [Next]_vars => IInv'
<1> SUFFICES ASSUME IInv, [Next]_vars PROVE IInv'
  OBVIOUS
<1>1. CASE UNCHANGED vars
  <2>1. PlacesOK /\ UNCHANGED pc => PlacesOK'
    BY DEF PlacesOK
  <2>2. StoringStays
    BY <1>1 DEF StoringStays, vars
  <2> QED BY <1>1, <2>1, <2>2, Untouched DEF IInv, vars
<1>2. ASSUME NEW c \in Relays, Relaying(c) PROVE IInv'
  BY <1>2, LookUpStep, QueueStep, RefusedStep DEF Relaying
<1>3. ASSUME NEW r \in Reloaders,
             ReadFile(r) \/ InvalidFile(r) \/ AskLock(r) \/ Loading(r)
      PROVE  IInv'
  BY <1>3, ReloadStep
<1>4. ASSUME NEW i \in Inquirers, Inquire(i) \/ Answer(i) PROVE IInv'
  BY <1>4, InquiryStep
<1> QED BY <1>1, <1>2, <1>3, <1>4, EditStep DEF Next

\* The invariant holds in every reachable state.
THEOREM Invariance == Spec => []IInv
  BY InitIInv, InvariantStep, PTL DEF Spec

\* The state has its type: no relay uses a queue that was never made.
THEOREM TypeCorrect == Spec => []TypeOK
<1> QED BY PartsGiveType, Invariance, PTL

\* What is routed can be queued, within the limit of the configuration in force.
THEOREM RoutesAreServed == Spec => []RoutesServed
<1>1. IInv => RoutesServed
  BY DEF IInv
<1> QED BY <1>1, Invariance, PTL

---------------------------------------------------------------------------
(* Reloads and the relays that queue *)

\* A step other than a Store leaves the configuration and whose queue is whose.
LEMMA OnlyStoreStores ==
  ASSUME IInv, [Next]_vars
  PROVE  \/ UNCHANGED confVars
         \/ \E r \in Reloaders : /\ Store(r) /\ IsConfig(got[r].resolved)
                                 /\ \A c \in Relays : pc'[c] = pc[c]
<1>1. ASSUME NEW c \in Relays, Relaying(c) PROVE UNCHANGED confVars
  BY <1>1 DEF Relaying, Arrive, Routing, AskQueue, GetTargets, NoTargets, GetQueue, NoQueue,
     Acquire, Refused, Release
<1>2. ASSUME NEW r \in Reloaders, Preparing(r) \/ \E u \in Upstreams : LimitQueue(r, u)
      PROVE  UNCHANGED confVars
  BY <1>2 DEF Preparing, ReadFile, InvalidFile, AskLock, Discover, OpenLogs, Fail, LimitQueue
<1>3. ASSUME NEW r \in Reloaders, Store(r)
      PROVE  IsConfig(got[r].resolved) /\ \A c \in Relays : pc'[c] = pc[c]
  BY <1>3, ActorsAssumption DEF IInv, ReadOK, PlacesOK, Store, Go
<1>4. ASSUME NEW i \in Inquirers, Inquire(i) \/ Answer(i) PROVE UNCHANGED confVars
  BY <1>4 DEF Inquire, Answer
<1>5. Edit \/ UNCHANGED vars => UNCHANGED confVars
  BY DEF Edit, vars
<1> QED BY <1>1, <1>2, <1>3, <1>4, <1>5 DEF Next, Loading, Preparing

\* A relay fails between its look-ups only if its upstream is gone.
LEMMA OnlyNoQueueFails ==
  ASSUME IInv, [Next]_vars, NEW c \in Relays, pc[c] = "choosing", pc'[c] = "failed"
  PROVE  job[c].upstream \notin DOMAIN upstreams
<1>1. ASSUME NEW d \in Relays, Relaying(d) PROVE d = c /\ NoQueue(c)
  BY <1>1 DEF Relaying, Arrive, Routing, AskQueue, GetTargets, NoTargets, GetQueue, NoQueue,
     Acquire, Refused, Release, Go, IInv, PlacesOK
<1>2. ASSUME NEW r \in Reloaders, ReadFile(r) \/ InvalidFile(r) \/ AskLock(r) \/ Loading(r)
      PROVE  FALSE
  BY <1>2, ActorsAssumption DEF ReadFile, InvalidFile, AskLock, Loading, Discover, OpenLogs, Fail,
     LimitQueue, Store, Go, IInv, PlacesOK
<1>3. ASSUME NEW i \in Inquirers, Inquire(i) \/ Answer(i) PROVE FALSE
  BY <1>3, ActorsAssumption DEF Inquire, Answer, Go, IInv, PlacesOK
<1>4. ~Edit /\ ~UNCHANGED vars
  BY DEF Edit, vars
<1>5. NoQueue(c)
  BY <1>1, <1>2, <1>3, <1>4 DEF Next
<1> QED BY <1>5 DEF NoQueue, IInv, RoutesServed

\* A kept upstream keeps its queue, and no relay fails between its look-ups for
\* an upstream that is there.
THEOREM QueuesAreKept == Spec => QueueKept
<1> DEFINE Kept ==
      /\ \A u \in DOMAIN upstreams \cap DOMAIN upstreams' : queueOf'[u] = queueOf[u]
      /\ \A c \in Relays : pc[c] = "choosing" /\ pc'[c] = "failed"
           => job[c].upstream \notin DOMAIN upstreams
<1>1. IInv /\ [Next]_vars => [Kept]_vars
  <2> SUFFICES ASSUME IInv, [Next]_vars PROVE Kept
    OBVIOUS
  <2>1. ASSUME UNCHANGED confVars
        PROVE  \A u \in DOMAIN upstreams \cap DOMAIN upstreams' : queueOf'[u] = queueOf[u]
    BY <2>1 DEF confVars
  <2>2. ASSUME NEW r \in Reloaders, Store(r), IsConfig(got[r].resolved)
        PROVE  \A u \in DOMAIN upstreams \cap DOMAIN upstreams' : queueOf'[u] = queueOf[u]
    <3>1. /\ LimitsSet(got[r].resolved) /\ UpdateQueues(got[r].resolved)
          /\ upstreams' = got[r].resolved
      BY <2>2 DEF Store
    <3>2. TypeOK /\ RoutesServed
      BY PartsGiveType DEF IInv
    <3> QED BY <2>2, <3>1, <3>2, UpdateQueuesFacts
  <2>3. \A u \in DOMAIN upstreams \cap DOMAIN upstreams' : queueOf'[u] = queueOf[u]
    BY <2>1, <2>2, OnlyStoreStores
  <2>4. ASSUME NEW c \in Relays, pc[c] = "choosing", pc'[c] = "failed"
        PROVE  job[c].upstream \notin DOMAIN upstreams
    BY <2>4, OnlyNoQueueFails
  <2> QED BY <2>3, <2>4
<1> QED BY <1>1, Invariance, PTL DEF Spec, QueueKept

---------------------------------------------------------------------------
(* The limit of an upstream *)

\* A set with as many elements as a prefix has places, at most.
LEMMA PrefixSize ==
  ASSUME NEW s \in Seq(Relays), NEW n \in 0 .. Len(s)
  PROVE  Cardinality(ToSet(SubSeq(s, 1, n))) <= n
<1> DEFINE t == SubSeq(s, 1, n)
<1>1. t \in Seq(Relays) /\ Len(t) = n /\ DOMAIN t = 1 .. n
  OBVIOUS
<1> HIDE DEF t
<1>2. t \in Surjection(1 .. n, ToSet(t))
  BY <1>1 DEF Surjection, ToSet
<1>3. ExistsSurjection(1 .. n, ToSet(t))
  BY <1>2 DEF ExistsSurjection
<1> QED BY <1>3, FS_SurjCardinalityBound DEF t

\* What a step does to a queue it touches.
Touched(q) == {Joined(q, c) : c \in Relays} \cup {Left(q, c) : c \in Relays}
                \cup {SetMax(q, max) : max \in Nat}

LEMMA TouchedFacts ==
  ASSUME NEW q \in Queues, NEW p \in Touched(q)
  PROVE  p \in Queues /\ p.upstream = q.upstream
BY JoinedFacts, LeftFacts, SetMaxFacts DEF Touched

\* A queue's slots are only filled up to its limit.
LEMMA SlotsWithin ==
  ASSUME NEW q \in Queues, NEW p \in Touched(q),
         q.max # 0, p.active \ q.active # {}
  PROVE  Cardinality(p.active) <= q.max
<1>1. /\ q.max \in Nat /\ q.active \in SUBSET Relays /\ q.line \in Seq(Relays)
      /\ IsFiniteSet(q.active) /\ Cardinality(q.active) \in Nat
  BY ActorsAssumption, FS_Subset, FS_CardinalityType DEF Queues
<1>2. ASSUME NEW c \in Relays, p = Joined(q, c) PROVE Cardinality(p.active) <= q.max
  <2>1. HasRoom(q) /\ p.active = q.active \cup {c}
    BY <1>1, <1>2 DEF Joined, Queues
  <2>2. Cardinality(q.active) < q.max
    BY <1>1, <2>1 DEF HasRoom
  <2>3. Cardinality(q.active \cup {c}) \in {Cardinality(q.active), Cardinality(q.active) + 1}
    BY <1>1, FS_AddElement
  <2> QED BY <1>1, <2>1, <2>2, <2>3
<1>3. ASSUME NEW c \in Relays, p = Left(q, c) PROVE Cardinality(p.active) <= q.max
  <2> DEFINE rest == q.active \ {c}
             n == Promoted(q, rest)
             new == ToSet(SubSeq(q.line, 1, n))
  <2>1. c \notin ToSet(q.line) /\ p.active = rest \cup new
    BY <1>1, <1>3 DEF Left, Queues
  <2>2. IsFiniteSet(rest) /\ Cardinality(rest) \in Nat /\ Cardinality(rest) <= Cardinality(q.active)
    BY <1>1, FS_Subset, FS_CardinalityType
  <2>3. rest \in SUBSET Relays /\ n \in 0 .. Len(q.line)
    BY <1>1, PromotedFacts
  <2>4. n # 0 => Cardinality(rest) + n <= q.max
    BY <1>1, <2>3, PromotedFacts
  <2>9. n # 0
    <3> SUFFICES ASSUME n = 0 PROVE FALSE
      OBVIOUS
    <3> HIDE DEF n
    <3>1. new = {}
      BY <1>1 DEF ToSet
    <3> QED BY <2>1, <3>1
  <2> HIDE DEF n
  <2>5. new \in SUBSET Relays /\ Cardinality(new) <= n
    BY <1>1, <2>3, PrefixSize DEF ToSet
  <2>6. IsFiniteSet(new) /\ Cardinality(new) \in Nat
    BY <2>5, ActorsAssumption, FS_Subset, FS_CardinalityType
  <2>7. Cardinality(rest \cup new) <= Cardinality(rest) + Cardinality(new)
    <3>1. IsFiniteSet(rest \cap new) /\ Cardinality(rest \cap new) \in Nat
      BY <2>2, FS_Subset, FS_CardinalityType
    <3>2. Cardinality(rest \cup new) = Cardinality(rest) + Cardinality(new) - Cardinality(rest \cap new)
      BY <2>2, <2>6, FS_Union
    <3> QED BY <2>2, <2>6, <3>1, <3>2
  <2>8. IsFiniteSet(rest \cup new) /\ Cardinality(rest \cup new) \in Nat
    BY <2>2, <2>6, FS_Union, FS_CardinalityType
  <2> QED BY <1>1, <2>1, <2>2, <2>3, <2>4, <2>5, <2>6, <2>7, <2>8, <2>9
<1>4. ASSUME NEW max \in Nat, p = SetMax(q, max) PROVE FALSE
  BY <1>4, SetMaxFacts
<1> QED BY <1>2, <1>3, <1>4 DEF Touched

SameUpstreams == \A v \in DOMAIN Configs : DOMAIN Configs[v] = DOMAIN Configs[1]

\* If all versions of the file have the same upstreams, each has one queue.
KeptInv ==
  /\ IInv
  /\ DOMAIN upstreams = DOMAIN Configs[1]
  /\ \A r \in Reloaders : DOMAIN got[r].resolved = DOMAIN Configs[1]
  /\ \A k \in DOMAIN queues : queues[k].upstream \in DOMAIN upstreams
                              /\ queueOf[queues[k].upstream] = k

\* A Store puts the same upstreams in force, with the queues they have.
LEMMA KeptStored ==
  ASSUME KeptInv, NEW r \in Reloaders, Store(r)
  PROVE  /\ DOMAIN upstreams' = DOMAIN upstreams
         /\ DOMAIN queues' = DOMAIN queues
         /\ \A u \in DOMAIN upstreams : queueOf'[u] = queueOf[u]
         /\ \A k \in DOMAIN queues : /\ queues'[k].upstream = queues[k].upstream
                                    /\ queues'[k].active = queues[k].active
<1> DEFINE conf == got[r].resolved
<1>1. TypeOK /\ RoutesServed /\ IsConfig(conf)
  BY PartsGiveType DEF KeptInv, IInv, ReadOK
<1>2. LimitsSet(conf) /\ UpdateQueues(conf) /\ upstreams' = conf /\ DOMAIN conf = DOMAIN upstreams
  BY DEF Store, KeptInv
<1> HIDE DEF conf
<1>3. /\ DOMAIN queues \subseteq DOMAIN queues'
      /\ \A u \in DOMAIN conf \cap DOMAIN upstreams : queueOf'[u] = queueOf[u]
      /\ \A k \in DOMAIN queues : /\ queues'[k].upstream = queues[k].upstream
                                 /\ queues'[k].active = queues[k].active
      /\ \A k \in DOMAIN queues' \ DOMAIN queues :
           queues'[k].upstream \in DOMAIN conf \ DOMAIN upstreams
  BY <1>1, <1>2, UpdateQueuesFacts
<1>4. DOMAIN queues' = DOMAIN queues
  BY <1>2, <1>3
<1>5. DOMAIN upstreams' = DOMAIN upstreams
  BY <1>2
<1> QED BY <1>2, <1>3, <1>4, <1>5

\* Every other step leaves the configuration, and touches one queue at most.
LEMMA OneQueueTouched ==
  ASSUME IInv, [Next]_vars, ~\E r \in Reloaders : Store(r)
  PROVE  /\ UNCHANGED confVars
         /\ \/ UNCHANGED queues
            \/ \E k \in DOMAIN queues :
                 /\ queues[k] \in Queues
                 /\ \E q \in Touched(queues[k]) : queues' = [queues EXCEPT ![k] = q]
<1> DEFINE One == \E k \in DOMAIN queues :
                    /\ queues[k] \in Queues
                    /\ \E q \in Touched(queues[k]) : queues' = [queues EXCEPT ![k] = q]
<1>1. ASSUME NEW c \in Relays, Acquire(c) \/ Release(c) PROVE One
  BY <1>1, QueueTouched DEF Touched
<1>2. ASSUME NEW c \in Relays, Arrive(c) \/ Routing(c) \/ AskQueue(c) \/ Refused(c)
      PROVE  UNCHANGED queues
  BY <1>2 DEF Arrive, Routing, AskQueue, GetTargets, NoTargets, GetQueue, NoQueue, Refused
<1>3. ASSUME NEW r \in Reloaders, Preparing(r) PROVE UNCHANGED queues
  BY <1>3 DEF Preparing, ReadFile, InvalidFile, AskLock, Discover, OpenLogs, Fail
<1>4. ASSUME NEW r \in Reloaders, NEW u \in Upstreams, LimitQueue(r, u) PROVE One
  <2> DEFINE k == queueOf[u]
             max == got[r].resolved[u].max
  <2>1. k \in DOMAIN queues /\ queues[k] \in Queues
    BY <1>4 DEF LimitQueue, IInv, StoreOK
  <2>2. max \in Nat
    BY <1>4 DEF LimitQueue, IInv, ReadOK, IsConfig, Entry
  <2>3. queues' = [queues EXCEPT ![k] = SetMax(queues[k], max)]
    BY <1>4 DEF LimitQueue
  <2> QED BY <2>1, <2>2, <2>3 DEF Touched
<1>5. ASSUME NEW i \in Inquirers, Inquire(i) \/ Answer(i) PROVE UNCHANGED queues
  BY <1>5 DEF Inquire, Answer
<1>6. Edit \/ UNCHANGED vars => UNCHANGED queues
  BY DEF Edit, vars
<1>7. UNCHANGED confVars
  BY OnlyStoreStores
<1> QED BY <1>1, <1>2, <1>3, <1>5, <1>6, <1>7, <1>4 DEF Next, Loading, Relaying, Preparing

\* The table a reload has read has the same upstreams, resolved or not.
LEMMA SameRead ==
  ASSUME SameUpstreams, KeptInv, [Next]_vars, NEW r \in Reloaders
  PROVE  DOMAIN got'[r].resolved = DOMAIN Configs[1]
<1>1. /\ DOMAIN got[r].resolved = DOMAIN Configs[1]
      /\ got \in [Reloaders -> [version : DOMAIN Configs,
                                resolved : {got[s].resolved : s \in Reloaders}]]
  BY DEF KeptInv, IInv, ReadOK
<1>2. UNCHANGED got
      \/ \E s \in Reloaders : ReadFile(s) \/ InvalidFile(s) \/ Discover(s) \/ Fail(s) \/ Store(s)
  BY DEF Next, vars, Edit, Relaying, Arrive, Routing, AskQueue, GetTargets, NoTargets, GetQueue,
     NoQueue, Acquire, Refused, Release, AskLock, Loading, OpenLogs, LimitQueue, Inquire, Answer
<1>3. CASE UNCHANGED got
  BY <1>1, <1>3
<1>4. ASSUME NEW s \in Reloaders, ReadFile(s) PROVE DOMAIN got'[r].resolved = DOMAIN Configs[1]
  <2>1. got' = [got EXCEPT ![s] = [version |-> file, resolved |-> Configs[file]]]
        /\ file \in DOMAIN Configs
    BY <1>4 DEF ReadFile, KeptInv, IInv
  <2> QED BY <1>1, <2>1 DEF SameUpstreams
<1>5. ASSUME NEW s \in Reloaders, InvalidFile(s) \/ Fail(s) \/ Store(s)
      PROVE  DOMAIN got'[r].resolved = DOMAIN Configs[1]
  <2>1. got' = [got EXCEPT ![s] = [version |-> 1, resolved |-> Configs[1]]]
    BY <1>5 DEF InvalidFile, Fail, Store, NothingRead
  <2> QED BY <1>1, <2>1
<1>6. ASSUME NEW s \in Reloaders, Discover(s) PROVE DOMAIN got'[r].resolved = DOMAIN Configs[1]
  <2>1. PICK found \in [DOMAIN got[s].resolved -> SUBSET Modules] :
          got' = [got EXCEPT ![s] = [version |-> got[s].version,
                                     resolved |-> Resolved(got[s].resolved, found)]]
    BY <1>6 DEF Discover
  <2>2. DOMAIN Resolved(got[s].resolved, found) = DOMAIN Configs[1]
    BY DEF Resolved, KeptInv
  <2> QED BY <1>1, <2>1, <2>2
<1> QED BY <1>2, <1>3, <1>4, <1>5, <1>6

LEMMA KeptStep ==
  ASSUME SameUpstreams, KeptInv, [Next]_vars
  PROVE  KeptInv'
<1>1. IInv /\ IInv' /\ \A r \in Reloaders : DOMAIN got'[r].resolved = DOMAIN Configs[1]
  BY InvariantStep, SameRead DEF KeptInv
<1>2. CASE \E r \in Reloaders : Store(r)
  BY <1>1, <1>2, KeptStored DEF KeptInv
<1>3. CASE ~\E r \in Reloaders : Store(r)
  <2>1. UNCHANGED confVars /\ DOMAIN queues' = DOMAIN queues
        /\ \A k \in DOMAIN queues : queues'[k].upstream = queues[k].upstream
    BY <1>1, <1>3, OneQueueTouched, TouchedFacts
  <2> QED BY <1>1, <2>1 DEF KeptInv, confVars
<1> QED BY <1>2, <1>3

LEMMA KeptInit ==
  ASSUME SameUpstreams, Init
  PROVE  KeptInv
<1> DEFINE us == SetToSeq(DOMAIN Configs[1])
           S == DOMAIN Configs[1]
<1>1. S \in SUBSET Upstreams /\ \A u \in S : Configs[1][u].max \in Nat
  BY FirstVersion DEF IsConfig, Entry
<1>2. us \in Seq(S) /\ IsInjective(us)
  BY <1>1, FreshFacts
<1>3. /\ queues = [i \in DOMAIN us |-> NewQueue(us[i], Configs[1][us[i]].max)]
      /\ queueOf = [u \in S |-> CHOOSE i \in DOMAIN us : us[i] = u]
      /\ upstreams = Configs[1]
  BY DEF Init
<1> HIDE DEF us
<1>4. \A i \in DOMAIN us : us[i] \in S /\ queues[i].upstream = us[i]
  BY <1>1, <1>2, <1>3, NewQueueFacts
<1>5. \A i \in DOMAIN us : queueOf[us[i]] = i
  BY <1>2, <1>3, <1>4 DEF IsInjective
<1>6. \A r \in Reloaders : DOMAIN got[r].resolved = DOMAIN Configs[1]
  BY DEF Init, NothingRead
<1> QED BY <1>3, <1>4, <1>5, <1>6, InitIInv DEF KeptInv

\* The slots of an upstream are those of its one queue.
LEMMA OneQueueEach ==
  ASSUME KeptInv, NEW u \in DOMAIN upstreams
  PROVE  /\ queueOf[u] \in DOMAIN queues
         /\ Holding(u) = queues[queueOf[u]].active
<1>1. queueOf[u] \in DOMAIN queues /\ queues[queueOf[u]].upstream = u
  BY DEF KeptInv, IInv, StoreOK, RoutesServed
<1>2. {k \in DOMAIN queues : queues[k].upstream = u} = {queueOf[u]}
  BY <1>1 DEF KeptInv
<1> QED BY <1>1, <1>2 DEF Holding

\* If reloads add and remove no upstream, its limit bounds whoever is let in,
\* however limits and modules change.
THEOREM UpstreamWithinLimit ==
  ASSUME SameUpstreams
  PROVE  Spec => UpstreamBound
<1> DEFINE Bounded ==
      \A u \in DOMAIN upstreams :
        Holding(u)' \ Holding(u) # {}
          => \E limit \in LimitsInForce(u) :
               limit = 0 \/ Cardinality(Holding(u)') <= limit
<1>1. Init => KeptInv
  BY KeptInit
<1>2. KeptInv /\ [Next]_vars => KeptInv'
  BY KeptStep
<1>3. KeptInv /\ [Next]_vars => [Bounded]_vars
  <2> SUFFICES ASSUME KeptInv, [Next]_vars, NEW u \in DOMAIN upstreams,
                      Holding(u)' \ Holding(u) # {}
               PROVE  \E limit \in LimitsInForce(u) :
                        limit = 0 \/ Cardinality(Holding(u)') <= limit
    OBVIOUS
  <2> DEFINE k == queueOf[u]
  <2>1. k \in DOMAIN queues /\ Holding(u) = queues[k].active
    BY OneQueueEach
  <2>2. queues[k].max \in LimitsInForce(u)
    BY DEF KeptInv, IInv, RoutesServed
  <2>3. KeptInv'
    BY <1>2
  <2>4. u \in DOMAIN upstreams' /\ queueOf'[u] = k
    BY KeptStored, OneQueueTouched DEF KeptInv, confVars
  <2>5. Holding(u)' = queues'[k].active
    <3>1. {j \in DOMAIN queues' : queues'[j].upstream = u} = {k}
      <4>1. k \in DOMAIN queues' /\ queues'[k].upstream = u
        BY <2>3, <2>4 DEF KeptInv, IInv, StoreOK, RoutesServed
      <4> QED BY <2>3, <2>4, <4>1 DEF KeptInv
    <3> QED BY <3>1 DEF Holding
  <2>6. queues'[k].active \ queues[k].active # {}
    BY <2>1, <2>5
  <2>7. ~\E r \in Reloaders : Store(r)
    BY <2>1, <2>6, KeptStored
  <2>8. PICK j \in DOMAIN queues :
          /\ queues[j] \in Queues
          /\ \E q \in Touched(queues[j]) : queues' = [queues EXCEPT ![j] = q]
    BY <2>6, <2>7, OneQueueTouched DEF KeptInv
  <2>9. j = k /\ queues'[k] \in Touched(queues[k])
    BY <2>1, <2>6, <2>8
  <2>10. queues[k].max = 0 \/ Cardinality(queues'[k].active) <= queues[k].max
    BY <2>6, <2>8, <2>9, SlotsWithin
  <2> QED BY <2>2, <2>5, <2>10
<1> QED BY <1>1, <1>2, <1>3, PTL DEF Spec, UpstreamBound
=============================================================================
