---------------------------- MODULE QueueProofs ----------------------------
(***************************************************************************)
(* Proofs about Queue.tla, for every finite set of handles and all limits. *)
(***************************************************************************)
EXTENDS Queue, QueueCoreProofs

(* -------------------- The invariant of Queue's Spec -------------------- *)

\* While the owner holds a handle, its cleanup has not run.
HeldArmed == \A h \in held : pc[h].cleanup = "armed"

\* Whoever is past the check has written the flag.
MarkedFlag ==
  \A h \in Handles, who \in Agents : pc[h][who] = "marked" => who \in released[h]

IInv ==
  /\ TypeOK /\ ChannelDiscipline /\ GrantMatchesSlot /\ InOnePlace /\ NeverStuck
  /\ HeldArmed /\ MarkedFlag

HandleTypeOK ==
  /\ held \subseteq Handles
  /\ pc \in [Handles -> [owner : {"out", "called", "marked"},
                         cleanup : {"ran", "armed", "marked"}]]
  /\ released \in [Handles -> SUBSET Agents]
  /\ told \in [Handles -> Status]

\* The invariant holds initially.
LEMMA InitIInv == Init => IInv
<1> SUFFICES ASSUME Init PROVE IInv
  OBVIOUS
<1> USE DEF Init, QueueInit
<1>1. TypeOK
  BY LimitsAssumption DEF TypeOK, NoChannel, Status, Silence, Position, Agents
<1>2. Waiting = {}
  BY DEF Waiting, ToSet
<1>3. ChannelDiscipline
  BY <1>2 DEF ChannelDiscipline, NoChannel
<1>4. GrantMatchesSlot
  BY DEF GrantMatchesSlot, Listening
<1>5. InOnePlace /\ NeverStuck
  BY <1>2 DEF InOnePlace, NeverStuck, IsInjective
<1>6. HeldArmed /\ MarkedFlag
  BY DEF HeldArmed, MarkedFlag, Agents
<1> QED BY <1>1, <1>3, <1>4, <1>5, <1>6 DEF IInv
\* The two handle-wise parts of the invariant.
Matches(h) ==
  /\ h \in active <=> Latest(h).Ok
  /\ h \in Waiting <=> ~IsFinal(Latest(h))

HandleOK(h) ==
  /\ Listening(h) => Matches(h)
  /\ ~InPlay(h) => h \notin active \cup Waiting

\* The invariant, cut into the queue's part and a part per handle.
LEMMA IInvSplit ==
  IInv <=> /\ QueueInv /\ HandleTypeOK /\ HeldArmed /\ MarkedFlag
           /\ \A h \in Handles : HandleOK(h)
BY DEF IInv, QueueInv, InOnePlace, GrantMatchesSlot, HandleOK, Matches,
       TypeOK, QueueTypeOK, HandleTypeOK, ChanType

\* The same about the state after a step.
LEMMA IInvJoin ==
  ASSUME QueueInv', HandleTypeOK', HeldArmed', MarkedFlag',
         \A h \in Handles : HandleOK(h)'
  PROVE  IInv'
BY DEF IInv, QueueInv, InOnePlace, GrantMatchesSlot, HandleOK, Matches,
       TypeOK, QueueTypeOK, HandleTypeOK, ChanType

\* What Latest is after a send and after no send.
LEMMA LatestFacts ==
  ASSUME NEW g \in Handles
  PROVE  /\ chan'[g] = chan[g] /\ told'[g] = told[g] => Latest(g)' = Latest(g)
         /\ \A st : chan'[g].buf = <<st>> => Latest(g)' = st
<1>1. ASSUME NEW st, chan'[g].buf = <<st>> PROVE Latest(g)' = st
  <2>1. chan'[g].buf # << >> /\ Head(chan'[g].buf) = st
    BY <1>1
  <2> QED BY <2>1 DEF Latest
<1> QED BY <1>1 DEF Latest

\* A critical section called for another handle keeps what held of g.
LEMMA BystanderOK ==
  ASSUME QueueInv', NEW g \in Handles, HandleOK(g), Bystander(g),
         told'[g] = told[g], Listening(g)' <=> Listening(g), InPlay(g)' <=> InPlay(g)
  PROVE  HandleOK(g)'
<1>1. active' \cap Waiting' = {}
  BY DEF QueueInv
<1>2. CASE /\ g \in active <=> g \in active'
           /\ g \in Waiting <=> g \in Waiting'
           /\ chan'[g] = chan[g]
  <2>1. Latest(g)' = Latest(g)
    BY <1>2, LatestFacts
  <2> QED BY <2>1, <1>2 DEF HandleOK, Matches
<1>3. CASE g \in Waiting /\ g \in Waiting' /\ \E st : IsPosition(st) /\ chan'[g].buf = <<st>>
  <2>1. PICK st : IsPosition(st) /\ chan'[g].buf = <<st>>
    BY <1>3
  <2>2. Latest(g)' = st
    BY <2>1, LatestFacts
  <2> QED BY <2>1, <2>2, <1>1, <1>3 DEF HandleOK, Matches, IsPosition, IsFinal
<1>4. CASE g \in Waiting /\ g \in active' /\ chan'[g].buf = <<Granted>>
  <2>1. Latest(g)' = Granted
    BY <1>4, LatestFacts
  <2> QED BY <2>1, <1>1, <1>4, StatusFacts DEF HandleOK, Matches, IsFinal
<1> QED BY <1>2, <1>3, <1>4 DEF Bystander

\* The steps of release() outside the critical section, and those of the owner
\* that leave the queue alone.
LEMMA HandleStep ==
  ASSUME IInv, UNCHANGED queueVars, NEW h \in Handles,
         \/ CallRelease(h) \/ Forget(h)
         \/ \E who \in Agents : SeeReleased(h, who) \/ MarkReleased(h, who)
  PROVE  IInv'
<1>1. /\ QueueInv /\ HandleTypeOK /\ HeldArmed /\ MarkedFlag
      /\ \A g \in Handles : HandleOK(g)
  BY IInvSplit
<1>2. /\ QueueInv' /\ active' = active /\ Waiting' = Waiting /\ chan' = chan
  BY <1>1 DEF queueVars, QueueInv, QueueTypeOK, Waiting, ChannelDiscipline, NeverStuck
<1>3. CASE CallRelease(h)
  <2> USE <1>3 DEF CallRelease, HandleTypeOK
  <2>1. HandleTypeOK'
    BY <1>1 DEF Silence, Position, Status
  <2>2. HeldArmed' /\ MarkedFlag'
    BY <1>1 DEF HeldArmed, MarkedFlag, Agents
  <2>3. HandleOK(h)'
    BY <1>1, <1>2 DEF HandleOK, Listening, InPlay, Fresh, Agents
  <2>4. ASSUME NEW g \in Handles \ {h} PROVE HandleOK(g)'
    BY <1>1, <1>2 DEF HandleOK, Listening, InPlay, Fresh, Agents, Matches, Latest
  <2> QED BY <1>2, <2>1, <2>2, <2>3, <2>4, IInvJoin
<1>4. CASE Forget(h)
  <2> USE <1>4 DEF Forget, HandleTypeOK
  <2>1. HandleTypeOK'
    BY <1>1 DEF Silence, Position, Status
  <2>2. HeldArmed' /\ MarkedFlag'
    BY <1>1 DEF HeldArmed, MarkedFlag, Agents
  <2>3. HandleOK(h)'
    BY <1>1, <1>2 DEF HandleOK, HeldArmed, Listening, InPlay, Fresh, Agents
  <2>4. ASSUME NEW g \in Handles \ {h} PROVE HandleOK(g)'
    BY <1>1, <1>2 DEF HandleOK, Listening, InPlay, Fresh, Agents, Matches, Latest
  <2> QED BY <1>2, <2>1, <2>2, <2>3, <2>4, IInvJoin
<1>5. ASSUME NEW who \in Agents, SeeReleased(h, who) PROVE IInv'
  <2> USE <1>5 DEF SeeReleased, HandleTypeOK
  <2>1. HandleTypeOK'
    BY <1>1 DEF Agents, Returned
  <2>2. HeldArmed' /\ MarkedFlag'
    BY <1>1 DEF HeldArmed, MarkedFlag, Agents, AtCheck, Returned
  <2>3. HandleOK(h)'
    BY <1>1, <1>2 DEF HandleOK, Listening, InPlay, Fresh, Agents, AtCheck, Returned
  <2>4. ASSUME NEW g \in Handles \ {h} PROVE HandleOK(g)'
    BY <1>1, <1>2 DEF HandleOK, Listening, InPlay, Fresh, Agents, Matches, Latest
  <2> QED BY <1>2, <2>1, <2>2, <2>3, <2>4, IInvJoin
<1>6. ASSUME NEW who \in Agents, MarkReleased(h, who) PROVE IInv'
  <2> USE <1>6 DEF MarkReleased, HandleTypeOK
  <2>1. HandleTypeOK'
    BY <1>1 DEF Agents
  <2>2. HeldArmed' /\ MarkedFlag'
    BY <1>1 DEF HeldArmed, MarkedFlag, Agents, AtCheck
  <2>3. HandleOK(h)'
    BY <1>1, <1>2 DEF HandleOK, Listening, InPlay, Fresh, Agents, AtCheck
  <2>4. ASSUME NEW g \in Handles \ {h} PROVE HandleOK(g)'
    BY <1>1, <1>2 DEF HandleOK, Listening, InPlay, Fresh, Agents, Matches, Latest
  <2> QED BY <1>2, <2>1, <2>2, <2>3, <2>4, IInvJoin
<1> QED BY <1>3, <1>4, <1>5, <1>6
\* A new handle.
LEMMA AcquireStep ==
  ASSUME IInv, NEW h \in Handles, Acquire(h)
  PROVE  IInv'
<1>1. /\ QueueInv /\ HandleTypeOK /\ HeldArmed /\ MarkedFlag
      /\ \A g \in Handles : HandleOK(g)
  BY IInvSplit
<1>2. /\ Fresh(h) /\ AcquireSlot(h)
      /\ held' = held \cup {h}
      /\ pc' = [pc EXCEPT ![h].cleanup = "armed"]
      /\ released' = [released EXCEPT ![h] = {}]
      /\ told' = [told EXCEPT ![h] = Silence]
  BY DEF Acquire
<1>3. h \notin active \cup Waiting
  BY <1>1, <1>2 DEF HandleOK, InPlay
<1>4. /\ QueueInv'
      /\ \E st \in Status :
           /\ chan'[h].buf = <<st>>
           /\ h \in active' <=> st.Ok
           /\ h \in Waiting' <=> ~st.Ok /\ ~st.Full
      /\ \A g \in Handles \ {h} : Bystander(g)
  BY <1>1, <1>2, <1>3, AcquireFacts
<1>5. HandleTypeOK'
  BY <1>1, <1>2 DEF HandleTypeOK, Silence, Position, Status, Agents
<1>6. HeldArmed' /\ MarkedFlag'
  BY <1>1, <1>2 DEF HandleTypeOK, HeldArmed, MarkedFlag, Agents, Fresh
<1>7. HandleOK(h)'
  <2>1. PICK st \in Status :
           /\ chan'[h].buf = <<st>>
           /\ h \in active' <=> st.Ok
           /\ h \in Waiting' <=> ~st.Ok /\ ~st.Full
    BY <1>4
  <2>2. Latest(h)' = st
    BY <2>1, LatestFacts
  <2>3. InPlay(h)'
    BY <1>1, <1>2 DEF HandleTypeOK, InPlay, Fresh
  <2> QED BY <2>1, <2>2, <2>3 DEF HandleOK, Matches, IsFinal
<1>8. ASSUME NEW g \in Handles \ {h} PROVE HandleOK(g)'
  <2>1. /\ told'[g] = told[g] /\ pc'[g] = pc[g] /\ released'[g] = released[g]
        /\ g \in held' <=> g \in held
    BY <1>1, <1>2 DEF HandleTypeOK
  <2>2. (Listening(g)' <=> Listening(g)) /\ (InPlay(g)' <=> InPlay(g))
    BY <2>1 DEF Listening, InPlay, Fresh
  <2> QED BY <2>1, <2>2, <1>1, <1>4, BystanderOK
<1> QED BY <1>4, <1>5, <1>6, <1>7, <1>8, IInvJoin

\* The critical section of release().
LEMMA WithdrawStep ==
  ASSUME IInv, NEW h \in Handles, NEW who \in Agents, Withdraw(h, who)
  PROVE  IInv'
<1>1. /\ QueueInv /\ HandleTypeOK /\ HeldArmed /\ MarkedFlag
      /\ \A g \in Handles : HandleOK(g)
  BY IInvSplit
<1>2. /\ pc[h][who] = "marked" /\ ReleaseFromHandle(h)
      /\ pc' = [pc EXCEPT ![h][who] = Returned(who)]
      /\ held' = held /\ released' = released /\ told' = told
  BY DEF Withdraw
<1>3. /\ QueueInv' /\ h \notin active' \cup Waiting'
      /\ \A g \in Handles \ {h} : Bystander(g)
  BY <1>1, <1>2, LeaveLineFacts, FreeSlotFacts DEF ReleaseFromHandle
<1>4. who \in released[h]
  BY <1>1, <1>2 DEF MarkedFlag
<1>5. HandleTypeOK'
  BY <1>1, <1>2 DEF HandleTypeOK, Agents, Returned
<1>6. HeldArmed' /\ MarkedFlag'
  <2>1. ASSUME NEW g \in held' PROVE pc'[g].cleanup = "armed"
    BY <2>1, <1>1, <1>2 DEF HandleTypeOK, HeldArmed, Agents
  <2>2. MarkedFlag'
    BY <1>1, <1>2 DEF HandleTypeOK, MarkedFlag, Agents, Returned
  <2> QED BY <2>1, <2>2 DEF HeldArmed
<1>7. HandleOK(h)'
  BY <1>2, <1>3, <1>4 DEF HandleOK, Listening
<1>8. ASSUME NEW g \in Handles \ {h} PROVE HandleOK(g)'
  <2>1. pc'[g] = pc[g]
    BY <1>1, <1>2 DEF HandleTypeOK
  <2>2. (Listening(g)' <=> Listening(g)) /\ (InPlay(g)' <=> InPlay(g))
    BY <2>1, <1>2 DEF Listening, InPlay, Fresh
  <2> QED BY <2>2, <1>1, <1>2, <1>3, BystanderOK
<1> QED BY <1>3, <1>5, <1>6, <1>7, <1>8, IInvJoin

\* A receive moves the latest status from the channel to its reader.
LEMMA HeardLatest ==
  ASSUME IInv, NEW h \in Handles, Listen(h)
  PROVE  \A g \in Handles : Latest(g)' = Latest(g)
<1>1. /\ QueueInv /\ HandleTypeOK /\ HeldArmed /\ MarkedFlag
      /\ \A g \in Handles : HandleOK(g)
  BY IInvSplit
<1>2. PICK st \in ToSet(chan[h].buf) : Receive(h, st) /\ told' = [told EXCEPT ![h] = st]
  BY DEF Listen
<1>3. /\ chan[h].buf # << >> /\ st = Head(chan[h].buf)
      /\ chan' = [chan EXCEPT ![h].buf = Tail(@)]
      /\ max' = max /\ maxQueued' = maxQueued /\ active' = active /\ queued' = queued
      /\ Waiting' = Waiting
      /\ held' = held /\ pc' = pc /\ released' = released
  BY <1>2 DEF Receive, Listen, Waiting
<1> DEFINE u == chan[h].buf
<1>4. u \in Seq(Status) /\ u # << >> /\ Len(u) <= 1
  BY <1>1, <1>3 DEF QueueInv, QueueTypeOK, ChanType, ChannelDiscipline
<1>5. st \in Status /\ Tail(u) = << >>
  <2> HIDE DEF u
  <2> DEFINE v == Tail(u)
             l == Len(u)
  <2>1. /\ Head(u) \in Status /\ v \in Seq(Status) /\ Len(v) = l - 1
        /\ l \in Nat /\ l # 0 /\ l <= 1
    BY <1>4, HeadTailProperties, EmptySeq
  <2> HIDE DEF v, l
  <2>2. Len(v) = 0
    BY <2>1
  <2>3. v = << >>
    BY <2>1, <2>2, EmptySeq
  <2> QED BY <2>1, <2>3, <1>3 DEF u, v
<1>6. /\ chan' \in [Handles -> ChanType] /\ chan'[h].buf = << >>
      /\ chan'[h].closed = chan[h].closed
      /\ \A g \in Handles \ {h} : chan'[g] = chan[g]
  <2> DEFINE c == [chan[h] EXCEPT !.buf = Tail(u)]
             e == << >>
  <2>1. chan' = [chan EXCEPT ![h] = c] /\ chan \in [Handles -> ChanType]
    BY <1>1, <1>3 DEF QueueInv, QueueTypeOK
  <2>2. Tail(u) = e /\ e \in Seq(Status) /\ chan[h] \in ChanType
    BY <1>5, <2>1
  <2> HIDE DEF u, e
  <2>3. c \in ChanType /\ c.buf = e /\ c.closed = chan[h].closed
    BY <2>2 DEF ChanType
  <2> HIDE DEF c
  <2> QED BY <2>1, <2>3 DEF e
<1>7. \A g \in Handles : Latest(g)' = Latest(g)
  <2>1. Latest(h)' = Latest(h)
    BY <1>1, <1>2, <1>3, <1>6 DEF Latest, HandleTypeOK
  <2>2. \A g \in Handles \ {h} : Latest(g)' = Latest(g)
    BY <1>1, <1>2, <1>6, LatestFacts DEF HandleTypeOK
  <2> QED BY <2>1, <2>2
<1> QED BY <1>7

\* The owner receives a status.
LEMMA ListenStep ==
  ASSUME IInv, NEW h \in Handles, Listen(h)
  PROVE  IInv'
<1>1. /\ QueueInv /\ HandleTypeOK /\ HeldArmed /\ MarkedFlag
      /\ \A g \in Handles : HandleOK(g)
  BY IInvSplit
<1>2. PICK st \in ToSet(chan[h].buf) : Receive(h, st) /\ told' = [told EXCEPT ![h] = st]
  BY DEF Listen
<1>3. /\ chan[h].buf # << >> /\ st = Head(chan[h].buf)
      /\ chan' = [chan EXCEPT ![h].buf = Tail(@)]
      /\ max' = max /\ maxQueued' = maxQueued /\ active' = active /\ queued' = queued
      /\ Waiting' = Waiting
      /\ held' = held /\ pc' = pc /\ released' = released
  BY <1>2 DEF Receive, Listen, Waiting
<1> DEFINE u == chan[h].buf
<1>4. u \in Seq(Status) /\ u # << >> /\ Len(u) <= 1
  BY <1>1, <1>3 DEF QueueInv, QueueTypeOK, ChanType, ChannelDiscipline
<1>5. st \in Status /\ Tail(u) = << >>
  <2> HIDE DEF u
  <2> DEFINE v == Tail(u)
             l == Len(u)
  <2>1. /\ Head(u) \in Status /\ v \in Seq(Status) /\ Len(v) = l - 1
        /\ l \in Nat /\ l # 0 /\ l <= 1
    BY <1>4, HeadTailProperties, EmptySeq
  <2> HIDE DEF v, l
  <2>2. Len(v) = 0
    BY <2>1
  <2>3. v = << >>
    BY <2>1, <2>2, EmptySeq
  <2> QED BY <2>1, <2>3, <1>3 DEF u, v
<1>6. /\ chan' \in [Handles -> ChanType] /\ chan'[h].buf = << >>
      /\ chan'[h].closed = chan[h].closed
      /\ \A g \in Handles \ {h} : chan'[g] = chan[g]
  <2> DEFINE c == [chan[h] EXCEPT !.buf = Tail(u)]
             e == << >>
  <2>1. chan' = [chan EXCEPT ![h] = c] /\ chan \in [Handles -> ChanType]
    BY <1>1, <1>3 DEF QueueInv, QueueTypeOK
  <2>2. Tail(u) = e /\ e \in Seq(Status) /\ chan[h] \in ChanType
    BY <1>5, <2>1
  <2> HIDE DEF u, e
  <2>3. c \in ChanType /\ c.buf = e /\ c.closed = chan[h].closed
    BY <2>2 DEF ChanType
  <2> HIDE DEF c
  <2> QED BY <2>1, <2>3 DEF e
<1>7. QueueInv'
  <2>1. Len(chan'[h].buf) <= 1
    BY <1>6
  <2>2. ChannelDiscipline'
    BY <2>1, <1>1, <1>3, <1>6 DEF QueueInv, ChannelDiscipline
  <2> QED BY <2>2, <1>1, <1>3, <1>6 DEF QueueInv, QueueTypeOK, NeverStuck
<1>8. HandleTypeOK' /\ HeldArmed' /\ MarkedFlag'
  BY <1>1, <1>2, <1>3, <1>5 DEF HandleTypeOK, HeldArmed, MarkedFlag
<1>9. \A g \in Handles : Latest(g)' = Latest(g)
  BY HeardLatest
<1>10. \A g \in Handles : HandleOK(g)'
  BY <1>1, <1>3, <1>9 DEF HandleOK, Matches, Listening, InPlay, Fresh
<1> QED BY <1>7, <1>8, <1>10, IInvJoin

\* SetMax.
LEMMA ReconfigureStep ==
  ASSUME IInv, Reconfigure
  PROVE  IInv'
<1>1. /\ QueueInv /\ HandleTypeOK /\ HeldArmed /\ MarkedFlag
      /\ \A g \in Handles : HandleOK(g)
  BY IInvSplit
<1>2. /\ max' \in Nat /\ maxQueued' \in Nat
      /\ active' = active /\ queued' = queued /\ Waiting' = Waiting /\ chan' = chan
      /\ held' = held /\ pc' = pc /\ released' = released /\ told' = told
  BY LimitsAssumption DEF Reconfigure, SetMax, handleVars, Waiting
<1>3. QueueInv'
  BY <1>1, <1>2 DEF QueueInv, QueueTypeOK, ChannelDiscipline, NeverStuck
<1>4. HandleTypeOK' /\ HeldArmed' /\ MarkedFlag'
  BY <1>1, <1>2 DEF HandleTypeOK, HeldArmed, MarkedFlag
<1>5. \A g \in Handles : HandleOK(g)'
  BY <1>1, <1>2 DEF HandleOK, Matches, Latest, Listening, InPlay, Fresh
<1> QED BY <1>3, <1>4, <1>5, IInvJoin

\* No step.
LEMMA StutterStep ==
  ASSUME IInv, UNCHANGED vars
  PROVE  IInv'
<1>1. /\ QueueInv /\ HandleTypeOK /\ HeldArmed /\ MarkedFlag
      /\ \A g \in Handles : HandleOK(g)
  BY IInvSplit
<1>2. /\ max' = max /\ maxQueued' = maxQueued
      /\ active' = active /\ queued' = queued /\ Waiting' = Waiting /\ chan' = chan
      /\ held' = held /\ pc' = pc /\ released' = released /\ told' = told
  BY DEF vars, queueVars, handleVars, Waiting
<1>3. QueueInv'
  BY <1>1, <1>2 DEF QueueInv, QueueTypeOK, ChannelDiscipline, NeverStuck
<1>4. HandleTypeOK' /\ HeldArmed' /\ MarkedFlag'
  BY <1>1, <1>2 DEF HandleTypeOK, HeldArmed, MarkedFlag
<1>5. \A g \in Handles : HandleOK(g)'
  BY <1>1, <1>2 DEF HandleOK, Matches, Latest, Listening, InPlay, Fresh
<1> QED BY <1>3, <1>4, <1>5, IInvJoin

\* Every step of the specification keeps the invariant.
THEOREM InvariantStep == IInv /\ [Next]_vars => IInv'
<1> SUFFICES ASSUME IInv, [Next]_vars PROVE IInv'
  OBVIOUS
<1>1. ASSUME NEW h \in Handles, Acquire(h) PROVE IInv'
  BY <1>1, AcquireStep
<1>2. ASSUME NEW h \in Handles, Listen(h) PROVE IInv'
  BY <1>2, ListenStep
<1>3. ASSUME NEW h \in Handles, CallRelease(h) \/ Forget(h) PROVE IInv'
  <2>1. UNCHANGED queueVars
    BY <1>3 DEF CallRelease, Forget
  <2> QED BY <2>1, <1>3, HandleStep
<1>4. ASSUME NEW h \in Handles, NEW who \in Agents, ReleaseStep(h, who) PROVE IInv'
  <2>1. CASE Withdraw(h, who)
    BY <2>1, WithdrawStep
  <2>2. CASE SeeReleased(h, who) \/ MarkReleased(h, who)
    <3>1. UNCHANGED queueVars
      BY <2>2 DEF SeeReleased, MarkReleased
    <3> QED BY <3>1, <2>2, HandleStep
  <2> QED BY <2>1, <2>2, <1>4 DEF ReleaseStep
<1>5. CASE Reconfigure
  BY <1>5, ReconfigureStep
<1>6. CASE UNCHANGED vars
  BY <1>6, StutterStep
<1> QED BY <1>1, <1>2, <1>3, <1>4, <1>5, <1>6 DEF Next

\* The inductive invariant holds in every reachable state.
THEOREM Invariance == Spec => []IInv
BY InitIInv, InvariantStep, PTL DEF Spec

(* ------------------------------ Theorems ------------------------------- *)

\* The state of the queue and of its handles keeps its type.
THEOREM TypeCorrect == Spec => []TypeOK
<1>1. IInv => TypeOK
  BY DEF IInv
<1> QED BY <1>1, Invariance, PTL

\* trySend, send and close under q.mu never block and never panic.
THEOREM ChannelsSafe == Spec => []ChannelDiscipline
<1>1. IInv => ChannelDiscipline
  BY DEF IInv
<1> QED BY <1>1, Invariance, PTL

\* Ok is sent exactly to the handles that hold a slot: no wake-up is lost.
THEOREM GrantsMatchSlots == Spec => []GrantMatchesSlot
<1>1. IInv => GrantMatchesSlot
  BY DEF IInv
<1> QED BY <1>1, Invariance, PTL

\* A handle is in one place, and in none once released, however often and by
\* whomever release() is run.
THEOREM HandlesInOnePlace == Spec => []InOnePlace
<1>1. IInv => InOnePlace
  BY DEF IInv
<1> QED BY <1>1, Invariance, PTL

\* A line always has a slot holder before it.
THEOREM LineNeverStuck == Spec => []NeverStuck
<1>1. IInv => NeverStuck
  BY DEF IInv
<1> QED BY <1>1, Invariance, PTL

\* A handle leaves the lists only by a release() on that very handle.
THEOREM OnlyReleasedLeaveHolds == Spec => OnlyReleasedLeave
<1> DEFINE P == \A h \in active \cup Waiting :
                  h \notin active' \cup ToSet(queued') => released[h] # {}
<1>1. IInv /\ [Next]_vars => [P]_vars
  <2> SUFFICES ASSUME IInv, Next PROVE P
    OBVIOUS
  <2>1. /\ QueueInv /\ HandleTypeOK /\ HeldArmed /\ MarkedFlag
        /\ \A g \in Handles : HandleOK(g)
    BY IInvSplit
  <2>3. ASSUME NEW h \in Handles, Acquire(h) PROVE P
    <3>1. h \notin active \cup Waiting
      BY <2>1, <2>3 DEF HandleOK, InPlay, Acquire
    <3>2. \A g \in Handles \ {h} : Bystander(g)
      BY <3>1, <2>1, <2>3, AcquireFacts DEF Acquire
    <3> QED BY <3>1, <3>2, <2>1, InLists DEF Bystander, Waiting, QueueInv
  <2>4. ASSUME NEW h \in Handles, NEW who \in Agents, Withdraw(h, who) PROVE P
    <3>1. released[h] # {}
      BY <2>1, <2>4 DEF Withdraw, MarkedFlag
    <3>2. \A g \in Handles \ {h} : Bystander(g)
      BY <2>1, <2>4, LeaveLineFacts, FreeSlotFacts DEF Withdraw, ReleaseFromHandle
    <3> QED BY <3>1, <3>2, <2>1, InLists DEF Bystander, Waiting, QueueInv
  <2>5. ASSUME active' = active, queued' = queued PROVE P
    BY <2>5 DEF Waiting
  <2>6. ASSUME NEW h \in Handles,
               \/ Listen(h) \/ CallRelease(h) \/ Forget(h)
               \/ \E who \in Agents : SeeReleased(h, who) \/ MarkReleased(h, who)
        PROVE  P
    BY <2>5, <2>6
    DEF Listen, Receive, CallRelease, Forget, SeeReleased, MarkReleased, queueVars
  <2>7. CASE Reconfigure
    BY <2>5, <2>7 DEF Reconfigure, SetMax
  <2> QED BY <2>3, <2>4, <2>6, <2>7 DEF Next, ReleaseStep
<1> QED BY <1>1, Invariance, PTL DEF Spec, OnlyReleasedLeave

\* No waiter is promoted before one who stands ahead of it.
THEOREM PromotionIsFifo == Spec => FifoPromotion
<1> DEFINE P == \A i, j \in DOMAIN queued :
                  i < j /\ queued[j] \in active' => queued[i] \in active'
<1>1. IInv /\ [Next]_vars => [P]_vars
  <2> SUFFICES ASSUME IInv, Next PROVE P
    OBVIOUS
  <2>1. /\ QueueInv /\ \A g \in Handles : HandleOK(g)
    BY IInvSplit
  <2>2. /\ queued \in Seq(Handles) /\ IsInjective(queued) /\ active \cap Waiting = {}
        /\ Len(queued) \in Nat /\ DOMAIN queued = 1 .. Len(queued)
    BY <2>1, LenProperties DEF QueueInv, QueueTypeOK
  <2>3. \A j \in DOMAIN queued : queued[j] \in Waiting /\ queued[j] \notin active
    BY <2>2 DEF Waiting, ToSet
  <2>4. ASSUME active' = active PROVE P
    BY <2>3, <2>4
  <2>5. ASSUME NEW h \in Handles, Acquire(h) PROVE P
    <3>1. h \notin Waiting /\ active' \subseteq active \cup {h}
      BY <2>1, <2>5
      DEF HandleOK, InPlay, Acquire, AcquireSlot, Admit, Reject, Enqueue
    <3> QED BY <2>3, <3>1
  <2>6. ASSUME NEW h \in Handles, FreeSlot(h) PROVE P
    <3> DEFINE rest == active \ {h}
               n == Promotable(Cardinality(rest))
               promoted == ToSet(SubSeq(queued, 1, n))
    <3>1. active' = rest \cup promoted
      BY <2>6 DEF FreeSlot
    <3>2. IsFiniteSet(rest) /\ Cardinality(rest) \in Nat
      BY <2>1, HandlesAssumption, FS_Subset, FS_CardinalityType DEF QueueInv, QueueTypeOK
    <3>3. n \in 0 .. Len(queued)
      BY <3>2, <2>1, PromotableFacts DEF QueueInv, QueueTypeOK
    <3> HIDE DEF n
    <3>4. promoted = {queued[k] : k \in 1 .. n}
      BY <3>3, <2>2, PrefixSetFacts
    <3> SUFFICES ASSUME NEW i \in DOMAIN queued, NEW j \in DOMAIN queued,
                        i < j, queued[j] \in active'
                 PROVE  queued[i] \in active'
      OBVIOUS
    <3>5. PICK k \in 1 .. n : queued[k] = queued[j]
      BY <3>1, <3>4, <2>3
    <3>6. k = j
      BY <3>5, <3>3, <2>2 DEF IsInjective
    <3>7. i \in 1 .. n
      BY <3>3, <3>6, <2>2
    <3> QED BY <3>1, <3>4, <3>7
  <2>7. ASSUME NEW h \in Handles, NEW who \in Agents, ReleaseStep(h, who) PROVE P
    BY <2>4, <2>6, <2>7
    DEF ReleaseStep, SeeReleased, MarkReleased, Withdraw, ReleaseFromHandle, LeaveLine, queueVars
  <2>8. ASSUME NEW h \in Handles, Listen(h) \/ CallRelease(h) \/ Forget(h) PROVE P
    BY <2>4, <2>8 DEF Listen, Receive, CallRelease, Forget, queueVars
  <2>9. CASE Reconfigure
    BY <2>4, <2>9 DEF Reconfigure, SetMax
  <2> QED BY <2>5, <2>7, <2>8, <2>9 DEF Next
<1> QED BY <1>1, Invariance, PTL DEF Spec, FifoPromotion

\* Slots are only given up to the limit in force.
THEOREM LimitKept == Spec => NoOvershoot
<1> DEFINE P == active' \ active # {} => max = 0 \/ Cardinality(active') <= max
<1>1. IInv /\ [Next]_vars => [P]_vars
  <2> SUFFICES ASSUME IInv, Next PROVE P
    OBVIOUS
  <2>1. QueueInv
    BY IInvSplit
  <2>2. /\ IsFiniteSet(active) /\ Cardinality(active) \in Nat
        /\ max \in Nat /\ queued \in Seq(Handles) /\ Len(queued) \in Nat
    BY <2>1, HandlesAssumption, FS_Subset, FS_CardinalityType, LenProperties
    DEF QueueInv, QueueTypeOK
  <2>3. ASSUME active' = active PROVE P
    BY <2>2, <2>3
  <2>4. ASSUME NEW h \in Handles, Acquire(h) PROVE P
    <3>1. CASE Admit(h)
      <4>1. Cardinality(active \cup {h}) =
              IF h \in active THEN Cardinality(active) ELSE Cardinality(active) + 1
        BY <2>2, FS_AddElement
      <4>2. active' = active \cup {h} /\ (max = 0 \/ Cardinality(active) < max)
        BY <3>1 DEF Admit, HasRoom
      <4> QED BY <4>1, <4>2, <2>2
    <3>2. CASE Reject(h) \/ Enqueue(h)
      BY <3>2, <2>3 DEF Reject, Enqueue
    <3> QED BY <3>1, <3>2, <2>4 DEF Acquire, AcquireSlot
  <2>5. ASSUME NEW h \in Handles, FreeSlot(h) PROVE P
    <3> DEFINE rest == active \ {h}
               n == Promotable(Cardinality(rest))
               promoted == ToSet(SubSeq(queued, 1, n))
    <3>1. active' = rest \cup promoted
      BY <2>5 DEF FreeSlot
    <3>2. /\ IsFiniteSet(rest) /\ Cardinality(rest) \in Nat
          /\ Cardinality(rest) <= Cardinality(active)
      BY <2>2, FS_Subset, FS_CardinalityType
    <3>3. n \in 0 .. Len(queued) /\ (n > 0 => max = 0 \/ Cardinality(rest) + n <= max)
      BY <3>2, <2>2, PromotableFacts
    <3> HIDE DEF n
    <3>4. IsFiniteSet(promoted) /\ Cardinality(promoted) <= n
      BY <3>3, <2>2, PrefixSetFacts
    <3>5. active' \ active # {} => n > 0
      <4>1. n = 0 => promoted = {}
        BY <2>2 DEF ToSet
      <4> QED BY <3>1, <3>3, <4>1
    <3> HIDE DEF rest, promoted
    <3>6. /\ Cardinality(promoted) \in Nat /\ Cardinality(rest \cap promoted) \in Nat
          /\ Cardinality(active') \in Nat
      BY <3>1, <3>2, <3>4, FS_CardinalityType, FS_Union, FS_Intersection
    <3>7. Cardinality(active') =
            Cardinality(rest) + Cardinality(promoted) - Cardinality(rest \cap promoted)
      BY <3>1, <3>2, <3>4, FS_Union
    <3> QED BY <3>2, <3>3, <3>4, <3>6, <3>7, <3>5, <2>2
  <2>6. ASSUME NEW h \in Handles, NEW who \in Agents, ReleaseStep(h, who) PROVE P
    BY <2>3, <2>5, <2>6
    DEF ReleaseStep, SeeReleased, MarkReleased, Withdraw, ReleaseFromHandle, LeaveLine, queueVars
  <2>7. ASSUME NEW h \in Handles, Listen(h) \/ CallRelease(h) \/ Forget(h) PROVE P
    BY <2>3, <2>7 DEF Listen, Receive, CallRelease, Forget, queueVars
  <2>8. CASE Reconfigure
    BY <2>3, <2>8 DEF Reconfigure, SetMax
  <2> QED BY <2>4, <2>6, <2>7, <2>8 DEF Next
<1> QED BY <1>1, Invariance, PTL DEF Spec, NoOvershoot

---------------------------------------------------------------------------
(* Limits that do not change.                                              *)

\* No more slots are taken than there are, and all of them while there is a line.
SlotsInLimit ==
  /\ max # 0 => Cardinality(active) <= max
  /\ QueueOnlyWhenFull

\* Every step that leaves the limit alone keeps it.
LEMMA SlotsStep ==
  ASSUME IInv, SlotsInLimit, [Next]_vars, max' = max
  PROVE  SlotsInLimit'
<1>1. QueueInv
  BY IInvSplit
<1>2. /\ IsFiniteSet(active) /\ Cardinality(active) \in Nat /\ max \in Nat
      /\ queued \in Seq(Handles)
  BY <1>1, HandlesAssumption, FS_Subset, FS_CardinalityType DEF QueueInv, QueueTypeOK
<1>3. CASE active' = active /\ queued' = queued
  BY <1>3 DEF SlotsInLimit, QueueOnlyWhenFull
<1>4. ASSUME NEW h \in Handles, Acquire(h) PROVE SlotsInLimit'
  <2>1. CASE Admit(h)
    <3>1. queued = << >> /\ queued' = queued
      BY <2>1, <1>2 DEF Admit, HasRoom, SlotsInLimit, QueueOnlyWhenFull
    <3>2. /\ active' = active \cup {h} /\ Cardinality(active') \in Nat
          /\ Cardinality(active') <= Cardinality(active) + 1
      <4>1. active' = active \cup {h}
        BY <2>1 DEF Admit
      <4>2. Cardinality(active \cup {h}) = IF h \in active THEN Cardinality(active)
                                           ELSE Cardinality(active) + 1
        BY <1>2, FS_AddElement
      <4> QED BY <4>1, <4>2, <1>2
    <3>3. max = 0 \/ Cardinality(active) < max
      BY <2>1 DEF Admit, HasRoom
    <3> QED BY <3>1, <3>2, <3>3, <1>2 DEF SlotsInLimit, QueueOnlyWhenFull
  <2>2. CASE Enqueue(h)
    <3>1. active' = active /\ max # 0 /\ ~(Cardinality(active) < max)
      BY <2>2 DEF Enqueue, HasRoom
    <3> QED BY <3>1, <1>2 DEF SlotsInLimit, QueueOnlyWhenFull
  <2>3. CASE Reject(h)
    BY <2>3, <1>3 DEF Reject
  <2> QED BY <1>4, <2>1, <2>2, <2>3 DEF Acquire, AcquireSlot
<1>5. ASSUME NEW h \in Handles, NEW who \in Agents, Withdraw(h, who) PROVE SlotsInLimit'
  <2>1. CASE LeaveLine(h)
    <3>1. h \in Waiting /\ active' = active
      BY <2>1 DEF LeaveLine
    <3>2. queued # << >>
      BY <3>1 DEF Waiting, ToSet
    <3> QED BY <3>1, <3>2 DEF SlotsInLimit, QueueOnlyWhenFull
  <2>2. CASE FreeSlot(h)
    <3> DEFINE rest == active \ {h}
               n == Promotable(Cardinality(rest))
    <3>1. /\ n \in 0 .. Len(queued) /\ Cardinality(active') = Cardinality(rest) + n
          /\ n > 0 => max = 0 \/ Cardinality(rest) + n <= max
          /\ queued' # << >> => max # 0 /\ Cardinality(rest) + n >= max
      BY <1>1, <2>2, FreeSlotSize
    <3>2. Cardinality(rest) \in Nat /\ Cardinality(rest) <= Cardinality(active)
      BY <1>2, FS_Subset, FS_CardinalityType
    <3>3. n \in Nat
      BY <3>1, <1>2, LenProperties
    <3> HIDE DEF rest, n
    <3> QED BY <3>1, <3>2, <3>3, <1>2 DEF SlotsInLimit, QueueOnlyWhenFull
  <2> QED BY <1>5, <2>1, <2>2 DEF Withdraw, ReleaseFromHandle
<1> QED
  BY <1>3, <1>4, <1>5
     DEF Next, ReleaseStep, Reconfigure, SetMax, Listen, Receive, CallRelease, Forget,
         SeeReleased, MarkReleased, vars, queueVars

\* There is a line only while every slot is taken, under limits that stay.
THEOREM LineOnlyWhenFull ==
  Spec /\ [][UNCHANGED <<max, maxQueued>>]_vars => []QueueOnlyWhenFull
<1>1. Init => SlotsInLimit
  BY LimitsAssumption, FS_EmptySet
     DEF Init, QueueInit, SlotsInLimit, QueueOnlyWhenFull
<1>2. IInv /\ SlotsInLimit /\ [Next]_vars /\ [UNCHANGED <<max, maxQueued>>]_vars
        => SlotsInLimit'
  <2>1. [UNCHANGED <<max, maxQueued>>]_vars => max' = max
    BY DEF vars, queueVars
  <2> QED BY <2>1, SlotsStep
<1>3. SlotsInLimit => QueueOnlyWhenFull
  BY DEF SlotsInLimit
<1> QED BY <1>1, <1>2, <1>3, Invariance, PTL DEF Spec

\* What PositionExact says of one place i of a line of length len.
Told(st, i, len) == st.Index = i - 1 /\ i <= st.Max /\ st.Max <= len

\* What was last sent is a status.
LEMMA LatestType ==
  ASSUME QueueInv, HandleTypeOK, NEW g \in Handles
  PROVE  Latest(g) \in Status
<1>1. chan[g].buf \in Seq(Status) /\ told[g] \in Status
  BY DEF QueueInv, QueueTypeOK, ChanType, HandleTypeOK
<1> DEFINE u == chan[g].buf
<1>2. u # << >> => Head(u) \in Status
  <2> HIDE DEF u
  <2> QED BY <1>1, HeadTailProperties DEF u
<1> QED BY <1>1, <1>2 DEF Latest

\* PositionExact after a step, place by place.
LEMMA PlaceByPlace ==
  ASSUME QueueInv',
         \A i \in DOMAIN queued' : \A g \in Handles :
            g = queued'[i] /\ Listening(g)' => Told(Latest(g)', i, Len(queued'))
  PROVE  PositionExact'
<1>1. \A i \in DOMAIN queued' : queued'[i] \in Handles
  <2>1. queued' \in Seq(Handles)
    BY DEF QueueInv, QueueTypeOK
  <2> DEFINE q == queued'
  <2> HIDE DEF q
  <2>2. q \in Seq(Handles) => \A i \in DOMAIN q : q[i] \in Handles
    BY LenProperties, ElementOfSeq
  <2> QED BY <2>1, <2>2 DEF q
<1> QED BY <1>1 DEF PositionExact, Told, Listening, Latest

\* A step that leaves the line and what its listeners heard keeps it.
LEMMA SameLine ==
  ASSUME QueueInv', PositionExact, queued' = queued,
         \A g \in Waiting : Listening(g)' => Listening(g) /\ Latest(g)' = Latest(g)
  PROVE  PositionExact'
<1>1. ASSUME NEW i \in DOMAIN queued, NEW g \in Handles, g = queued[i], Listening(g)'
      PROVE  Told(Latest(g)', i, Len(queued))
  <2>1. g \in Waiting
    BY <1>1 DEF Waiting, ToSet
  <2>2. Listening(g) /\ Latest(g)' = Latest(g)
    BY <1>1, <2>1
  <2>3. Told(Latest(g), i, Len(queued))
    BY <1>1, <2>2 DEF PositionExact, Told
  <2> QED BY <2>2, <2>3
<1> QED BY <1>1, PlaceByPlace

\* A broadcast to a line behind full slots tells each its place.
LEMMA ToldByBroadcast ==
  ASSUME QueueInv', max' = max, max \in Nat, NEW ch \in [Handles -> ChanType],
         \A h \in Handles : Len(ch[h].buf) <= 1, NEW n \in Int,
         chan' = Broadcast(ch, queued', n), queued' # << >> => n = max
  PROVE  PositionExact'
<1> DEFINE q == queued'
<1>1. q \in Seq(Handles) /\ IsInjective(q)
  BY DEF QueueInv, QueueTypeOK
<1>2. Len(q) \in Nat /\ DOMAIN q = 1 .. Len(q)
  BY <1>1, LenProperties
<1>3. ASSUME NEW i \in DOMAIN q, NEW g \in Handles, g = q[i]
      PROVE  Told(Latest(g)', i, Len(q))
  <2>1. q # << >>
    BY <1>2, <1>3
  <2>2. n = max
    BY <2>1
  <2>3. chan'[g].buf = <<Position(n - max + i - 1, n - max + Len(q))>>
    <3> HIDE DEF q
    <3>1. Broadcast(ch, q, n)[q[i]].buf = <<Position(n - max + i - 1, n - max + Len(q))>>
      BY <1>1, BroadcastExact
    <3> QED BY <3>1, <1>3 DEF q
  <2>4. n - max + i - 1 = i - 1 /\ n - max + Len(q) = Len(q)
    BY <2>2, <1>2
  <2>5. Latest(g)' = Position(n - max + i - 1, n - max + Len(q))
    BY <2>3, LatestFacts
  <2> HIDE DEF q
  <2>6. Told(Position(n - max + i - 1, n - max + Len(q)), i, Len(q))
    BY <2>4, <1>2, <1>3 DEF Told, Position
  <2> QED BY <2>5, <2>6
<1> QED BY <1>3, PlaceByPlace

\* Every step keeps the announced places exact.
LEMMA PositionStep ==
  ASSUME IInv, IInv', SlotsInLimit, SlotsInLimit', PositionExact, [Next]_vars, max' = max
  PROVE  PositionExact'
<1>1. /\ QueueInv /\ HandleTypeOK /\ HeldArmed /\ MarkedFlag
      /\ \A h \in Handles : HandleOK(h)
  BY IInvSplit
<1>2. QueueInv'
  BY IInvSplit DEF IInv, QueueInv, InOnePlace, TypeOK, QueueTypeOK, ChanType
<1>3. /\ Cardinality(active) \in Nat /\ max \in Nat
      /\ queued \in Seq(Handles) /\ Len(queued) \in Nat /\ DOMAIN queued = 1 .. Len(queued)
      /\ chan \in [Handles -> ChanType] /\ \A h \in Handles : Len(chan[h].buf) <= 1
  BY <1>1, HandlesAssumption, FS_Subset, FS_CardinalityType, LenProperties
     DEF QueueInv, QueueTypeOK, ChannelDiscipline
<1>4. \A i \in DOMAIN queued : queued[i] \in Handles /\ queued[i] \in Waiting
  BY <1>3, ElementOfSeq DEF Waiting, ToSet
<1>0. Waiting \subseteq Handles
  BY <1>1, InLists DEF QueueInv
<1>5. ASSUME NEW h \in Handles, Acquire(h) PROVE PositionExact'
  <2>1. h \notin Waiting
    BY <1>1, <1>5 DEF Acquire, HandleOK, InPlay
  <2>2. ASSUME NEW g \in Handles \ {h}
        PROVE  (Listening(g)' <=> Listening(g)) /\ Latest(g)' = Latest(g)
    <3>1. chan'[g] = chan[g]
      BY <1>3, <1>5 DEF Acquire, AcquireSlot, Admit, Reject, Enqueue
    <3>2. told'[g] = told[g] /\ (Listening(g)' <=> Listening(g))
      BY <1>1, <1>5 DEF Acquire, HandleTypeOK, Listening
    <3> QED BY <3>1, <3>2, LatestFacts
  <2>3. CASE queued' = queued
    BY <1>2, <1>4, <1>0, <2>1, <2>2, <2>3, SameLine
  <2>4. CASE Enqueue(h)
    <3> DEFINE q == Append(queued, h)
               len == Len(queued) + 1
               surplus == Cardinality(active) - max
               st == Position(surplus + len - 1, surplus + len)
    <3>1. queued' = q /\ chan' = [chan EXCEPT ![h] = Send(NoChannel, st)] /\ active' = active
      BY <2>4 DEF Enqueue
    <3>2. /\ q \in Seq(Handles) /\ Len(q) = len
          /\ \A k \in 1 .. Len(queued) : q[k] = queued[k]
          /\ q[len] = h
      BY <1>3, AppendProperties
    <3>3. DOMAIN q = 1 .. len
      BY <3>2, LenProperties
    <3> HIDE DEF q
    <3>4. q # << >>
      BY <3>3, <1>3
    <3>5. surplus = 0
      <4>1. Cardinality(active') = max'
        BY <3>1, <3>4 DEF SlotsInLimit, QueueOnlyWhenFull
      <4> QED BY <4>1, <3>1, <1>3
    <3>6. Latest(h)' = st
      <4>1. Send(NoChannel, st).buf = <<st>>
        <5>1. Append(<< >>, st) = <<st>>
          OBVIOUS
        <5> QED BY <5>1 DEF Send, NoChannel
      <4>2. chan'[h].buf = <<st>>
        <5> HIDE DEF st
        <5> QED BY <3>1, <4>1, <1>3
      <4> QED BY <4>2, LatestFacts
    <3>7. ASSUME NEW i \in DOMAIN q, NEW g \in Handles, g = q[i], Listening(g)'
          PROVE  Told(Latest(g)', i, len)
      <4>1. CASE i = len
        <5>1. Told(st, len, len)
          BY <3>5, <1>3 DEF Told, Position
        <5> HIDE DEF st
        <5> QED BY <4>1, <5>1, <3>2, <3>6, <3>7
      <4>2. CASE i # len
        <5>1. i \in DOMAIN queued /\ g = queued[i]
          BY <4>2, <3>2, <3>3, <3>7, <1>3
        <5>2. g \in Handles \ {h}
          BY <5>1, <1>4, <2>1
        <5>3. Listening(g) /\ Latest(g)' = Latest(g)
          BY <5>2, <2>2, <3>7
        <5>4. Told(Latest(g), i, Len(queued))
          BY <5>1, <5>3 DEF PositionExact, Told
        <5>5. Latest(g) \in Status
          BY <1>1, LatestType
        <5> DEFINE s == Latest(g)
                   l == Len(queued)
        <5>6. s.Max \in Int /\ l \in Nat
          BY <5>5, <1>3 DEF Status
        <5> HIDE DEF s, l
        <5>7. Told(s, i, l + 1)
          BY <5>4, <5>6 DEF Told, s, l
        <5> QED BY <5>3, <5>7 DEF s, l
      <4> QED BY <4>1, <4>2
    <3>8. queued' = q /\ Len(queued') = len
      BY <3>1, <3>2 DEF q
    <3> HIDE DEF len, st
    <3> QED BY <3>7, <3>8, <1>2, PlaceByPlace
  <2> QED BY <1>5, <2>3, <2>4 DEF Acquire, AcquireSlot, Admit, Reject
<1>6. ASSUME NEW h \in Handles, Listen(h) PROVE PositionExact'
  <2>1. \A g \in Handles : Latest(g)' = Latest(g)
    BY <1>6, HeardLatest
  <2>2. queued' = queued /\ \A g \in Handles : Listening(g)' <=> Listening(g)
    BY <1>6 DEF Listen, Receive, Listening
  <2> QED BY <1>2, <1>0, <2>1, <2>2, SameLine
<1>7. ASSUME NEW h \in Handles, CallRelease(h) \/ Forget(h) PROVE PositionExact'
  <2>2. ~Listening(h)'
    BY <1>1, <1>7 DEF CallRelease, Forget, Listening, HandleTypeOK
  <2>3. ASSUME NEW g \in Handles \ {h}
        PROVE  (Listening(g)' <=> Listening(g)) /\ Latest(g)' = Latest(g)
    BY <1>1, <1>7 DEF CallRelease, Forget, Listening, HandleTypeOK, queueVars, Latest
  <2>4. queued' = queued
    BY <1>7 DEF CallRelease, Forget, queueVars
  <2> QED BY <1>2, <1>0, <2>2, <2>3, <2>4, SameLine
<1>8. ASSUME NEW h \in Handles, NEW who \in Agents, SeeReleased(h, who) \/ MarkReleased(h, who)
      PROVE  PositionExact'
  <2>1. queued' = queued /\ chan' = chan /\ told' = told /\ held' = held
    BY <1>8 DEF SeeReleased, MarkReleased, queueVars
  <2>2. \A g \in Handles : Latest(g)' = Latest(g)
    BY <2>1, LatestFacts
  <2>3. ASSUME NEW g \in Handles, Listening(g)' PROVE Listening(g)
    BY <1>1, <1>8, <2>3, <2>1
       DEF SeeReleased, MarkReleased, Listening, HandleTypeOK, Agents, AtCheck, Returned
  <2> QED BY <1>2, <1>4, <1>0, <2>1, <2>2, <2>3, SameLine
<1>9. ASSUME NEW h \in Handles, NEW who \in Agents, Withdraw(h, who) PROVE PositionExact'
  <2>1. CASE LeaveLine(h)
    <3>1. /\ chan' = Broadcast(chan, queued', Cardinality(active)) /\ active' = active
      BY <2>1 DEF LeaveLine
    <3>2. queued' # << >> => Cardinality(active) = max
      BY <3>1 DEF SlotsInLimit, QueueOnlyWhenFull
    <3> QED BY <3>1, <3>2, <1>2, <1>3, ToldByBroadcast
  <2>2. CASE FreeSlot(h)
    <3> DEFINE promoted == ToSet(SubSeq(queued, 1, Promotable(Cardinality(active \ {h}))))
               ch == Promote(chan, promoted)
    <3>1. chan' = Broadcast(ch, queued', Cardinality(active'))
      BY <2>2 DEF FreeSlot
    <3> HIDE DEF promoted
    <3>2. ch \in [Handles -> ChanType] /\ \A g \in Handles : Len(ch[g].buf) <= 1
      <4>1. /\ ch \in [Handles -> ChanType]
            /\ \A g \in Handles \ promoted : ch[g] = chan[g]
            /\ \A g \in Handles \cap promoted : ch[g].buf = <<Granted>>
        BY <1>3, PromoteFacts
      <4>2. Len(<<Granted>>) <= 1
        OBVIOUS
      <4> HIDE DEF ch
      <4> QED BY <4>1, <4>2, <1>3
    <3>3. Cardinality(active') \in Int /\ (queued' # << >> => Cardinality(active') = max)
      <4>1. active' \subseteq Handles
        BY <1>2 DEF QueueInv, QueueTypeOK
      <4>2. Cardinality(active') \in Nat
        BY <4>1, HandlesAssumption, FS_Subset, FS_CardinalityType
      <4> QED BY <4>2 DEF SlotsInLimit, QueueOnlyWhenFull
    <3> HIDE DEF ch
    <3> QED BY <3>1, <3>2, <3>3, <1>2, <1>3, ToldByBroadcast
  <2> QED BY <1>9, <2>1, <2>2 DEF Withdraw, ReleaseFromHandle
<1>10. CASE Reconfigure \/ UNCHANGED vars
  <2>1. /\ queued' = queued /\ chan' = chan /\ told' = told
        /\ held' = held /\ pc' = pc /\ released' = released
    BY <1>10 DEF Reconfigure, SetMax, handleVars, vars, queueVars
  <2> QED BY <1>2, <1>0, <2>1, LatestFacts, SameLine DEF Listening
<1> QED BY <1>5, <1>6, <1>7, <1>8, <1>9, <1>10 DEF Next, ReleaseStep

\* Under limits that stay, the position a waiter was last sent is its place.
THEOREM PositionsExact ==
  Spec /\ [][UNCHANGED <<max, maxQueued>>]_vars => []PositionExact
<1> DEFINE I == SlotsInLimit /\ PositionExact
<1>1. Init => I
  BY LimitsAssumption, FS_EmptySet
     DEF Init, QueueInit, SlotsInLimit, QueueOnlyWhenFull, PositionExact
<1>2. IInv /\ IInv' /\ I /\ [Next]_vars /\ [UNCHANGED <<max, maxQueued>>]_vars => I'
  <2>1. [UNCHANGED <<max, maxQueued>>]_vars => max' = max
    BY DEF vars, queueVars
  <2> QED BY <2>1, SlotsStep, PositionStep
<1>3. I => PositionExact
  OBVIOUS
<1> QED BY <1>1, <1>2, <1>3, Invariance, PTL DEF Spec

---------------------------------------------------------------------------
(* Queue implements Admission, for every finite set of handles and all     *)
(* limits: acquiring is entering, a release is turning away and then       *)
(* giving up or departing, and what else happens to handles, channels and  *)
(* flags is not to be seen.                                                *)

verdict == [h \in Handles |-> IF Listening(h) THEN Verdict(Latest(h)) ELSE "gone"]

\* The abstract verdict is the latest status, for whoever listens.
LEMMA VerdictFacts ==
  ASSUME IInv, NEW h \in Handles
  PROVE  /\ ~Listening(h) => verdict[h] = "gone"
         /\ Listening(h) /\ h \in Waiting => verdict[h] = "waiting"
         /\ Listening(h) /\ h \in active => verdict[h] = "granted"
<1>1. HandleOK(h) /\ active \cap Waiting = {}
  BY IInvSplit DEF QueueInv
<1> QED BY <1>1 DEF verdict, Verdict, HandleOK, Matches, IsFinal

---------------------------------------------------------------------------
\* The initial states are initial states of Admission.
LEMMA InitRefines == Init => Abstract!Init
<1> SUFFICES ASSUME Init PROVE Abstract!Init
  OBVIOUS
<1>1. [h \in Handles |-> IF Listening(h) THEN Verdict(Latest(h)) ELSE "gone"]
        = [h \in Handles |-> "gone"]
  BY DEF Init, Listening
<1> QED BY <1>1 DEF Init, QueueInit, Abstract!Init

\* A step that leaves the lists and the verdicts alone is not seen.
LEMMA Unseen ==
  ASSUME UNCHANGED <<max, maxQueued, active, queued>>,
         \A h \in Handles : (Listening(h)' <=> Listening(h))
                            /\ (Listening(h) => Latest(h)' = Latest(h))
  PROVE  UNCHANGED Abstract!vars
<1>1. verdict' = verdict
  BY DEF verdict
<1> QED BY <1>1 DEF Abstract!vars, verdict

\* A verdict for h only: the others hear nothing new.
LEMMA OneVerdict ==
  ASSUME NEW h \in Handles, NEW v,
         verdict'[h] = v, \A g \in Handles \ {h} : verdict'[g] = verdict[g]
  PROVE  verdict' = [verdict EXCEPT ![h] = v]
  BY DEF verdict

\* The library's operators are the same in Admission.
LEMMA SameOperators ==
  /\ \A S : Abstract!Cardinality(S) = Cardinality(S)
  /\ \A s : Abstract!ToSet(s) = ToSet(s)
  /\ \A s, i : Abstract!RemoveAt(s, i) = RemoveAt(s, i)
<1>1. \A S : Abstract!Cardinality(S) = Cardinality(S)
  BY DEF Abstract!Cardinality, Cardinality
<1>2. \A s : Abstract!ToSet(s) = ToSet(s)
  BY DEF Abstract!ToSet, ToSet
<1>3. \A s, i : Abstract!RemoveAt(s, i) = RemoveAt(s, i)
  BY DEF Abstract!RemoveAt, RemoveAt
<1> QED BY <1>1, <1>2, <1>3

\* Admission's Enter in terms of Queue.
LEMMA EnterMeans ==
  ASSUME NEW h \in Handles
  PROVE  Abstract!Enter(h) <=>
           /\ h \notin active \cup ToSet(queued) /\ verdict[h] = "gone"
           /\ UNCHANGED <<max, maxQueued>>
           /\ \/ /\ HasRoom(Cardinality(active))
                 /\ active' = active \cup {h} /\ UNCHANGED queued
                 /\ verdict' = [verdict EXCEPT ![h] = "granted"]
              \/ /\ ~HasRoom(Cardinality(active))
                 /\ maxQueued > 0 => Len(queued) < maxQueued
                 /\ queued' = Append(queued, h) /\ UNCHANGED active
                 /\ verdict' = [verdict EXCEPT ![h] = "waiting"]
              \/ /\ ~HasRoom(Cardinality(active))
                 /\ maxQueued > 0 /\ Len(queued) >= maxQueued
                 /\ verdict' = [verdict EXCEPT ![h] = "refused"]
                 /\ UNCHANGED <<active, queued>>
  BY SameOperators DEF Abstract!Enter, Abstract!Room, HasRoom, verdict

\* Acquire is Enter.
LEMMA AcquireRefines ==
  ASSUME IInv, NEW h \in Handles, Acquire(h)
  PROVE  Abstract!Enter(h)
<1>1. /\ QueueInv /\ HandleTypeOK /\ HandleOK(h)
  BY IInvSplit
<1>2. /\ AcquireSlot(h) /\ Fresh(h) /\ h \notin active \cup Waiting /\ ~Listening(h)
  BY <1>1 DEF Acquire, HandleOK, InPlay, Listening, Fresh
<1>3. PICK st \in Status :
        /\ chan'[h].buf = <<st>>
        /\ h \in active' <=> st.Ok
        /\ h \in Waiting' <=> ~st.Ok /\ ~st.Full
  BY <1>1, <1>2, AcquireFacts
<1>4. Listening(h)' /\ Latest(h)' = st
  <2>1. h \in held' /\ pc'[h].owner = "out" /\ released'[h] = {}
    BY <1>1, <1>2 DEF Acquire, HandleTypeOK, Fresh
  <2> QED BY <2>1, <1>3, LatestFacts DEF Listening
<1>5. verdict[h] = "gone" /\ verdict'[h] = Verdict(st)
  BY <1>2, <1>4 DEF verdict
<1>6. ASSUME NEW g \in Handles \ {h} PROVE verdict'[g] = verdict[g]
  <2>1. chan'[g] = chan[g]
    BY <1>1, <1>2 DEF AcquireSlot, Admit, Reject, Enqueue, QueueInv, QueueTypeOK
  <2>2. told'[g] = told[g] /\ (Listening(g)' <=> Listening(g))
    BY <1>1 DEF Acquire, HandleTypeOK, Listening
  <2> QED BY <2>1, <2>2, LatestFacts DEF verdict
<1>7. verdict' = [verdict EXCEPT ![h] = Verdict(st)]
  BY <1>5, <1>6, OneVerdict
<1>8. CASE Admit(h)
  <2>1. Verdict(st) = "granted"
    BY <1>3, <1>8 DEF Admit, Verdict
  <2> QED BY <2>1, <1>2, <1>5, <1>7, <1>8, EnterMeans
          DEF Admit, Waiting
<1>9. CASE Reject(h)
  <2>1. Verdict(st) = "refused"
    BY <1>2, <1>3, <1>9 DEF Reject, Waiting, Verdict
  <2> QED BY <2>1, <1>1, <1>2, <1>5, <1>7, <1>9, EnterMeans
          DEF Reject, LineIsFull, Waiting
<1>10. CASE Enqueue(h)
  <2>1. Verdict(st) = "waiting"
    <3>1. h \in Waiting'
      BY <1>1, <1>10, AppendFacts, <1>2 DEF Enqueue, Waiting, QueueInv, QueueTypeOK
    <3> QED BY <3>1, <1>3 DEF Verdict
  <2>2. maxQueued > 0 => Len(queued) < maxQueued
    <3>1. Len(queued) \in Nat /\ maxQueued \in Nat
      BY <1>1, LenProperties DEF QueueInv, QueueTypeOK
    <3> QED BY <3>1, <1>10 DEF Enqueue, LineIsFull
  <2> QED BY <2>1, <2>2, <1>2, <1>5, <1>7, <1>10, EnterMeans
          DEF Enqueue, Waiting
<1> QED BY <1>2, <1>8, <1>9, <1>10 DEF AcquireSlot

\* The owner's steps: receiving what was sent is not seen; calling Release or
\* dropping the handle is turning away, once.
LEMMA OwnerRefines ==
  ASSUME IInv, NEW h \in Handles, Listen(h) \/ CallRelease(h) \/ Forget(h)
  PROVE  Abstract!TurnAway(h) \/ UNCHANGED Abstract!vars
<1>1. QueueInv /\ HandleTypeOK
  BY IInvSplit
<1>2. CASE Listen(h)
  <2>1. PICK st : Receive(h, st) /\ told' = [told EXCEPT ![h] = st]
    BY <1>2 DEF Listen
  <2>2. /\ chan[h].buf # << >> /\ st = Head(chan[h].buf) /\ chan'[h].buf = Tail(chan[h].buf)
        /\ told'[h] = st
        /\ \A g \in Handles \ {h} : chan'[g] = chan[g] /\ told'[g] = told[g]
    BY <2>1, <1>1 DEF Receive, QueueInv, QueueTypeOK, ChanType, HandleTypeOK
  <2>3. chan'[h].buf = << >>
    <3> DEFINE b == chan[h].buf
    <3>1. b \in Seq(Status) /\ b # << >> /\ Len(b) <= 1
      BY <1>1, <2>2 DEF QueueInv, QueueTypeOK, ChanType, ChannelDiscipline
    <3>2. chan'[h].buf = Tail(b)
      BY <2>2
    <3> HIDE DEF b
    <3>3. Tail(b) \in Seq(Status) /\ Len(Tail(b)) = Len(b) - 1 /\ Len(b) \in Nat
      BY <3>1, HeadTailProperties, LenProperties
    <3> DEFINE t == Tail(b)
    <3>4. t \in Seq(Status) /\ Len(t) = 0
      <4>1. Len(t) \in Nat
        BY <3>3, LenProperties
      <4> QED BY <4>1, <3>1, <3>3
    <3> HIDE DEF t
    <3>5. t = << >>
      BY <3>4, EmptySeq
    <3> QED BY <3>2, <3>5 DEF t
  <2>4. Latest(h)' = Latest(h) /\ \A g \in Handles \ {h} : Latest(g)' = Latest(g)
    BY <2>2, <2>3 DEF Latest
  <2>5. \A g \in Handles : Listening(g)' <=> Listening(g)
    BY <1>2 DEF Listen, Listening
  <2> QED BY <2>1, <2>4, <2>5, Unseen DEF Receive
<1>3. CASE CallRelease(h) \/ Forget(h)
  <2>1. /\ UNCHANGED queueVars /\ ~Listening(h)'
        /\ \A g \in Handles \ {h} : told'[g] = told[g] /\ (Listening(g)' <=> Listening(g))
    BY <1>1, <1>3 DEF CallRelease, Forget, Listening, HandleTypeOK
  <2>2. verdict'[h] = "gone" /\ \A g \in Handles \ {h} : verdict'[g] = verdict[g]
    BY <2>1 DEF verdict, Latest, queueVars
  <2>3. verdict' = [verdict EXCEPT ![h] = "gone"]
    BY <2>2, OneVerdict
  <2>4. CASE verdict[h] = "gone"
    <3>1. verdict' = verdict
      BY <2>3, <2>4 DEF verdict
    <3> QED BY <3>1, <2>1 DEF queueVars, Abstract!vars, verdict
  <2>5. CASE verdict[h] # "gone"
    BY <2>1, <2>3, <2>5 DEF queueVars, Abstract!TurnAway, verdict
  <2> QED BY <2>4, <2>5
<1> QED BY <1>2, <1>3

\* A release called for another handle changes a verdict only by promotion.
LEMMA BystanderVerdict ==
  ASSUME IInv, QueueInv', NEW g \in Handles, Bystander(g), told'[g] = told[g],
         Listening(g)' <=> Listening(g)
  PROVE  verdict'[g] = IF g \in Waiting /\ g \in active' /\ verdict[g] # "gone"
                       THEN "granted" ELSE verdict[g]
<1>1. active' \cap Waiting' = {}
  BY DEF QueueInv
<1>2. CASE ~Listening(g)
  BY <1>2 DEF verdict
<1>3. CASE Listening(g) /\ g \in Waiting /\ g \in active' /\ chan'[g].buf = <<Granted>>
  <2>1. Latest(g)' = Granted
    BY <1>3, LatestFacts
  <2>2. verdict[g] # "gone" /\ verdict'[g] = "granted"
    BY <2>1, <1>3, VerdictFacts, StatusFacts DEF verdict, Verdict
  <2> QED BY <2>2, <1>3
<1>4. CASE Listening(g) /\ g \in Waiting /\ g \in Waiting'
             /\ \E st : IsPosition(st) /\ chan'[g].buf = <<st>>
  <2>1. PICK st : IsPosition(st) /\ chan'[g].buf = <<st>>
    BY <1>4
  <2>2. Latest(g)' = st
    BY <2>1, LatestFacts
  <2>3. verdict[g] = "waiting" /\ verdict'[g] = "waiting"
    BY <2>1, <2>2, <1>4, VerdictFacts DEF verdict, Verdict, IsPosition
  <2> QED BY <2>3, <1>1, <1>4
<1>5. CASE /\ g \in active <=> g \in active'
           /\ g \in Waiting <=> g \in Waiting'
           /\ chan'[g] = chan[g]
  <2>1. Latest(g)' = Latest(g)
    BY <1>5, LatestFacts
  <2>2. verdict'[g] = verdict[g]
    BY <2>1 DEF verdict
  <2> QED BY <2>2, <1>1, <1>5
<1> QED BY <1>2, <1>3, <1>4, <1>5 DEF Bystander

\* Admission's GiveUp and Depart in terms of Queue.
LEMMA LeavingMeans ==
  ASSUME NEW h \in Handles
  PROVE  /\ Abstract!GiveUp(h) <=>
              /\ verdict[h] = "gone"
              /\ \E i \in DOMAIN queued : queued[i] = h /\ queued' = RemoveAt(queued, i)
              /\ UNCHANGED <<max, maxQueued, active>> /\ verdict' = verdict
         /\ Abstract!Depart(h) <=>
              /\ verdict[h] = "gone"
              /\ h \notin ToSet(queued)
              /\ \E n \in 0 .. Len(queued) :
                   LET called == ToSet(SubSeq(queued, 1, n))
                   IN /\ active' = (active \ {h}) \cup called
                      /\ queued' = SubSeq(queued, n + 1, Len(queued))
                      /\ n > 0 => HasRoom(Cardinality(active') - 1)
                      /\ queued' # << >> => ~HasRoom(Cardinality(active'))
                      /\ verdict' = [d \in Handles |-> IF d \in called /\ verdict[d] # "gone"
                                                       THEN "granted" ELSE verdict[d]]
              /\ UNCHANGED <<max, maxQueued>>
<1>1. Abstract!GiveUp(h) <=>
        /\ verdict[h] = "gone"
        /\ \E i \in DOMAIN queued : queued[i] = h /\ queued' = RemoveAt(queued, i)
        /\ UNCHANGED <<max, maxQueued, active>> /\ verdict' = verdict
  BY SameOperators DEF Abstract!GiveUp, verdict
<1> QED BY <1>1, SameOperators DEF Abstract!Depart, Abstract!Room, HasRoom, verdict

\* A release that removes its handle is GiveUp or Depart.
LEMMA ReleaseRefines ==
  ASSUME IInv, NEW h \in Handles, NEW who \in Agents, Withdraw(h, who)
  PROVE  Abstract!GiveUp(h) \/ Abstract!Depart(h)
<1>1. /\ QueueInv /\ HandleTypeOK /\ MarkedFlag /\ pc[h][who] = "marked"
      /\ UNCHANGED <<held, released, told>>
  BY IInvSplit DEF Withdraw
<1>2. released[h] # {} /\ verdict[h] = "gone" /\ verdict'[h] = "gone"
  BY <1>1 DEF MarkedFlag, Listening, verdict
<1>3. /\ QueueInv' /\ \A g \in Handles \ {h} : Bystander(g)
  BY <1>1, LeaveLineFacts, FreeSlotFacts DEF Withdraw, ReleaseFromHandle
<1>4. ASSUME NEW g \in Handles \ {h}
      PROVE  verdict'[g] = IF g \in Waiting /\ g \in active' /\ verdict[g] # "gone"
                           THEN "granted" ELSE verdict[g]
  <2>1. Listening(g)' <=> Listening(g)
    BY <1>1 DEF Withdraw, Listening, HandleTypeOK
  <2> QED BY <2>1, <1>1, <1>3, BystanderVerdict
<1>5. active \cap Waiting = {}
  BY <1>1 DEF QueueInv
<1>6. CASE LeaveLine(h)
  <2>1. /\ h \in Waiting /\ queued' = RemoveAt(queued, Place(h))
        /\ UNCHANGED <<max, maxQueued, active>>
    BY <1>6 DEF LeaveLine
  <2>2. Place(h) \in DOMAIN queued /\ queued[Place(h)] = h
    BY <2>1 DEF Place, Waiting, ToSet
  <2>3. \A g \in Handles : verdict'[g] = verdict[g]
    BY <2>1, <1>2, <1>4, <1>5
  <2>4. verdict' = verdict
    BY <2>3 DEF verdict
  <2> QED BY <2>1, <2>2, <2>4, <1>2, LeavingMeans
<1>7. CASE FreeSlot(h)
  <2> DEFINE rest == active \ {h}
             n == Promotable(Cardinality(rest))
             called == ToSet(SubSeq(queued, 1, n))
  <2>1. /\ h \notin Waiting /\ active' = rest \cup called
        /\ queued' = SubSeq(queued, n + 1, Len(queued))
        /\ UNCHANGED <<max, maxQueued>>
    BY <1>7 DEF FreeSlot
  <2>2. Cardinality(rest) \in Nat /\ max \in Nat /\ Len(queued) \in Nat
    BY <1>1, HandlesAssumption, FS_Subset, FS_CardinalityType, LenProperties
    DEF QueueInv, QueueTypeOK
  <2>3. /\ n \in 0 .. Len(queued) /\ called \subseteq Waiting
        /\ Cardinality(active') = Cardinality(rest) + n
        /\ n > 0 => max = 0 \/ Cardinality(rest) + n <= max
        /\ queued' # << >> => max # 0 /\ Cardinality(rest) + n >= max
    BY <1>1, <1>7, FreeSlotSize
  <2> HIDE DEF n
  <2>4. n > 0 => HasRoom(Cardinality(active') - 1)
    BY <2>2, <2>3 DEF HasRoom
  <2>5. queued' # << >> => ~HasRoom(Cardinality(active'))
    BY <2>2, <2>3 DEF HasRoom
  <2>6. verdict' = [d \in Handles |-> IF d \in called /\ verdict[d] # "gone"
                                      THEN "granted" ELSE verdict[d]]
    <3>1. \A d \in Handles : d \in called <=> d \in Waiting /\ d \in active'
      BY <2>1, <2>3, <1>5
    <3>2. \A d \in Handles : verdict'[d] = IF d \in called /\ verdict[d] # "gone"
                                           THEN "granted" ELSE verdict[d]
      BY <3>1, <2>1, <2>3, <1>2, <1>4
    <3>3. verdict' = [d \in Handles |-> verdict'[d]]
      BY DEF verdict
    <3> HIDE DEF called
    <3> QED BY <3>2, <3>3
  <2> QED
    <3> HIDE DEF called
    <3>1. \E k \in 0 .. Len(queued) :
            LET some == ToSet(SubSeq(queued, 1, k))
            IN /\ active' = (active \ {h}) \cup some
               /\ queued' = SubSeq(queued, k + 1, Len(queued))
               /\ k > 0 => HasRoom(Cardinality(active') - 1)
               /\ queued' # << >> => ~HasRoom(Cardinality(active'))
               /\ verdict' = [d \in Handles |-> IF d \in some /\ verdict[d] # "gone"
                                                THEN "granted" ELSE verdict[d]]
      BY <2>1, <2>3, <2>4, <2>5, <2>6 DEF called
    <3>2. h \notin ToSet(queued)
      BY <2>1 DEF Waiting
    <3> QED BY <3>1, <3>2, <2>1, <1>2, LeavingMeans
<1> QED BY <1>6, <1>7 DEF Withdraw, ReleaseFromHandle

---------------------------------------------------------------------------
\* Every step of Queue is a step of Admission or not seen in it.
LEMMA StepRefines ==
  ASSUME IInv, [Next]_vars
  PROVE  [Abstract!Next]_(Abstract!vars)
<1>1. HandleTypeOK
  BY IInvSplit
<1>2. ASSUME NEW h \in Handles, Acquire(h) PROVE Abstract!Next
  BY <1>2, AcquireRefines DEF Abstract!Next
<1>3. ASSUME NEW h \in Handles, Listen(h) \/ CallRelease(h) \/ Forget(h)
      PROVE  Abstract!Next \/ UNCHANGED Abstract!vars
  BY <1>3, OwnerRefines DEF Abstract!Next
<1>4. ASSUME NEW h \in Handles, NEW who \in Agents, SeeReleased(h, who) \/ MarkReleased(h, who)
      PROVE  UNCHANGED Abstract!vars
  <2>1. /\ UNCHANGED queueVars /\ UNCHANGED told
        /\ \A g \in Handles : Listening(g)' <=> Listening(g)
    BY <1>1, <1>4
    DEF SeeReleased, MarkReleased, Listening, HandleTypeOK, AtCheck, Returned, Agents
  <2> QED BY <2>1, Unseen DEF queueVars, Latest
<1>5. ASSUME NEW h \in Handles, NEW who \in Agents, Withdraw(h, who) PROVE Abstract!Next
  BY <1>5, ReleaseRefines DEF Abstract!Next
<1>6. CASE Reconfigure
  <2>1. /\ max' \in Limits /\ maxQueued' \in QueueLimits /\ UNCHANGED <<active, queued>>
        /\ UNCHANGED <<chan, handleVars>>
    BY <1>6 DEF Reconfigure, SetMax
  <2>2. verdict' = verdict
    BY <2>1 DEF verdict, handleVars, Listening, Latest
  <2>3. Abstract!SetLimits
    BY <2>1, <2>2 DEF Abstract!SetLimits, verdict
  <2> QED BY <2>3 DEF Abstract!Next
<1>7. CASE UNCHANGED vars
  <2>1. UNCHANGED Abstract!vars
    BY <1>7, Unseen DEF vars, handleVars, queueVars, Listening, Latest
  <2> QED BY <2>1
<1> QED BY <1>2, <1>3, <1>4, <1>5, <1>6, <1>7 DEF Next, ReleaseStep

\* Queue implements Admission: whatever a sequence of calls, releases, drops and
\* reloads does to pkg/queue, its callers see one line that is served in order
\* and slots that are given away only while there is room, as long as there is.
THEOREM QueueImplementsAdmission == Spec => ImplementsAdmission
  BY InitRefines, StepRefines, Invariance, PTL DEF Spec, ImplementsAdmission, Abstract!Spec
=============================================================================
