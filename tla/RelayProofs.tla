---------------------------- MODULE RelayProofs ----------------------------
(***************************************************************************)
(* Proofs about Relay for every finite set of connections and all limits.  *)
(* The invariant puts every connection where its relay's place says: in    *)
(* no list, in one of the lists as its channel tells, or among the active  *)
(* (Placed); upConns and listed follow the places (Opened, Listing).  With *)
(* it, relay is seen to use its queue as Admission promises.               *)
(***************************************************************************)
EXTENDS Relay, QueueCoreProofs

---------------------------------------------------------------------------
(* The inductive invariant *)

Outside == {"away", "entered", "greeting", "deleting", "leaving", "gone"}
Hearing == {"acquired", "notifying", "queueing"}
Holding == {"dialing", "connected", "copying", "closing"}

\* While relay hears from the queue: a status not yet received says where c is;
\* if there is none c waits, and has heard so.
Hears(c) ==
  \/ chan[c].buf = << >> /\ c \in Waiting /\ pc[c] # "acquired"
  \/ \E st \in Status :
       /\ chan[c].buf = <<st>>
       /\ c \in active <=> st.Ok
       /\ c \in Waiting <=> ~IsFinal(st)
       /\ st.Full => pc[c] = "acquired"

Placed(c) ==
  /\ pc[c] \in Outside => c \notin active \cup Waiting
  /\ pc[c] \in Hearing => Hears(c)
  /\ pc[c] \in Holding => c \in active

Opened == upConns = {c \in Conns : pc[c] \in {"connected", "copying", "closing"}}

Listing == listed = {c \in Conns : pc[c] \notin {"away", "entered", "leaving", "gone"}}

Gauge == counters["active"] = Cardinality(InFlight)

IInv ==
  /\ TypeOK /\ QueueInv
  /\ \A c \in Conns : Placed(c)
  /\ Opened /\ Listing /\ Gauge

---------------------------------------------------------------------------
\* In the beginning nobody is there.
LEMMA InitIInv == Init => IInv
<1> SUFFICES ASSUME Init PROVE IInv
  OBVIOUS
<1>1. pc = [c \in Conns |-> "away"] /\ active = {} /\ queued = << >> /\ Waiting = {}
  BY DEF Init, QueueInit, Waiting, ToSet
<1>2. TypeOK
  BY DEF Init, TypeOK, CounterNames
<1>3. QueueInv
  <2>1. QueueTypeOK
    BY LimitsAssumption DEF Init, QueueInit, QueueTypeOK, ChanType, NoChannel
  <2>2. ChannelDiscipline
    BY <1>1 DEF Init, QueueInit, ChannelDiscipline, NoChannel
  <2> QED BY <1>1, <2>1, <2>2 DEF QueueInv, NeverStuck, IsInjective
<1>4. \A c \in Conns : Placed(c)
  BY <1>1 DEF Placed, Outside, Hearing, Holding
<1>5. Opened /\ Listing
  BY <1>1 DEF Init, Opened, Listing
<1>6. Gauge
  <2>1. InFlight = {}
    BY <1>1 DEF InFlight
  <2>2. counters["active"] = 0
    BY DEF Init, CounterNames
  <2> QED BY <2>1, <2>2, FS_EmptySet DEF Gauge
<1> QED BY <1>2, <1>3, <1>4, <1>5, <1>6 DEF IInv

\* A step of the queue for another connection leaves c where it is placed.
LEMMA BystanderPlaced ==
  ASSUME QueueInv, QueueInv', NEW c \in Conns, Placed(c), Bystander(c), pc'[c] = pc[c]
  PROVE  Placed(c)'
<1>1. active \cap Waiting = {} /\ active' \cap Waiting' = {}
  BY DEF QueueInv
<1>2. CASE /\ c \in active <=> c \in active'
           /\ c \in Waiting <=> c \in Waiting'
           /\ chan'[c] = chan[c]
  <2>1. ASSUME Hears(c) PROVE Hears(c)'
    BY <2>1, <1>2 DEF Hears
  <2> QED BY <2>1, <1>2 DEF Placed
<1>4. CASE c \in Waiting /\ c \in Waiting' /\ \E st : IsPosition(st) /\ chan'[c].buf = <<st>>
  <2>1. Hears(c)'
    BY <1>1, <1>4 DEF Hears, IsPosition, IsFinal
  <2> QED BY <2>1, <1>1, <1>4 DEF Placed
<1>3. CASE c \in Waiting /\ c \in active' /\ chan'[c].buf = <<Granted>>
  BY <1>1, <1>3, StatusFacts DEF Placed, Hears, IsFinal, Granted
<1> QED BY <1>2, <1>3, <1>4 DEF Bystander

---------------------------------------------------------------------------
(* Steps of relay outside the queue *)

\* A step that leaves the queue alone keeps its part of the invariant.
LEMMA QueueStands == ASSUME QueueInv, UNCHANGED queueVars PROVE QueueInv'
  BY DEF queueVars, QueueInv, QueueTypeOK, Waiting, ChannelDiscipline, NeverStuck

\* relay goes on where it may without asking the queue: among the places outside
\* it, among those of waiting, among those of holding, or to its release.
LEMMA PlacesStand ==
  ASSUME IInv, UNCHANGED queueVars, NEW c \in Conns, NEW from, NEW to, Go(c, from, to),
         \/ from \in Outside /\ to \in Outside
         \/ from \in Hearing \ {"acquired"} /\ to \in Hearing \ {"acquired"}
         \/ from \in Holding /\ to \in Holding
         \/ to = "releasing"
  PROVE  \A g \in Conns : Placed(g)'
<1>1. pc[c] = from /\ pc'[c] = to /\ \A g \in Conns \ {c} : pc'[g] = pc[g]
  BY DEF IInv, TypeOK, Go
<1>2. active' = active /\ Waiting' = Waiting /\ chan' = chan
  BY DEF queueVars, Waiting
<1>3. Placed(c)'
  <2>1. pc'[c] = to /\ Placed(c)
    BY <1>1 DEF IInv
  <2>2. ASSUME from \in Hearing \ {"acquired"}, to \in Hearing \ {"acquired"} PROVE Hears(c)'
    <3>1. Hears(c)
      BY <2>1, <2>2, <1>1 DEF Placed
    <3> QED BY <3>1, <2>1, <2>2, <1>1, <1>2 DEF Hears
  <2> QED BY <2>1, <2>2, <1>1, <1>2 DEF Placed, Outside, Hearing, Holding
<1>4. ASSUME NEW g \in Conns \ {c} PROVE Placed(g)'
  <2>1. pc'[g] = pc[g] /\ Placed(g)
    BY <1>1 DEF IInv
  <2>2. Hears(g) => Hears(g)'
    BY <2>1, <1>2 DEF Hears
  <2> QED BY <2>1, <2>2, <1>2 DEF Placed
<1> QED BY <1>3, <1>4

\* The gauge stands while nobody comes or goes.
LEMMA GaugeStands ==
  ASSUME IInv, NEW c \in Conns, NEW from, NEW to, Go(c, from, to),
         from \notin {"away", "gone"}, to \notin {"away", "gone"},
         counters'["active"] = counters["active"]
  PROVE  Gauge'
<1>1. InFlight' = InFlight
  BY DEF IInv, TypeOK, InFlight, Go
<1> QED BY <1>1 DEF IInv, Gauge

\* A connection comes or goes.
LEMMA ComeAndGo ==
  ASSUME IInv, NEW c \in Conns, Accept(c) \/ Leave(c)
  PROVE  TypeOK' /\ Gauge'
<1>1. IsFiniteSet(InFlight) /\ Cardinality(InFlight) \in Nat
  BY HandlesAssumption, FS_Subset, FS_CardinalityType DEF InFlight, Conns
<1>2. CASE Accept(c)
  <2>1. InFlight' = InFlight \cup {c} /\ c \notin InFlight
    BY <1>2 DEF IInv, TypeOK, InFlight, Accept, Go
  <2>2. Cardinality(InFlight') = Cardinality(InFlight) + 1
    BY <2>1, <1>1, FS_AddElement
  <2>3. /\ counters' \in [CounterNames -> Nat]
        /\ counters'["active"] = counters["active"] + 1
    BY <1>2 DEF IInv, TypeOK, Accept, CounterNames
  <2> QED BY <2>2, <2>3, <1>2 DEF IInv, TypeOK, Gauge, Accept, Go
<1>3. CASE Leave(c)
  <2>1. InFlight' = InFlight \ {c} /\ c \in InFlight
    BY <1>3 DEF IInv, TypeOK, InFlight, Leave, Go
  <2>2. Cardinality(InFlight') = Cardinality(InFlight) - 1 /\ Cardinality(InFlight') \in Nat
    BY <2>1, <1>1, FS_RemoveElement, FS_CardinalityType
  <2>3. counters["active"] - 1 \in Nat
    BY <2>2, <1>1 DEF IInv, Gauge
  <2>4. /\ counters' \in [CounterNames -> Nat]
        /\ counters'["active"] = counters["active"] - 1
    BY <1>3, <2>3 DEF IInv, TypeOK, Leave, CounterNames
  <2> QED BY <2>2, <2>4, <1>3 DEF IInv, TypeOK, Gauge, Leave, Go
<1> QED BY <1>2, <1>3

\* The steps that neither ask the queue nor hear from it.
LEMMA QuietStep ==
  ASSUME IInv, NEW c \in Conns,
         \/ Accept(c) \/ StoreInfo(c) \/ GreetFails(c) \/ UnknownModule(c)
         \/ Notify(c) \/ Tick(c) \/ Connect(c) \/ Exchange(c) \/ EndCopy(c)
         \/ CloseUpstream(c) \/ DeleteInfo(c) \/ Leave(c)
  PROVE  IInv'
<1> USE DEF Notify, Connect, Exchange
<1> USE DEF StoreInfo, GreetFails, UnknownModule, SendNotice, NoticeFails, Tick, DialFails, Dial,
            Handshake, HandshakeFails, EndCopy, CloseUpstream, DeleteInfo
<1>1. UNCHANGED queueVars
  BY DEF Accept, Leave
<1>2. \A g \in Conns : Placed(g)'
  BY <1>1, PlacesStand DEF Accept, Leave, Outside, Hearing, Holding
<1>3. TypeOK'
  <2>1. CASE Accept(c) \/ Leave(c)
    BY <2>1, ComeAndGo
  <2>2. CASE ~(Accept(c) \/ Leave(c))
    <3>1. counters' \in [CounterNames -> Nat]
      BY <2>2 DEF IInv, TypeOK, Counted, CounterNames
    <3>2. client' \in [Conns -> {"there", "vanished", "unacked", "lost"}]
      BY <2>2 DEF IInv, TypeOK, WriteOK
    <3>3. upConns' \subseteq Conns /\ listed' \subseteq Conns
      BY <2>2 DEF IInv, TypeOK
    <3> QED BY <3>1, <3>2, <3>3, <2>2 DEF IInv, TypeOK, Go
  <2> QED BY <2>1, <2>2
<1>4. Opened' /\ Listing'
  BY DEF IInv, TypeOK, Opened, Listing, Accept, Leave, Go
<1>5. Gauge'
  <2>1. CASE Accept(c) \/ Leave(c)
    BY <2>1, ComeAndGo
  <2>2. CASE ~(Accept(c) \/ Leave(c))
    <3>1. counters'["active"] = counters["active"]
      BY <2>2 DEF IInv, TypeOK, Counted, CounterNames
    <3> QED BY <3>1, <2>2, GaugeStands
  <2> QED BY <2>1, <2>2
<1> QED BY <1>1, <1>2, <1>3, <1>4, <1>5, QueueStands DEF IInv

\* Clients that vanish, and a reload of the limits, move no relay.
LEMMA EnvironmentStep ==
  ASSUME IInv, Reload \/ UNCHANGED vars \/ \E c \in Conns : Vanish(c) \/ Lose(c)
  PROVE  IInv'
<1>1. /\ pc' = pc /\ upConns' = upConns /\ listed' = listed /\ counters' = counters
      /\ active' = active /\ queued' = queued /\ chan' = chan
  BY DEF Reload, SetMax, relayVars, vars, queueVars, Vanish, Lose
<1>2. TypeOK'
  <2>1. client' \in [Conns -> {"there", "vanished", "unacked", "lost"}]
    BY DEF IInv, TypeOK, Reload, relayVars, vars, Vanish, Lose
  <2> QED BY <2>1, <1>1 DEF IInv, TypeOK
<1>3. QueueInv'
  <2>1. max' \in Nat /\ maxQueued' \in Nat
    BY LimitsAssumption
    DEF IInv, QueueInv, QueueTypeOK, Reload, SetMax, vars, queueVars, Vanish, Lose
  <2> QED BY <1>1, <2>1 DEF IInv, QueueInv, QueueTypeOK, Waiting, ChannelDiscipline, NeverStuck
<1>4. \A g \in Conns : Placed(g)'
  <2> SUFFICES ASSUME NEW g \in Conns PROVE Placed(g)'
    OBVIOUS
  <2>1. Hears(g) => Hears(g)'
    BY <1>1 DEF Hears, Waiting
  <2> QED BY <1>1, <2>1 DEF IInv, Placed, Waiting
<1>5. Opened' /\ Listing' /\ Gauge'
  BY <1>1 DEF IInv, Opened, Listing, Gauge, InFlight
<1> QED BY <1>2, <1>3, <1>4, <1>5 DEF IInv

---------------------------------------------------------------------------
(* Steps of relay with the queue *)

\* A slot is asked for: the answer is in the channel, and c where it says.
LEMMA RequestStep ==
  ASSUME IInv, NEW c \in Conns, Request(c)
  PROVE  IInv'
<1>1. /\ Go(c, "greeting", "acquired") /\ AcquireSlot(c)
      /\ UNCHANGED <<client, upConns, listed, counters>>
  BY DEF Request
<1>2. c \notin active \cup Waiting
  BY <1>1 DEF IInv, Placed, Outside, Go
<1>3. /\ QueueInv'
      /\ \E st \in Status :
           /\ chan'[c].buf = <<st>>
           /\ c \in active' <=> st.Ok
           /\ c \in Waiting' <=> ~st.Ok /\ ~st.Full
      /\ \A g \in Conns \ {c} : Bystander(g)
  BY <1>1, <1>2, AcquireFacts DEF IInv, Conns
<1>4. pc'[c] = "acquired" /\ \A g \in Conns \ {c} : pc'[g] = pc[g]
  BY <1>1 DEF Go, IInv, TypeOK
<1>5. Placed(c)'
  <2>1. Hears(c)'
    BY <1>3, <1>4 DEF Hears, IsFinal
  <2> QED BY <2>1, <1>4 DEF Placed, Outside, Holding
<1>6. ASSUME NEW g \in Conns \ {c} PROVE Placed(g)'
  BY <1>3, <1>4, BystanderPlaced DEF IInv
<1>7. TypeOK' /\ Opened' /\ Listing'
  BY <1>1 DEF IInv, TypeOK, Opened, Listing, Go
<1>8. Gauge'
  BY <1>1, GaugeStands
<1> QED BY <1>3, <1>5, <1>6, <1>7, <1>8 DEF IInv

\* The deferred Release: c is in no list any more.
LEMMA ReleaseStep ==
  ASSUME IInv, NEW c \in Conns, Release(c)
  PROVE  IInv'
<1>1. /\ Go(c, "releasing", "deleting") /\ ReleaseFromHandle(c)
      /\ UNCHANGED <<client, upConns, listed, counters>>
  BY DEF Release
<1>2. QueueInv' /\ c \notin active' \cup Waiting' /\ \A g \in Conns \ {c} : Bystander(g)
  BY <1>1, LeaveLineFacts, FreeSlotFacts DEF IInv, Conns, ReleaseFromHandle
<1>3. pc'[c] = "deleting" /\ \A g \in Conns \ {c} : pc'[g] = pc[g]
  BY <1>1 DEF Go, IInv, TypeOK
<1>4. Placed(c)'
  BY <1>2, <1>3 DEF Placed, Hearing, Holding
<1>5. ASSUME NEW g \in Conns \ {c} PROVE Placed(g)'
  BY <1>2, <1>3, BystanderPlaced DEF IInv
<1>6. TypeOK' /\ Opened' /\ Listing'
  BY <1>1 DEF IInv, TypeOK, Opened, Listing, Go
<1>7. Gauge'
  BY <1>1, GaugeStands
<1> QED BY <1>2, <1>4, <1>5, <1>6, <1>7 DEF IInv

\* relay receives a status and does as it says.
LEMMA HearStep ==
  ASSUME IInv, NEW c \in Conns, Hear(c)
  PROVE  IInv'
<1>1. PICK st : FirstStatus(c, st) \/ NextStatus(c, st)
  BY DEF Hear
<1>2. PICK to \in {"releasing", "dialing", "notifying"} :
        /\ pc[c] \in {"acquired", "queueing"} /\ Go(c, pc[c], to)
        /\ to = IF st.Full /\ pc[c] = "acquired" THEN "releasing"
               ELSE IF st.Ok THEN "dialing" ELSE "notifying"
  BY <1>1 DEF FirstStatus, NextStatus, Go
<1>3. /\ chan[c].buf # << >> /\ st = Head(chan[c].buf)
      /\ chan' = [chan EXCEPT ![c].buf = Tail(@)]
      /\ UNCHANGED <<max, maxQueued, active, queued, client, upConns, listed>>
  BY <1>1 DEF FirstStatus, NextStatus, Receive
<1>4. pc'[c] = to /\ \A g \in Conns \ {c} : pc'[g] = pc[g]
  BY <1>2 DEF Go, IInv, TypeOK
<1>5. /\ chan[c].buf = <<st>>
      /\ c \in active <=> st.Ok
      /\ c \in Waiting <=> ~IsFinal(st)
      /\ st.Full => pc[c] = "acquired"
  <2>1. Hears(c)
    BY <1>2 DEF IInv, Placed, Hearing
  <2> QED BY <2>1, <1>3 DEF Hears
<1>6. chan' = [chan EXCEPT ![c].buf = << >>]
  <2>1. Tail(<<st>>) = << >>
    OBVIOUS
  <2> QED BY <2>1, <1>3, <1>5
<1>7. chan \in [Conns -> ChanType]
  BY DEF IInv, QueueInv, QueueTypeOK, Conns
<1>8. /\ chan' \in [Conns -> ChanType] /\ chan'[c].buf = << >> /\ chan'[c].closed = chan[c].closed
      /\ \A g \in Conns \ {c} : chan'[g] = chan[g]
  <2> DEFINE e == << >>
             d == [chan[c] EXCEPT !.buf = e]
  <2>1. e \in Seq(Status)
    OBVIOUS
  <2>2. chan' = [chan EXCEPT ![c] = d]
    BY <1>6
  <2>3. chan[c] \in ChanType
    BY <1>7
  <2> HIDE DEF e
  <2>4. d \in ChanType /\ d.buf = e /\ d.closed = chan[c].closed
    BY <2>1, <2>3 DEF ChanType
  <2> HIDE DEF d
  <2>5. /\ chan' \in [Conns -> ChanType] /\ chan'[c] = d
        /\ \A g \in Conns \ {c} : chan'[g] = chan[g]
    BY <2>2, <2>4, <1>7
  <2> QED BY <2>4, <2>5 DEF e
<1>9. QueueInv'
  <2>1. ChannelDiscipline'
    BY <1>3, <1>8 DEF IInv, QueueInv, ChannelDiscipline, Waiting, Conns
  <2> QED BY <2>1, <1>3, <1>8 DEF IInv, QueueInv, QueueTypeOK, Waiting, NeverStuck, Conns
<1>10. Placed(c)'
  <2>1. active' = active /\ Waiting' = Waiting
    BY <1>3 DEF Waiting
  <2>2. CASE to = "releasing"
    BY <2>2, <1>4 DEF Placed, Outside, Hearing, Holding
  <2>3. CASE to = "dialing"
    BY <2>1, <2>3, <1>2, <1>4, <1>5 DEF Placed, Outside, Hearing
  <2>4. CASE to = "notifying"
    <3>1. c \in Waiting
      BY <2>4, <1>2, <1>5 DEF IsFinal
    <3>2. Hears(c)'
      BY <3>1, <2>1, <2>4, <1>4, <1>8 DEF Hears
    <3> QED BY <3>2, <2>4, <1>4 DEF Placed, Outside, Holding
  <2> QED BY <2>2, <2>3, <2>4
<1>11. ASSUME NEW g \in Conns \ {c} PROVE Placed(g)'
  <2>1. Bystander(g)
    BY <1>3, <1>8 DEF Bystander, Waiting
  <2> QED BY <2>1, <1>4, <1>9, BystanderPlaced DEF IInv
<1>12. TypeOK' /\ counters'["active"] = counters["active"]
  <2>1. /\ counters' \in [CounterNames -> Nat]
        /\ counters'["active"] = counters["active"]
    BY <1>1 DEF IInv, TypeOK, FirstStatus, NextStatus, Counted, CounterNames
  <2> QED BY <2>1, <1>2, <1>3 DEF IInv, TypeOK, Go
<1>13. Opened' /\ Listing'
  BY <1>2, <1>3 DEF IInv, TypeOK, Opened, Listing, Go
<1>14. Gauge'
  BY <1>2, <1>12, GaugeStands
<1> QED BY <1>9, <1>10, <1>11, <1>12, <1>13, <1>14 DEF IInv

---------------------------------------------------------------------------
\* Every step keeps the invariant.
THEOREM InvariantStep == IInv /\ [Next]_vars => IInv'
<1> SUFFICES ASSUME IInv, [Next]_vars PROVE IInv'
  OBVIOUS
<1>1. ASSUME NEW c \in Conns, Greet(c) PROVE IInv'
  BY <1>1, QuietStep, RequestStep DEF Greet
<1>2. ASSUME NEW c \in Conns, Hear(c) PROVE IInv'
  BY <1>2, HearStep
<1>3. ASSUME NEW c \in Conns, CleanUp(c) PROVE IInv'
  BY <1>3, QuietStep, ReleaseStep DEF CleanUp
<1>4. ASSUME NEW c \in Conns,
             \/ Accept(c) \/ StoreInfo(c) \/ Notify(c) \/ Tick(c)
             \/ Connect(c) \/ Exchange(c) \/ EndCopy(c)
      PROVE  IInv'
  BY <1>4, QuietStep
<1>5. CASE Reload \/ UNCHANGED vars \/ \E c \in Conns : Vanish(c) \/ Lose(c)
  BY <1>5, EnvironmentStep
<1> QED BY <1>1, <1>2, <1>3, <1>4, <1>5 DEF Next, Terminated

\* Relay keeps the invariant, for any number of connections and all limits.
THEOREM Invariance == Spec => []IInv
  BY InitIInv, InvariantStep, PTL DEF Spec

\* The state of the relays has its type.
THEOREM TypeCorrect == Spec => []TypeOK
<1>1. IInv => TypeOK
  BY DEF IInv
<1> QED BY <1>1, Invariance, PTL

\* relay never has a connection to the upstream open without a slot.
THEOREM UpstreamKeepsToSlots == Spec => []UpstreamWithinSlots
<1>1. IInv => UpstreamWithinSlots
  BY DEF IInv, UpstreamWithinSlots, Opened, Placed, Holding
<1> QED BY <1>1, Invariance, PTL

\* A relay has a slot for as long as it needs one and no longer.
THEOREM SlotKept == Spec => []SlotWhileNeeded
<1>1. IInv => SlotWhileNeeded
  BY DEF IInv, SlotWhileNeeded, Placed, Outside, Holding
<1> QED BY <1>1, Invariance, PTL

\* Whatever occupies a slot or a place in the line is listed and counted.
THEOREM OccupantsAreListed == Spec => []OccupantsListed
<1>1. IInv => OccupantsListed
  <2> SUFFICES ASSUME IInv PROVE OccupantsListed
    OBVIOUS
  <2>1. active \cup Waiting \subseteq Conns
    BY InLists DEF IInv, QueueInv, Conns
  <2>2. active \cup Waiting \subseteq listed
    BY <2>1 DEF IInv, Placed, Outside, Listing
  <2> QED BY <2>2 DEF IInv, OccupantsListed, Listing, Gauge, InFlight
<1> QED BY <1>1, Invariance, PTL

---------------------------------------------------------------------------
(* Refinement.  Relay's connections use their queue as Admission's clients *)
(* use theirs: asking for a slot is entering, any way to the deferred      *)
(* release is turning away, that release is giving up or departing.        *)

Concerned == Hearing \cup Holding

\* What the last status sent to a connection says of it, until it is about to leave.
Verdict(st) == IF st.Ok THEN "granted" ELSE IF st.Full THEN "refused" ELSE "waiting"

verdict ==
  [c \in Conns |-> IF pc[c] \in Holding THEN "granted"
                   ELSE IF pc[c] \notin Hearing THEN "gone"
                   ELSE IF chan[c].buf = << >> THEN "waiting"
                   ELSE Verdict(Head(chan[c].buf))]

Abstract == INSTANCE Admission WITH
  Clients <- Conns, limit <- max, lineLimit <- maxQueued,
  inside <- active, line <- queued, verdict <- verdict

\* What the lists say of a connection.
SaidByLists(c) ==
  IF pc[c] \notin Concerned THEN "gone"
  ELSE IF c \in active THEN "granted" ELSE IF c \in Waiting THEN "waiting" ELSE "refused"

\* What a connection has been told is what the lists say.
LEMMA VerdictIsPlace ==
  /\ IInv => \A c \in Conns : verdict[c] = SaidByLists(c)
  /\ IInv' => \A c \in Conns : verdict'[c] = SaidByLists(c)'
<1>1. ASSUME IInv, NEW c \in Conns PROVE verdict[c] = SaidByLists(c)
  <2>1. Placed(c) /\ active \cap Waiting = {}
    BY <1>1 DEF IInv, QueueInv
  <2>2. CASE pc[c] \in Hearing
    <3>1. pc[c] \notin Holding /\ Hears(c)
      BY <2>1, <2>2 DEF Placed, Hearing, Holding
    <3>2. CASE chan[c].buf = << >> /\ c \in Waiting
      BY <3>1, <3>2, <2>1, <2>2 DEF verdict, SaidByLists, Concerned
    <3>3. ASSUME NEW st \in Status, chan[c].buf = <<st>>,
                 c \in active <=> st.Ok, c \in Waiting <=> ~IsFinal(st)
          PROVE  verdict[c] = SaidByLists(c)
      <4>1. chan[c].buf # << >> /\ Head(chan[c].buf) = st
        BY <3>3
      <4> QED BY <4>1, <3>1, <3>3, <2>2 DEF verdict, Verdict, SaidByLists, Concerned, IsFinal
    <3> QED BY <3>1, <3>2, <3>3 DEF Hears
  <2> QED BY <2>1, <2>2 DEF verdict, SaidByLists, Concerned, Placed
<1>2. ASSUME IInv', NEW c \in Conns PROVE verdict'[c] = SaidByLists(c)'
  <2>1. Placed(c)' /\ active' \cap Waiting' = {}
    BY <1>2 DEF IInv, QueueInv
  <2>2. CASE pc'[c] \in Hearing
    <3>1. pc'[c] \notin Holding /\ Hears(c)'
      BY <2>1, <2>2 DEF Placed, Hearing, Holding
    <3>2. CASE chan'[c].buf = << >> /\ c \in Waiting'
      BY <3>1, <3>2, <2>1, <2>2 DEF verdict, SaidByLists, Concerned
    <3>3. ASSUME NEW st \in Status, chan'[c].buf = <<st>>,
                 c \in active' <=> st.Ok, c \in Waiting' <=> ~IsFinal(st)
          PROVE  verdict'[c] = SaidByLists(c)'
      <4>1. chan'[c].buf # << >> /\ Head(chan'[c].buf) = st
        BY <3>3
      <4> QED BY <4>1, <3>1, <3>3, <2>2 DEF verdict, Verdict, SaidByLists, Concerned, IsFinal
    <3> QED BY <3>1, <3>2, <3>3 DEF Hears
  <2> QED BY <2>1, <2>2 DEF verdict, SaidByLists, Concerned, Placed
<1> QED BY <1>1, <1>2

\* A verdict for c only: the others hear nothing new.
LEMMA OneVerdict ==
  ASSUME NEW c \in Conns, NEW v,
         verdict'[c] = v, \A g \in Conns \ {c} : verdict'[g] = verdict[g]
  PROVE  verdict' = [verdict EXCEPT ![c] = v]
  BY DEF verdict

\* The library's operators are the same in Admission.
LEMMA SameOperators ==
  /\ \A S : Abstract!Cardinality(S) = Cardinality(S)
  /\ \A s : Abstract!ToSet(s) = ToSet(s)
  /\ \A s, i : Abstract!RemoveAt(s, i) = RemoveAt(s, i)
<1>1. \A S : Abstract!Cardinality(S) = Cardinality(S)
  BY DEF Abstract!Cardinality, Cardinality
<1>2. \A s : Abstract!ToSet(s) = ToSet(s)
  BY DEF Abstract!ToSet, ToSet
<1>3. \A s, i : Abstract!RemoveAt(s, i) = RemoveAt(s, i)
  BY DEF Abstract!RemoveAt, RemoveAt
<1> QED BY <1>1, <1>2, <1>3

\* The initial states are initial states of Admission.
LEMMA InitRefines == Init => Abstract!Init
<1> SUFFICES ASSUME Init PROVE Abstract!Init
  OBVIOUS
<1>1. verdict = [c \in Conns |-> "gone"]
  BY DEF Init, verdict, Hearing, Holding
<1> QED BY <1>1 DEF Init, QueueInit, Abstract!Init

\* A step that leaves the queue's lists and limits alone, and all relays but that
\* of c where the queue concerns them as it did, turns c away or is not seen.
LEMMA OneRelayMoves ==
  ASSUME IInv, IInv', UNCHANGED <<max, maxQueued, active, queued>>, NEW c \in Conns,
         \A g \in Conns \ {c} : pc'[g] = pc[g],
         pc'[c] \in Concerned => pc[c] \in Concerned
  PROVE  Abstract!TurnAway(c) \/ UNCHANGED Abstract!vars
<1>1. Waiting' = Waiting /\ active' = active
  BY DEF Waiting
<1>2. \A g \in Conns \ {c} : verdict'[g] = verdict[g]
  BY <1>1, VerdictIsPlace DEF SaidByLists
<1>3. verdict'[c] = verdict[c] \/ (verdict'[c] = "gone" /\ verdict[c] # "gone")
  <2>1. verdict[c] = SaidByLists(c) /\ verdict'[c] = SaidByLists(c)'
    BY VerdictIsPlace
  <2> QED BY <2>1, <1>1 DEF SaidByLists
<1>4. CASE verdict'[c] = verdict[c]
  <2>1. \A g \in Conns : verdict'[g] = verdict[g]
    BY <1>2, <1>4
  <2>2. verdict' = verdict
    BY <2>1 DEF verdict
  <2> QED BY <2>2 DEF Abstract!vars
<1>5. CASE verdict'[c] = "gone" /\ verdict[c] # "gone"
  <2>1. verdict' = [verdict EXCEPT ![c] = "gone"]
    BY <1>2, <1>5, OneVerdict
  <2> QED BY <2>1, <1>5 DEF Abstract!TurnAway
<1> QED BY <1>3, <1>4, <1>5

\* Asking for a slot is Enter.
LEMMA RequestRefines ==
  ASSUME IInv, IInv', NEW c \in Conns, Request(c)
  PROVE  Abstract!Enter(c)
<1>1. Go(c, "greeting", "acquired") /\ AcquireSlot(c) /\ QueueInv
  BY DEF Request, IInv
<1>2. /\ c \notin active \cup Waiting
      /\ pc[c] \notin Concerned /\ pc'[c] \in Concerned
      /\ \A g \in Conns \ {c} : pc'[g] = pc[g]
  BY <1>1 DEF IInv, TypeOK, Placed, Outside, Go, Concerned, Hearing, Holding
<1>3. \A g \in Conns \ {c} : /\ g \in active <=> g \in active'
                             /\ g \in Waiting <=> g \in Waiting'
  <2>1. queued \in Seq(Handles) /\ c \in Handles /\ IsInjective(queued) /\ c \notin ToSet(queued)
    BY <1>1, <1>2 DEF QueueInv, QueueTypeOK, Conns, Waiting
  <2>2. CASE Admit(c) \/ Reject(c)
    BY <2>2 DEF Admit, Reject, Waiting
  <2>3. CASE Enqueue(c)
    <3>1. queued' = Append(queued, c) /\ active' = active
      BY <2>3 DEF Enqueue
    <3>2. ToSet(queued') = ToSet(queued) \cup {c}
      BY <2>1, <3>1, AppendFacts
    <3> QED BY <3>1, <3>2 DEF Waiting
  <2> QED BY <2>2, <2>3, <1>1 DEF AcquireSlot
<1>4. verdict[c] = "gone" /\ \A g \in Conns \ {c} : verdict'[g] = verdict[g]
  BY <1>2, <1>3, VerdictIsPlace DEF SaidByLists
<1>5. verdict' = [verdict EXCEPT ![c] = verdict'[c]]
  BY <1>4, OneVerdict
<1>6. CASE Admit(c)
  <2>1. verdict'[c] = "granted"
    BY <1>2, <1>6, VerdictIsPlace DEF SaidByLists, Admit
  <2> QED BY <2>1, <1>2, <1>4, <1>5, <1>6, SameOperators
          DEF Abstract!Enter, Abstract!Room, HasRoom, Admit, Waiting
<1>7. CASE Reject(c)
  <2>1. verdict'[c] = "refused"
    BY <1>2, <1>7, VerdictIsPlace DEF SaidByLists, Reject, Waiting
  <2> QED BY <2>1, <1>2, <1>4, <1>5, <1>7, SameOperators
          DEF Abstract!Enter, Abstract!Room, HasRoom, Reject, LineIsFull, Waiting
<1>8. CASE Enqueue(c)
  <2>1. verdict'[c] = "waiting"
    <3>1. queued' = Append(queued, c) /\ active' = active
      BY <1>8 DEF Enqueue
    <3>2. /\ queued \in Seq(Handles) /\ c \in Handles
          /\ IsInjective(queued) /\ c \notin ToSet(queued)
      BY <1>1, <1>2 DEF QueueInv, QueueTypeOK, Conns, Waiting
    <3>3. ToSet(queued') = ToSet(queued) \cup {c}
      BY <3>1, <3>2, AppendFacts
    <3>4. c \in Waiting' /\ c \notin active'
      BY <3>1, <3>3, <1>2 DEF Waiting
    <3> QED BY <3>4, <1>2, VerdictIsPlace DEF SaidByLists
  <2>2. maxQueued > 0 => Len(queued) < maxQueued
    <3>1. Len(queued) \in Nat /\ maxQueued \in Nat
      BY <1>1, LenProperties DEF QueueInv, QueueTypeOK
    <3> QED BY <3>1, <1>8 DEF Enqueue, LineIsFull
  <2> QED BY <2>1, <2>2, <1>2, <1>4, <1>5, <1>8, SameOperators
          DEF Abstract!Enter, Abstract!Room, HasRoom, Enqueue, Waiting
<1> QED BY <1>1, <1>6, <1>7, <1>8 DEF AcquireSlot

\* The deferred release is GiveUp or Depart.
LEMMA ReleaseRefines ==
  ASSUME IInv, IInv', NEW c \in Conns, Release(c)
  PROVE  Abstract!GiveUp(c) \/ Abstract!Depart(c)
<1>1. Go(c, "releasing", "deleting") /\ ReleaseFromHandle(c) /\ QueueInv /\ QueueInv'
  BY DEF Release, IInv
<1>2. /\ pc[c] \notin Concerned /\ pc'[c] \notin Concerned
      /\ \A g \in Conns \ {c} : pc'[g] = pc[g]
  BY <1>1 DEF IInv, TypeOK, Go, Concerned, Hearing, Holding
<1>3. verdict[c] = "gone" /\ verdict'[c] = "gone"
  BY <1>2, VerdictIsPlace DEF SaidByLists
<1>4. active \cap Waiting = {} /\ active' \cap Waiting' = {}
  BY <1>1 DEF QueueInv
<1>5. ASSUME NEW g \in Conns \ {c}
      PROVE  verdict'[g] = IF g \in Waiting /\ g \in active' /\ verdict[g] # "gone"
                           THEN "granted" ELSE verdict[g]
  <2>1. Bystander(g)
    BY <1>1, LeaveLineFacts, FreeSlotFacts DEF ReleaseFromHandle, Conns
  <2>2. \/ (g \in active <=> g \in active') /\ (g \in Waiting <=> g \in Waiting')
        \/ g \in Waiting /\ g \in Waiting'
        \/ g \in Waiting /\ g \in active'
    BY <2>1 DEF Bystander
  <2>3. verdict[g] = SaidByLists(g) /\ verdict'[g] = SaidByLists(g)'
    BY VerdictIsPlace
  <2> QED BY <2>2, <2>3, <1>2, <1>4 DEF SaidByLists
<1>6. CASE LeaveLine(c)
  <2>1. /\ c \in Waiting /\ queued' = RemoveAt(queued, Place(c))
        /\ UNCHANGED <<max, maxQueued, active>>
    BY <1>6 DEF LeaveLine
  <2>2. Place(c) \in DOMAIN queued /\ queued[Place(c)] = c
    BY <2>1 DEF Place, Waiting, ToSet
  <2>3. \A g \in Conns : verdict'[g] = verdict[g]
    BY <2>1, <1>3, <1>4, <1>5
  <2>4. verdict' = verdict
    BY <2>3 DEF verdict
  <2> QED BY <2>1, <2>2, <2>4, <1>3, SameOperators DEF Abstract!GiveUp
<1>7. CASE FreeSlot(c)
  <2> DEFINE rest == active \ {c}
             n == Promotable(Cardinality(rest))
             called == ToSet(SubSeq(queued, 1, n))
  <2>1. /\ c \notin Waiting /\ active' = rest \cup called
        /\ queued' = SubSeq(queued, n + 1, Len(queued))
        /\ UNCHANGED <<max, maxQueued>>
    BY <1>7 DEF FreeSlot
  <2>2. Cardinality(rest) \in Nat /\ max \in Nat /\ Len(queued) \in Nat
    BY <1>1, HandlesAssumption, FS_Subset, FS_CardinalityType, LenProperties
    DEF QueueInv, QueueTypeOK
  <2>3. /\ n \in 0 .. Len(queued) /\ called \subseteq Waiting
        /\ Cardinality(active') = Cardinality(rest) + n
        /\ n > 0 => max = 0 \/ Cardinality(rest) + n <= max
        /\ queued' # << >> => max # 0 /\ Cardinality(rest) + n >= max
    BY <1>1, <1>7, FreeSlotSize DEF Conns
  <2> HIDE DEF n
  <2>4. /\ n > 0 => HasRoom(Cardinality(active') - 1)
        /\ queued' # << >> => ~HasRoom(Cardinality(active'))
    BY <2>2, <2>3 DEF HasRoom
  <2>5. verdict' = [d \in Conns |-> IF d \in called /\ verdict[d] # "gone"
                                    THEN "granted" ELSE verdict[d]]
    <3>1. \A d \in Conns : d \in called <=> d \in Waiting /\ d \in active'
      BY <2>1, <2>3, <1>4
    <3>2. \A d \in Conns : verdict'[d] = IF d \in called /\ verdict[d] # "gone"
                                         THEN "granted" ELSE verdict[d]
      BY <3>1, <2>1, <2>3, <1>3, <1>5
    <3>3. verdict' = [d \in Conns |-> verdict'[d]]
      BY DEF verdict
    <3> HIDE DEF called
    <3> QED BY <3>2, <3>3
  <2>6. \E k \in 0 .. Len(queued) :
          LET some == ToSet(SubSeq(queued, 1, k))
          IN /\ active' = (active \ {c}) \cup some
             /\ queued' = SubSeq(queued, k + 1, Len(queued))
             /\ k > 0 => HasRoom(Cardinality(active') - 1)
             /\ queued' # << >> => ~HasRoom(Cardinality(active'))
             /\ verdict' = [d \in Conns |-> IF d \in some /\ verdict[d] # "gone"
                                            THEN "granted" ELSE verdict[d]]
    <3> HIDE DEF called
    <3> QED BY <2>1, <2>3, <2>4, <2>5 DEF called
  <2>7. c \notin ToSet(queued)
    BY <2>1 DEF Waiting
  <2> HIDE DEF called
  <2> QED BY <2>1, <2>6, <2>7, <1>3, SameOperators DEF Abstract!Depart, Abstract!Room, HasRoom
<1> QED BY <1>1, <1>6, <1>7 DEF ReleaseFromHandle

\* Every step of Relay is a step of Admission or not seen in it.
LEMMA StepRefines ==
  ASSUME IInv, IInv', [Next]_vars
  PROVE  [Abstract!Next]_(Abstract!vars)
<1>1. ASSUME NEW c \in Conns, Request(c) PROVE Abstract!Next
  BY <1>1, RequestRefines DEF Abstract!Next
<1>2. ASSUME NEW c \in Conns, Release(c) PROVE Abstract!Next
  BY <1>2, ReleaseRefines DEF Abstract!Next
<1>3. ASSUME NEW c \in Conns,
             \/ Accept(c) \/ StoreInfo(c) \/ GreetFails(c) \/ UnknownModule(c) \/ Hear(c)
             \/ Notify(c) \/ Tick(c) \/ Connect(c) \/ Exchange(c) \/ EndCopy(c)
             \/ CloseUpstream(c) \/ DeleteInfo(c) \/ Leave(c) \/ Vanish(c) \/ Lose(c)
      PROVE  Abstract!Next \/ UNCHANGED Abstract!vars
  <2>1. UNCHANGED <<max, maxQueued, active, queued>>
    BY <1>3 DEF queueVars, Accept, StoreInfo, GreetFails, UnknownModule, Hear, FirstStatus,
                NextStatus, Receive, Notify, SendNotice, NoticeFails, Tick, Connect, DialFails,
                Dial, Exchange, Handshake, HandshakeFails, EndCopy, CloseUpstream, DeleteInfo,
                Leave, Vanish, Lose
  <2>2. /\ \A g \in Conns \ {c} : pc'[g] = pc[g]
        /\ pc'[c] \in Concerned => pc[c] \in Concerned
    BY <1>3 DEF IInv, TypeOK, Go, Concerned, Hearing, Holding,
                Accept, StoreInfo, GreetFails, UnknownModule, Hear, FirstStatus,
                NextStatus, Notify, SendNotice, NoticeFails, Tick, Connect, DialFails,
                Dial, Exchange, Handshake, HandshakeFails, EndCopy, CloseUpstream, DeleteInfo,
                Leave, Vanish, Lose
  <2> QED BY <2>1, <2>2, OneRelayMoves DEF Abstract!Next
<1>4. CASE Reload
  <2>1. /\ max' \in Limits /\ maxQueued' \in QueueLimits
        /\ UNCHANGED <<active, queued, chan, pc>>
    BY <1>4 DEF Reload, SetMax, relayVars
  <2>2. verdict' = verdict
    BY <2>1 DEF verdict
  <2> QED BY <2>1, <2>2 DEF Abstract!Next, Abstract!SetLimits
<1>5. CASE UNCHANGED vars
  BY <1>5 DEF vars, queueVars, relayVars, Abstract!vars, verdict
<1> QED BY <1>1, <1>2, <1>3, <1>4, <1>5 DEF Next, Terminated, Greet, CleanUp

\* Relay implements Admission: through greetings, notices, dials, transfers and
\* reloads, a connection asks for a slot only while it has neither slot nor place,
\* hears no verdict that the queue did not reach, and gives up its slot or its
\* place only after it was turned away, whichever return of relay it takes.
THEOREM RelayImplementsAdmission == Spec => Abstract!Spec
  BY InitRefines, StepRefines, Invariance, PTL DEF Spec, Abstract!Spec
=============================================================================
