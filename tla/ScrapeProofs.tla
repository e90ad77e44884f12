---------------------------- MODULE ScrapeProofs ----------------------------
(***************************************************************************)
(* Proofs about Scrape, for any number of connections: how the numbers of  *)
(* a scrape relate although each was read at another moment.  They rest on *)
(* two facts about Relay: failures and those who may still fail are among  *)
(* the accepted (Conserved), and a transfer is counted when it ends        *)
(* (TransfersMove).                                                        *)
(***************************************************************************)
EXTENDS Scrape, RelayProofs

---------------------------------------------------------------------------
(* The relays, whether watched or not *)

Undecided ==
  {c \in Conns : pc[c] \in {"entered", "greeting", "acquired", "notifying", "queueing", "dialing"}}

Failures(counts) == counts["unknown"] + counts["queueFull"] + counts["dialError"]

Conserved == Failures(counters) + Cardinality(Undecided) <= counters["accepted"]

\* A subset of the connections has a size.
LEMMA SizeFacts ==
  ASSUME NEW S \in SUBSET Conns
  PROVE  /\ IsFiniteSet(S) /\ Cardinality(S) \in Nat
         /\ \A T \in SUBSET S : Cardinality(T) \in Nat /\ Cardinality(T) <= Cardinality(S)
         /\ \A c \in S : Cardinality(S \ {c}) = Cardinality(S) - 1
         /\ \A c \in Conns \ S : Cardinality(S \cup {c}) = Cardinality(S) + 1
<1>1. IsFiniteSet(S)
  BY HandlesAssumption, FS_Subset DEF Conns
<1>2. ASSUME NEW T \in SUBSET S PROVE Cardinality(T) \in Nat /\ Cardinality(T) <= Cardinality(S)
  BY <1>1, FS_Subset, FS_CardinalityType
<1> QED BY <1>1, <1>2, FS_CardinalityType, FS_RemoveElement, FS_AddElement

\* What a step of the relays may do to the counters of outcomes: nothing; or one
\* of them counts a connection that comes, fails, or ends its transfer.
Other(names) == \A n \in Outcomes \ names : counters'[n] = counters[n]
OneMore(name) == counters'[name] = counters[name] + 1

Idles ==
  /\ Other({})
  /\ Undecided' \subseteq Undecided /\ Transferring \subseteq Transferring'

Comes(c) ==
  /\ Other({"accepted"}) /\ OneMore("accepted")
  /\ c \notin Undecided /\ Undecided' = Undecided \cup {c} /\ Transferring' = Transferring

FailsBy(c, name) ==
  /\ Other({name}) /\ OneMore(name)
  /\ c \in Undecided /\ Undecided' = Undecided \ {c} /\ Transferring' = Transferring

Completes(c) ==
  /\ Other({"completed"}) /\ OneMore("completed") /\ Undecided' = Undecided
  /\ c \in Transferring /\ Transferring' = Transferring \ {c}

FailureNames == {"unknown", "queueFull", "dialError"}

\* There is no other kind of step.
LEMMA OutcomeStep ==
  ASSUME IInv, [Next]_vars
  PROVE  \/ Idles
         \/ \E c \in Conns : Comes(c) \/ Completes(c) \/ \E n \in FailureNames : FailsBy(c, n)
<1> DEFINE Goal == \/ Idles
                   \/ \E c \in Conns :
                        Comes(c) \/ Completes(c) \/ \E n \in FailureNames : FailsBy(c, n)
<1> SUFFICES Goal
  OBVIOUS
<1>1. /\ pc = [c \in Conns |-> pc[c]]
      /\ counters \in [CounterNames -> Nat]
  BY DEF IInv, TypeOK
<1>2. ASSUME UNCHANGED <<pc, counters>> PROVE Goal
  BY <1>2 DEF Idles, Other, Undecided, Transferring
<1>3. ASSUME NEW c \in Conns,
             \/ StoreInfo(c) \/ GreetFails(c) \/ Request(c) \/ Notify(c) \/ Tick(c) \/ Dial(c)
             \/ Exchange(c) \/ CloseUpstream(c) \/ Release(c) \/ DeleteInfo(c)
      PROVE  Goal
  <2>1. Other({}) /\ Undecided' \subseteq Undecided /\ Transferring \subseteq Transferring'
    BY <1>1, <1>3
    DEF StoreInfo, GreetFails, Request, Notify, SendNotice, NoticeFails, Tick, Dial, Exchange,
        Handshake, HandshakeFails, CloseUpstream, Release, DeleteInfo, Go, Other, Undecided,
        Transferring
  <2> QED BY <2>1 DEF Idles
<1>4. ASSUME NEW c \in Conns, Leave(c) PROVE Goal
  <2>1. Other({}) /\ Undecided' \subseteq Undecided /\ Transferring \subseteq Transferring'
    BY <1>1, <1>4 DEF Leave, Go, Other, Undecided, Transferring, Outcomes, CounterNames
  <2> QED BY <2>1 DEF Idles
<1>5. ASSUME NEW c \in Conns, Accept(c) PROVE Goal
  <2>1. Comes(c)
    BY <1>1, <1>5
    DEF Accept, Go, Comes, Other, OneMore, Undecided, Transferring, Outcomes, CounterNames
  <2> QED BY <2>1
<1>6. ASSUME NEW c \in Conns, EndCopy(c) PROVE Goal
  <2>1. Completes(c)
    BY <1>1, <1>6
    DEF EndCopy, Go, Counted, Completes, Other, OneMore, Undecided, Transferring, Outcomes,
        CounterNames
  <2> QED BY <2>1
<1>7. ASSUME NEW c \in Conns, NEW from \in {"greeting", "acquired", "dialing"},
             NEW to \in {"deleting", "releasing"}, Go(c, from, to),
             NEW n \in FailureNames, Counted(n)
      PROVE  Goal
  <2>1. FailsBy(c, n)
    BY <1>1, <1>7
    DEF Go, Counted, FailsBy, Other, OneMore, Undecided, Transferring, Outcomes, CounterNames,
        FailureNames
  <2> QED BY <2>1
<1>8. ASSUME NEW c \in Conns, UnknownModule(c) \/ DialFails(c) PROVE Goal
  BY <1>7, <1>8 DEF UnknownModule, DialFails, FailureNames
<1>9. ASSUME NEW c \in Conns, Hear(c) PROVE Goal
  <2>1. PICK st : FirstStatus(c, st) \/ NextStatus(c, st)
    BY <1>9 DEF Hear
  <2>2. CASE FirstStatus(c, st) /\ st.Full
    <3>1. Go(c, "acquired", "releasing") /\ Counted("queueFull")
      BY <2>2 DEF FirstStatus, Go
    <3> QED BY <3>1, <1>7 DEF FailureNames
  <2>3. CASE ~(FirstStatus(c, st) /\ st.Full)
    <3>1. Other({}) /\ Undecided' \subseteq Undecided /\ Transferring \subseteq Transferring'
      BY <2>1, <2>3, <1>1 DEF FirstStatus, NextStatus, Other, Undecided, Transferring
    <3> QED BY <3>1 DEF Idles
  <2> QED BY <2>2, <2>3
<1>10. CASE Reload \/ UNCHANGED vars \/ \E c \in Conns : Vanish(c) \/ Lose(c)
  <2>1. UNCHANGED <<pc, counters>>
    BY <1>10 DEF Reload, relayVars, vars, Vanish, Lose
  <2> QED BY <2>1, <1>2
<1> HIDE DEF Goal
<1> QED
  <2>1. ASSUME NEW c \in Conns, Greet(c) \/ Connect(c) \/ CleanUp(c) PROVE Goal
    BY <2>1, <1>3, <1>4, <1>8 DEF Greet, Connect, CleanUp
  <2>2. CASE Terminated
    BY <2>2, <1>10 DEF Terminated
  <2> QED BY <2>1, <2>2, <1>3, <1>5, <1>6, <1>9, <1>10 DEF Next

\* The failures and those who may still fail are among the accepted.
LEMMA ConservedInit == Init => Conserved
<1> SUFFICES ASSUME Init PROVE Conserved
  OBVIOUS
<1>1. Undecided = {}
  BY DEF Init, Undecided
<1>2. counters = [n \in CounterNames |-> 0]
  BY DEF Init
<1> QED BY <1>1, <1>2, FS_EmptySet DEF Conserved, Failures, CounterNames

\* Every step of the relays keeps it so.
LEMMA ConservedStep ==
  ASSUME IInv, Conserved, [Next]_vars
  PROVE  Conserved'
<1>1. /\ counters["unknown"] \in Nat /\ counters["queueFull"] \in Nat
      /\ counters["dialError"] \in Nat /\ counters["accepted"] \in Nat
  BY DEF IInv, TypeOK, CounterNames
<1>2. Undecided \in SUBSET Conns /\ Cardinality(Undecided) \in Nat
  BY SizeFacts DEF Undecided
<1>3. CASE Idles
  <2>1. Cardinality(Undecided') \in Nat /\ Cardinality(Undecided') <= Cardinality(Undecided)
    BY <1>2, <1>3, SizeFacts DEF Idles
  <2> QED BY <2>1, <1>1, <1>2, <1>3 DEF Idles, Other, Outcomes, Conserved, Failures
<1>4. ASSUME NEW c \in Conns, Comes(c) PROVE Conserved'
  <2>1. Cardinality(Undecided') = Cardinality(Undecided) + 1
    BY <1>2, <1>4, SizeFacts DEF Comes
  <2> QED BY <2>1, <1>1, <1>2, <1>4 DEF Comes, Other, OneMore, Outcomes, Conserved, Failures
<1>5. ASSUME NEW c \in Conns, NEW n \in FailureNames, FailsBy(c, n) PROVE Conserved'
  <2>1. Cardinality(Undecided') = Cardinality(Undecided) - 1
    BY <1>2, <1>5, SizeFacts DEF FailsBy
  <2> QED BY <2>1, <1>1, <1>2, <1>5
          DEF FailsBy, FailureNames, Other, OneMore, Outcomes, Conserved, Failures
<1>6. ASSUME NEW c \in Conns, Completes(c) PROVE Conserved'
  BY <1>1, <1>2, <1>6 DEF Completes, Other, Outcomes, Conserved, Failures
<1> QED BY <1>3, <1>4, <1>5, <1>6, OutcomeStep

---------------------------------------------------------------------------
(* The scrape *)

ScrapeTypeOK ==
  /\ at \in {"idle", "listing", "queueFull", "dialErrors", "unknown", "accepted", "completed",
             "done"}
  /\ unvisited \subseteq Conns /\ rows \subseteq Conns
  /\ shown \in [Outcomes -> Nat] /\ begun \subseteq Conns /\ before \in Nat

\* Failures are counted once read, and no more were read than there are; the
\* accepted, read after them, were at least as many.
FailuresRead ==
  /\ \A n \in Outcomes : shown[n] <= counters[n]
  /\ at \in {"completed", "done"} => Failures(shown) <= shown["accepted"]

\* Those begun before the scrape that the list has missed, or will miss.
Unlisted == begun \ (rows \cup (unvisited \cap Transferring))

\* A transfer begun before the scrape has been listed or will be, or has been
\* counted since, at every moment of the scrape.
TransfersInSight ==
  /\ at = "listing" => before + Cardinality(Unlisted) <= counters["completed"]
  /\ at \in {"queueFull", "dialErrors", "unknown", "accepted", "completed"} =>
       before + Cardinality(begun \ rows) <= counters["completed"]
  /\ at = "done" => before + Cardinality(begun \ rows) <= shown["completed"]

WatchedInv ==
  /\ IInv /\ Conserved
  /\ ScrapeTypeOK /\ FailuresRead /\ TransfersInSight
  /\ at = "idle" => rows = {}

\* In the beginning nothing has been read.
LEMMA WatchedInitInv == WatchedInit => WatchedInv
<1> SUFFICES ASSUME WatchedInit PROVE WatchedInv
  OBVIOUS
<1>1. IInv /\ Conserved
  BY InitIInv, ConservedInit DEF WatchedInit
<1> QED BY <1>1
        DEF WatchedInit, WatchedInv, ScrapeTypeOK, FailuresRead, TransfersInSight, Init, Outcomes,
            CounterNames

\* The relays go on: what was read remains true.
LEMMA RelaysGoOn ==
  ASSUME WatchedInv, [Next]_vars, UNCHANGED scrapeVars
  PROVE  WatchedInv'
<1> USE DEF WatchedInv
<1>1. IInv' /\ Conserved'
  BY InvariantStep, ConservedStep
<1>2. /\ ScrapeTypeOK' /\ (at = "idle" => rows = {})'
      /\ at' = at /\ unvisited' = unvisited /\ rows' = rows /\ shown' = shown
      /\ begun' = begun /\ before' = before
  BY DEF scrapeVars, historyVars, ScrapeTypeOK
<1>3. \A n \in Outcomes : counters[n] \in Nat /\ counters'[n] \in Nat /\ shown[n] \in Nat
  BY <1>1 DEF IInv, TypeOK, Outcomes, CounterNames, ScrapeTypeOK
<1>4. \A n \in Outcomes : counters[n] <= counters'[n]
  BY <1>3, OutcomeStep DEF Idles, Comes, FailsBy, Completes, Other, OneMore
<1>5. FailuresRead'
  BY <1>2, <1>3, <1>4 DEF FailuresRead
<1>6. TransfersInSight'
  <2>1. /\ Unlisted \in SUBSET Conns /\ Unlisted' \in SUBSET Conns
        /\ Cardinality(Unlisted) \in Nat /\ Cardinality(Unlisted') \in Nat
        /\ Cardinality(begun \ rows) \in Nat /\ before \in Nat
    <3>1. Unlisted \in SUBSET Conns /\ Unlisted' \in SUBSET Conns /\ begun \ rows \in SUBSET Conns
      BY <1>2 DEF ScrapeTypeOK, Unlisted
    <3> QED BY <3>1, SizeFacts DEF ScrapeTypeOK
  <2>2. ASSUME before + Cardinality(Unlisted) <= counters["completed"]
        PROVE  before + Cardinality(Unlisted') <= counters'["completed"]
    <3>1. CASE Transferring \subseteq Transferring'
      <4>1. Unlisted' \subseteq Unlisted
        BY <3>1, <1>2 DEF Unlisted
      <4>2. Cardinality(Unlisted') <= Cardinality(Unlisted)
        BY <4>1, <2>1, SizeFacts
      <4> QED BY <4>2, <2>1, <2>2, <1>3, <1>4 DEF Outcomes
    <3>2. ASSUME NEW c \in Conns, Completes(c)
          PROVE  before + Cardinality(Unlisted') <= counters'["completed"]
      <4>1. Unlisted' \subseteq Unlisted \cup {c}
        BY <3>2, <1>2 DEF Completes, Unlisted
      <4>2. /\ Cardinality(Unlisted \cup {c}) \in Nat
            /\ Cardinality(Unlisted') <= Cardinality(Unlisted \cup {c})
        <5>1. Unlisted \cup {c} \in SUBSET Conns
          BY <2>1
        <5> QED BY <4>1, <5>1, SizeFacts
      <4>3. Cardinality(Unlisted \cup {c}) <= Cardinality(Unlisted) + 1
        <5>1. CASE c \in Unlisted
          <6>1. Unlisted \cup {c} = Unlisted
            BY <5>1
          <6> QED BY <6>1, <2>1
        <5>2. CASE c \notin Unlisted
          BY <5>2, <2>1, SizeFacts
        <5> QED BY <5>1, <5>2
      <4>4. counters'["completed"] = counters["completed"] + 1
        BY <3>2 DEF Completes, OneMore
      <4> QED BY <4>2, <4>3, <4>4, <2>1, <2>2, <1>3 DEF Outcomes
    <3> QED BY <3>1, <3>2, OutcomeStep DEF Idles, Comes, FailsBy
  <2>3. "completed" \in Outcomes
    BY DEF Outcomes
  <2> QED BY <2>1, <2>2, <2>3, <1>2, <1>3, <1>4 DEF TransfersInSight
<1> QED BY <1>1, <1>2, <1>5, <1>6

\* The scrape goes on: a connection is listed before it can be counted.
LEMMA ScrapeGoesOn ==
  ASSUME WatchedInv, ScrapeStep, UNCHANGED vars
  PROVE  WatchedInv'
<1> USE DEF WatchedInv
<1>1. /\ pc' = pc /\ counters' = counters /\ listed' = listed /\ Transferring' = Transferring
      /\ \A n \in Outcomes : counters[n] \in Nat /\ shown[n] \in Nat
  BY DEF vars, relayVars, Transferring, IInv, TypeOK, Outcomes, CounterNames, ScrapeTypeOK
<1>2. IInv' /\ Conserved'
  <2>1. IInv'
    BY InvariantStep
  <2> QED BY <2>1, <1>1 DEF Conserved, Undecided
<1>3. CASE StartScrape
  <2>1. /\ at = "idle" /\ at' = "listing" /\ rows' = {} /\ unvisited' = Conns /\ shown' = shown
        /\ begun' = Transferring /\ before' = counters["completed"]
    BY <1>3 DEF StartScrape, Advance, After
  <2>2. Transferring \subseteq Conns
    BY DEF Transferring
  <2>3. Unlisted' = {}
    BY <2>1, <2>2, <1>1 DEF Unlisted
  <2>4. before' + Cardinality(Unlisted') <= counters'["completed"]
    BY <2>1, <2>3, <1>1, FS_EmptySet DEF Outcomes
  <2>5. ScrapeTypeOK' /\ FailuresRead' /\ (at = "idle" => rows = {})'
    BY <2>1, <2>2, <1>1 DEF ScrapeTypeOK, FailuresRead, Outcomes
  <2>6. TransfersInSight'
    BY <2>1, <2>4 DEF TransfersInSight
  <2> QED BY <2>5, <2>6, <1>2
<1>4. ASSUME NEW c \in Conns, Visit(c) PROVE WatchedInv'
  <2>1. /\ at = "listing" /\ at' = at /\ c \in unvisited /\ unvisited' = unvisited \ {c}
        /\ rows' = IF c \in listed THEN rows \cup {c} ELSE rows
        /\ shown' = shown /\ begun' = begun /\ before' = before
    BY <1>4 DEF Visit, historyVars
  <2>2. c \in Transferring => c \in listed
    BY DEF IInv, Listing, Transferring
  <2>3. Unlisted' \subseteq Unlisted /\ Unlisted \in SUBSET Conns
    BY <2>1, <2>2, <1>1 DEF ScrapeTypeOK, Unlisted
  <2>4. /\ Cardinality(Unlisted') <= Cardinality(Unlisted)
        /\ Cardinality(Unlisted) \in Nat /\ Cardinality(Unlisted') \in Nat
    BY <2>3, SizeFacts
  <2>5. before + Cardinality(Unlisted) <= counters["completed"]
    BY <2>1 DEF TransfersInSight
  <2>6. before' + Cardinality(Unlisted') <= counters'["completed"]
    BY <2>1, <2>4, <2>5, <1>1 DEF ScrapeTypeOK, Outcomes
  <2> QED BY <2>1, <2>6, <1>1, <1>2 DEF ScrapeTypeOK, FailuresRead, TransfersInSight
<1>5. CASE EndList
  <2>1. /\ at = "listing" /\ at' = "queueFull" /\ unvisited = {} /\ UNCHANGED <<unvisited, rows, shown, begun, before>>
    BY <1>5 DEF historyVars, EndList, Advance, After
  <2>2. Unlisted = begun \ rows
    BY <2>1 DEF Unlisted
  <2> QED BY <2>1, <2>2, <1>1, <1>2 DEF ScrapeTypeOK, FailuresRead, TransfersInSight
<1>6. ASSUME NEW from \in {"queueFull", "dialErrors", "unknown"}, Advance(from),
             NEW n \in Outcomes, Show({n}), UNCHANGED <<unvisited, rows, begun, before>>
      PROVE  WatchedInv'
  <2>1. at = from /\ at' \in {"dialErrors", "unknown", "accepted"}
    BY <1>6 DEF Advance, After
  <2>2. shown' \in [Outcomes -> Nat] /\ \A m \in Outcomes : shown'[m] <= counters'[m]
    BY <1>6, <1>1 DEF Show, FailuresRead
  <2>3. ScrapeTypeOK' /\ FailuresRead' /\ (at = "idle" => rows = {})'
    BY <2>1, <2>2, <1>6 DEF ScrapeTypeOK, FailuresRead
  <2>4. TransfersInSight'
    BY <2>1, <1>6, <1>1 DEF TransfersInSight
  <2> QED BY <2>3, <2>4, <1>2
<1>7. CASE ReadAccepted
  <2>1. at = "accepted" /\ at' = "completed" /\ UNCHANGED <<unvisited, rows, begun, before>> /\ Show({"accepted"})
    BY <1>7 DEF historyVars, ReadAccepted, Advance, After
  <2>2. shown' \in [Outcomes -> Nat] /\ \A m \in Outcomes : shown'[m] <= counters'[m]
    BY <2>1, <1>1 DEF Show, FailuresRead
  <2>3. /\ shown'["accepted"] = counters["accepted"]
        /\ \A m \in FailureNames : shown'[m] = shown[m] /\ shown[m] <= counters[m]
    BY <2>1 DEF Show, FailureNames, Outcomes, FailuresRead
  <2>4. Failures(counters) <= counters["accepted"]
    <3>1. Cardinality(Undecided) \in Nat
      BY SizeFacts DEF Undecided
    <3> QED BY <3>1, <1>1 DEF Conserved, Failures, Outcomes
  <2>5. Failures(shown') <= shown'["accepted"]
    BY <2>3, <2>4, <1>1 DEF Failures, FailureNames, Outcomes
  <2> QED BY <2>1, <2>2, <2>5, <1>1, <1>2 DEF ScrapeTypeOK, FailuresRead, TransfersInSight
<1>8. CASE ReadCompleted
  <2>1. at = "completed" /\ at' = "done" /\ UNCHANGED <<unvisited, rows, begun, before>> /\ Show({"completed"})
    BY <1>8 DEF historyVars, ReadCompleted, Advance, After
  <2>2. shown' \in [Outcomes -> Nat] /\ \A m \in Outcomes : shown'[m] <= counters'[m]
    BY <2>1, <1>1 DEF Show, FailuresRead
  <2>3. /\ shown'["completed"] = counters["completed"] /\ shown'["accepted"] = shown["accepted"]
        /\ Failures(shown') = Failures(shown)
    BY <2>1 DEF Show, Failures, Outcomes
  <2> QED BY <2>1, <2>2, <2>3, <1>1, <1>2 DEF ScrapeTypeOK, FailuresRead, TransfersInSight
<1> QED BY <1>3, <1>4, <1>5, <1>6, <1>7, <1>8
        DEF historyVars, ScrapeStep, ReadQueueFull, ReadDialErrors, ReadUnknown, Outcomes

\* The relays and a scrape together keep the invariant.
THEOREM WatchedInvariance == WatchedSpec => []WatchedInv
<1>1. WatchedInv /\ [WatchedNext]_<<vars, scrapeVars>> => WatchedInv'
  <2> SUFFICES ASSUME WatchedInv, [WatchedNext]_<<vars, scrapeVars>> PROVE WatchedInv'
    OBVIOUS
  <2>1. CASE [Next]_vars /\ UNCHANGED scrapeVars
    BY <2>1, RelaysGoOn
  <2>2. CASE ScrapeStep /\ UNCHANGED vars
    BY <2>2, ScrapeGoesOn
  <2> QED BY <2>1, <2>2 DEF WatchedNext
<1> QED BY <1>1, WatchedInitInv, PTL DEF WatchedSpec

\* A scrape misses no transfer that had begun before it.
THEOREM ScrapeMissesNoTransfer == WatchedSpec => []NoTransferMissed
<1>1. WatchedInv => NoTransferMissed
  <2> SUFFICES ASSUME WatchedInv, at = "done"
               PROVE  shown["completed"] >= before + Cardinality(begun \ rows)
    BY DEF NoTransferMissed, Scraped
  <2>1. Cardinality(begun \ rows) \in Nat /\ shown["completed"] \in Nat /\ before \in Nat
    <3>1. begun \ rows \in SUBSET Conns
      BY DEF WatchedInv, ScrapeTypeOK
    <3> QED BY <3>1, SizeFacts DEF WatchedInv, ScrapeTypeOK, Outcomes
  <2> QED BY <2>1 DEF WatchedInv, TransfersInSight
<1> QED BY <1>1, WatchedInvariance, PTL

\* A scrape shows no more failures than connections accepted.
THEOREM ScrapeFailuresWithin == WatchedSpec => []FailuresWithinAccepted
<1>1. WatchedInv => FailuresWithinAccepted
  BY DEF WatchedInv, FailuresRead, Failures, FailuresWithinAccepted, Scraped
<1> QED BY <1>1, WatchedInvariance, PTL
=============================================================================
