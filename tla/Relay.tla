------------------------------- MODULE Relay -------------------------------
(***************************************************************************)
(* pkg/server/server.go, handleConn and relay: one goroutine per accepted  *)
(* connection, from the counters of handleConn through the queue of the    *)
(* upstream to the deferred clean-up.  All connections ask for modules of  *)
(* one upstream, or for none; "Queueing is isolated per upstream", so this *)
(* is the whole interaction between relays.  A handle of the queue is      *)
(* named by its connection: relay acquires once.  The byte copying between *)
(* the two connections is the step EndCopy here and module Duplex there.   *)
(***************************************************************************)
EXTENDS QueueCore

VARIABLES pc,               \* pc[c]: where the goroutine of c is
          client,           \* client[c]: the peer while c is queued
          upConns,          \* connections with an open upConn
          listed,           \* keys of s.connInfo
          counters          \* the server's counters

relayVars == <<pc, client, upConns, listed, counters>>
vars == <<queueVars, relayVars>>

Conns == Handles

CounterNames == {"active", "accepted", "unknown", "queueFull", "dialError", "completed"}

Counted(name) == counters' = [counters EXCEPT ![name] = @ + 1]

\* The goroutine of c goes from one place to another.
Go(c, from, to) == pc[c] = from /\ pc' = [pc EXCEPT ![c] = to]

---------------------------------------------------------------------------
\* handleConn: activeConnCount and acceptedConnCount, then relay.
Accept(c) ==
  /\ Go(c, "away", "entered")
  /\ counters' = [counters EXCEPT !["active"] = @ + 1, !["accepted"] = @ + 1]
  /\ UNCHANGED <<queueVars, client, upConns, listed>>

StoreInfo(c) ==
  /\ Go(c, "entered", "greeting")
  /\ listed' = listed \cup {c}
  /\ UNCHANGED <<queueVars, client, upConns, counters>>

\* The exchange with the client up to its request.  Any read or write may fail
\* (a timeout, a lost client, no rsync client): relay returns, as it does when
\* the client only wants the list of modules.
GreetFails(c) ==
  /\ Go(c, "greeting", "deleting")
  /\ UNCHANGED <<queueVars, client, upConns, listed, counters>>

UnknownModule(c) ==
  /\ Go(c, "greeting", "deleting")
  /\ Counted("unknown")
  /\ UNCHANGED <<queueVars, client, upConns, listed>>

\* The module is known: its target and the queue of the upstream are looked up
\* and a slot is asked for.
Request(c) ==
  /\ Go(c, "greeting", "acquired")
  /\ AcquireSlot(c)
  /\ UNCHANGED <<client, upConns, listed, counters>>

---------------------------------------------------------------------------
(* The queue.  A write to a client that has vanished succeeds until TCP    *)
(* finds out; a write to one that is there may still time out.             *)

WriteOK(c) ==
  /\ client[c] # "lost"
  /\ client' = [client EXCEPT ![c] = IF @ = "vanished" THEN "unacked" ELSE @]

\* The first status, sent by Acquire or by a promotion or broadcast since.
FirstStatus(c, st) ==
  /\ pc[c] = "acquired"
  /\ Receive(c, st)
  /\ pc' = [pc EXCEPT ![c] = IF st.Full THEN "releasing"
                             ELSE IF st.Ok THEN "dialing" ELSE "notifying"]
  /\ IF st.Full THEN Counted("queueFull") ELSE UNCHANGED counters
  /\ UNCHANGED <<client, upConns, listed>>

SendNotice(c) ==
  /\ Go(c, "notifying", "queueing")
  /\ WriteOK(c)
  /\ UNCHANGED <<queueVars, upConns, listed, counters>>

\* Mutant: the return before the deferred Release is registered.
NoticeFailsUnreleased(c) ==
  /\ Go(c, "notifying", "deleting")
  /\ UNCHANGED <<queueVars, client, upConns, listed, counters>>

NoticeFails(c) ==
  /\ Go(c, "notifying", "releasing")
  /\ UNCHANGED <<queueVars, client, upConns, listed, counters>>

\* case status = <-handle.C
NextStatus(c, st) ==
  /\ pc[c] = "queueing"
  /\ Receive(c, st)
  /\ pc' = [pc EXCEPT ![c] = IF st.Ok THEN "dialing" ELSE "notifying"]
  /\ UNCHANGED <<client, upConns, listed, counters>>

\* Mutant: the timer wakes the relay, which sends nothing.
TickSilently(c) ==
  /\ Go(c, "queueing", "queueing")
  /\ UNCHANGED <<queueVars, client, upConns, listed, counters>>

\* case <-time.After(1 * time.Minute): the last position is sent again.
Tick(c) ==
  /\ Go(c, "queueing", "notifying")
  /\ UNCHANGED <<queueVars, client, upConns, listed, counters>>

---------------------------------------------------------------------------
(* The upstream *)

DialFails(c) ==
  /\ Go(c, "dialing", "releasing")
  /\ Counted("dialError")
  /\ UNCHANGED <<queueVars, client, upConns, listed>>

Dial(c) ==
  /\ Go(c, "dialing", "connected")
  /\ upConns' = upConns \cup {c}
  /\ UNCHANGED <<queueVars, client, listed, counters>>

\* Proxy protocol header, versions, motd and module name: an error at any of
\* them returns (HandshakeFails), else the copying begins.
Handshake(c) ==
  /\ Go(c, "connected", "copying")
  /\ UNCHANGED <<queueVars, client, upConns, listed, counters>>

\* Mutant: an error return that leaves upConn open.
HandshakeFailsUnclosed(c) ==
  /\ Go(c, "connected", "releasing")
  /\ UNCHANGED <<queueVars, client, upConns, listed, counters>>

HandshakeFails(c) ==
  /\ Go(c, "connected", "closing")
  /\ UNCHANGED <<queueVars, client, upConns, listed, counters>>

\* Both copying goroutines have ended and the totals are added up.
EndCopy(c) ==
  /\ Go(c, "copying", "closing")
  /\ Counted("completed")
  /\ UNCHANGED <<queueVars, client, upConns, listed>>

---------------------------------------------------------------------------
(* The deferred calls, last registered first.                              *)

\* Mutant: the information on the connection goes first.
CloseUpstreamUnlisted(c) ==
  /\ Go(c, "closing", "releasing")
  /\ upConns' = upConns \ {c} /\ listed' = listed \ {c}
  /\ UNCHANGED <<queueVars, client, counters>>

CloseUpstream(c) ==
  /\ Go(c, "closing", "releasing")
  /\ upConns' = upConns \ {c}
  /\ UNCHANGED <<queueVars, client, listed, counters>>

Release(c) ==
  /\ Go(c, "releasing", "deleting")
  /\ ReleaseFromHandle(c)
  /\ UNCHANGED <<client, upConns, listed, counters>>

DeleteInfo(c) ==
  /\ Go(c, "deleting", "leaving")
  /\ listed' = listed \ {c}
  /\ UNCHANGED <<queueVars, client, upConns, counters>>

\* Mutant: the gauge goes down twice.
LeaveDouble(c) ==
  /\ Go(c, "leaving", "gone")
  /\ counters' = [counters EXCEPT !["active"] = @ - 2]
  /\ UNCHANGED <<queueVars, client, upConns, listed>>

\* downConn is closed and handleConn returns.
Leave(c) ==
  /\ Go(c, "leaving", "gone")
  /\ counters' = [counters EXCEPT !["active"] = @ - 1]
  /\ UNCHANGED <<queueVars, client, upConns, listed>>

---------------------------------------------------------------------------
(* The environment *)

\* The client goes away while relay holds it in the queue, where it is never
\* read from.  (Elsewhere a lost client makes a read or write fail, which those
\* steps may do anyway.)
Vanish(c) ==
  /\ pc[c] \in {"acquired", "notifying", "queueing"}
  /\ client[c] = "there"
  /\ client' = [client EXCEPT ![c] = "vanished"]
  /\ UNCHANGED <<queueVars, pc, upConns, listed, counters>>

\* TCP gives up on data that a vanished client does not acknowledge.
Lose(c) ==
  /\ client[c] = "unacked"
  /\ client' = [client EXCEPT ![c] = "lost"]
  /\ UNCHANGED <<queueVars, pc, upConns, listed, counters>>

Reload == \E m \in Limits, mq \in QueueLimits : SetMax(m, mq) /\ UNCHANGED relayVars

Terminated == (\A c \in Conns : pc[c] = "gone") /\ UNCHANGED vars

---------------------------------------------------------------------------
Init ==
  /\ QueueInit
  /\ pc = [c \in Conns |-> "away"]
  /\ client = [c \in Conns |-> "there"]
  /\ upConns = {} /\ listed = {}
  /\ counters = [n \in CounterNames |-> 0]

Greet(c) == GreetFails(c) \/ UnknownModule(c) \/ Request(c)

Hear(c) == \E st \in ToSet(chan[c].buf) : FirstStatus(c, st) \/ NextStatus(c, st)

Notify(c) == SendNotice(c) \/ NoticeFails(c)

Connect(c) == DialFails(c) \/ Dial(c)

Exchange(c) == Handshake(c) \/ HandshakeFails(c)

CleanUp(c) == CloseUpstream(c) \/ Release(c) \/ DeleteInfo(c) \/ Leave(c)

Next ==
  \/ \E c \in Conns :
        \/ Accept(c) \/ StoreInfo(c) \/ Greet(c) \/ Hear(c) \/ Notify(c) \/ Tick(c)
        \/ Connect(c) \/ Exchange(c) \/ EndCopy(c) \/ CleanUp(c)
        \/ Vanish(c) \/ Lose(c)
  \/ Reload
  \/ Terminated

Spec == Init /\ [][Next]_vars

\* The scheduler runs every goroutine, the timer of the select fires, writes
\* and TCP's retransmission have deadlines.  Strong fairness on Hear: each turn
\* of the loop starts a new timer, so a status that is ready when the select
\* begins is received, and Tick cannot be preferred for ever.  Nothing is said
\* of clients and upstreams: an exchange with them may last forever.
QueueFairness ==
  \A c \in Conns :
    /\ SF_vars(Hear(c)) /\ WF_vars(Notify(c)) /\ WF_vars(Tick(c)) /\ WF_vars(CleanUp(c))
    /\ WF_vars(Lose(c))

QueueFairSpec == Spec /\ QueueFairness

\* In addition every exchange ends: reads from clients and upstreams have a
\* timeout (ReadTimeout), dialing has the system's, transfers finish.
ExchangesEnd ==
  \A c \in Conns :
    /\ WF_vars(StoreInfo(c)) /\ WF_vars(Greet(c)) /\ WF_vars(Connect(c))
    /\ WF_vars(Exchange(c)) /\ WF_vars(EndCopy(c))

---------------------------------------------------------------------------
(* Properties *)

InFlight == {c \in Conns : pc[c] \notin {"away", "gone"}}

\* The state has its type.
TypeOK ==
  /\ pc \in [Conns -> {"away", "entered", "greeting", "acquired", "notifying", "queueing",
                       "dialing", "connected", "copying", "closing", "releasing",
                       "deleting", "leaving", "gone"}]
  /\ client \in [Conns -> {"there", "vanished", "unacked", "lost"}]
  /\ upConns \subseteq Conns /\ listed \subseteq Conns
  /\ counters \in [CounterNames -> Nat]

\* A connection to the upstream is open only while its relay holds a slot, so
\* the upstream never sees more connections than there are slots taken: on
\* every way out of relay upConn is closed before the slot is given up.
UpstreamWithinSlots == upConns \subseteq active

\* A relay that dials, or talks to the upstream, has been granted a slot and
\* keeps it; one that has ended has left the queue, whichever return it took.
SlotWhileNeeded ==
  \A c \in Conns :
    /\ pc[c] \in {"dialing", "connected", "copying", "closing"} => c \in active
    /\ pc[c] \in {"deleting", "leaving", "gone"} => c \notin active \cup Waiting

\* What /status lists and the gauge of active connections counts is never less
\* than what occupies the upstream's slots and its line.
OccupantsListed ==
  /\ active \cup Waiting \subseteq listed
  /\ listed \subseteq InFlight
  /\ counters["active"] = Cardinality(InFlight)

\* A client that has vanished while queued gives up its place in the line in
\* the end, even if no slot is ever freed and nobody else moves: only the
\* repeated notice (Tick) can find it out.
VanishedLeaves ==
  \A c \in Conns : (client[c] # "there" /\ c \in Waiting) ~> c \notin Waiting

\* If every exchange ends and the limits stop changing, every accepted
\* connection comes to its end.
EveryRelayEnds ==
  ExchangesEnd /\ <>[][UNCHANGED <<max, maxQueued>>]_vars
    => \A c \in Conns : pc[c] = "entered" ~> pc[c] = "gone"
=============================================================================
