----------------------------- MODULE QueueCore -----------------------------
(***************************************************************************)
(* pkg/queue/queue.go: the state of one Queue and its critical sections.   *)
(* Every operation holds q.mu from its first to its last access, so each   *)
(* is one step.  A handle stands for its status channel: releaseFromHandle *)
(* finds a handle in the lists by comparing channels.  This module has no  *)
(* behaviour of its own; Queue.tla and Relay.tla compose its operations    *)
(* with the life of the handles.                                           *)
(***************************************************************************)
EXTENDS Integers, Sequences, FiniteSets, SequencesExt

CONSTANTS Handles,          \* the handles Acquire may return
          Limits,           \* values max_active_connections may take
          QueueLimits       \* values max_queued_connections may take

ASSUME HandlesAssumption == IsFiniteSet(Handles)
ASSUME LimitsAssumption == Limits \subseteq Nat /\ QueueLimits \subseteq Nat

VARIABLES max, maxQueued,   \* the limits; max = 0 means no limit on active,
                            \* maxQueued = 0 none on queued
          active,           \* handles holding a slot (q.active, unordered:
                            \* nothing in the code depends on its order)
          queued,           \* handles waiting, first come first (q.queued)
          chan              \* chan[h]: the channel behind h.C, capacity 1

queueVars == <<max, maxQueued, active, queued, chan>>

---------------------------------------------------------------------------
(* Status values *)

Granted == [Index |-> 0, Max |-> 0, Ok |-> TRUE, Full |-> FALSE]
Rejected == [Index |-> 0, Max |-> 0, Ok |-> FALSE, Full |-> TRUE]
Position(i, m) == [Index |-> i, Max |-> m, Ok |-> FALSE, Full |-> FALSE]
Status == [Index : Int, Max : Int, Ok : BOOLEAN, Full : BOOLEAN]

IsFinal(st) == st.Ok \/ st.Full

(* Channels.  Send is the blocking send: a channel that ends up with two   *)
(* values is one on which the sender would have blocked holding q.mu.      *)
NoChannel == [buf |-> << >>, closed |-> FALSE]
Send(c, st) == [c EXCEPT !.buf = Append(c.buf, st)]
Close(c) == [c EXCEPT !.closed = TRUE]
Drain(c) == [c EXCEPT !.buf = IF c.buf = << >> THEN << >> ELSE Tail(c.buf)]
\* Mutant: the channel is not drained before the send.
TrySendFull(c, st) == Send(c, st)

TrySend(c, st) == Send(Drain(c), st)

---------------------------------------------------------------------------
(* Helpers on the two lists *)

Waiting == ToSet(queued)

\* Mutant: the head of the line is taken out instead of h.
PlaceOfHead(h) == 1

Place(h) == CHOOSE i \in DOMAIN queued : queued[i] = h

\* A slot is free: the condition of Acquire's first case and of the
\* promotion loop, n being the number of active handles.
HasRoom(n) == max = 0 \/ n < max

\* Mutants of Promotable: the leaving handle is still counted; the loop's
\* comparison is <= instead of <.
PromotableStale(n) ==
  IF max = 0 \/ n + 1 + Len(queued) <= max THEN Len(queued)
  ELSE IF n + 1 < max THEN max - n - 1 ELSE 0

PromotableOver(n) ==
  IF max = 0 \/ n + Len(queued) <= max + 1 THEN Len(queued)
  ELSE IF n <= max THEN max + 1 - n ELSE 0

\* How many waiters the promotion loop pops when it starts from n active
\* handles: popHead runs while a waiter is left and there is room.
Promotable(n) ==
  IF max = 0 \/ n + Len(queued) <= max THEN Len(queued)
  ELSE IF n < max THEN max - n ELSE 0

\* Mutant: positions counted from 1.
BroadcastFromOne(ch, q, n) ==
  [h \in Handles |->
     IF h \in ToSet(q)
     THEN LET i == CHOOSE j \in DOMAIN q : q[j] = h
          IN TrySend(ch[h], Position(n - max + i, n - max + Len(q)))
     ELSE ch[h]]

\* broadcastStatus: every handle of the line q is told its position, n being
\* the number of active handles.
Broadcast(ch, q, n) ==
  [h \in Handles |->
     IF h \in ToSet(q)
     THEN LET i == CHOOSE j \in DOMAIN q : q[j] = h
          IN TrySend(ch[h], Position(n - max + i - 1, n - max + Len(q)))
     ELSE ch[h]]

---------------------------------------------------------------------------
(* Acquire: the three cases of its switch, for a new handle h.             *)

Admit(h) ==
  /\ HasRoom(Cardinality(active))
  /\ active' = active \cup {h}
  /\ chan' = [chan EXCEPT ![h] = Close(Send(NoChannel, Granted))]
  /\ UNCHANGED <<max, maxQueued, queued>>

\* Mutant: one waiter too many.
LineIsOverfull == maxQueued > 0 /\ Len(queued) > maxQueued

LineIsFull == maxQueued > 0 /\ Len(queued) >= maxQueued

Reject(h) ==
  /\ ~HasRoom(Cardinality(active))
  /\ LineIsFull
  /\ chan' = [chan EXCEPT ![h] = Close(Send(NoChannel, Rejected))]
  /\ UNCHANGED <<max, maxQueued, active, queued>>

\* The handles already waiting are not told that the line grew.
Enqueue(h) ==
  /\ ~HasRoom(Cardinality(active))
  /\ ~LineIsFull
  /\ queued' = Append(queued, h)
  /\ LET surplus == Cardinality(active) - max
         len == Len(queued) + 1
     IN chan' = [chan EXCEPT ![h] =
                   Send(NoChannel, Position(surplus + len - 1, surplus + len))]
  /\ UNCHANGED <<max, maxQueued, active>>

AcquireSlot(h) == Admit(h) \/ Reject(h) \/ Enqueue(h)

---------------------------------------------------------------------------
(* releaseFromHandle: a waiter leaves the line; any other handle frees its *)
(* slot, if it has one, and the heads of the line are promoted.            *)

LeaveLine(h) ==
  /\ h \in Waiting
  /\ queued' = RemoveAt(queued, Place(h))
  /\ chan' = Broadcast(chan, queued', Cardinality(active))
  /\ UNCHANGED <<max, maxQueued, active>>

\* Mutant: the channel is closed without the last status.
PromoteSilently(ch, hs) == [g \in Handles |-> IF g \in hs THEN Close(ch[g]) ELSE ch[g]]

Promote(ch, hs) ==
  [g \in Handles |-> IF g \in hs THEN Close(TrySend(ch[g], Granted)) ELSE ch[g]]

\* Mutants of FreeSlot: the last in the line is promoted; slots are counted, so
\* that a release by a handle without a slot frees somebody else's.
FreeSlotLifo(h) ==
  /\ h \notin Waiting
  /\ LET rest == active \ {h}
         left == Len(queued) - Promotable(Cardinality(rest))
         promoted == ToSet(SubSeq(queued, left + 1, Len(queued)))
     IN /\ active' = rest \cup promoted
        /\ queued' = SubSeq(queued, 1, left)
        /\ chan' = Broadcast(Promote(chan, promoted), queued', Cardinality(active'))
  /\ UNCHANGED <<max, maxQueued>>

FreeAnySlot(h) ==
  /\ h \notin Waiting
  /\ active' = IF h \in active \/ active = {} THEN active \ {h}
               ELSE active \ {CHOOSE g \in active : TRUE}
  /\ UNCHANGED <<max, maxQueued, queued, chan>>

FreeSlot(h) ==
  /\ h \notin Waiting
  /\ LET rest == active \ {h}
         n == Promotable(Cardinality(rest))
         promoted == ToSet(SubSeq(queued, 1, n))
     IN /\ active' = rest \cup promoted
        /\ queued' = SubSeq(queued, n + 1, Len(queued))
        /\ chan' = Broadcast(Promote(chan, promoted), queued', Cardinality(active'))
  /\ UNCHANGED <<max, maxQueued>>

ReleaseFromHandle(h) == LeaveLine(h) \/ FreeSlot(h)

---------------------------------------------------------------------------
\* Mutant: limits stored as the last index.
SetMaxAsIndex(m, mq) ==
  /\ max' = m - 1 /\ maxQueued' = mq - 1
  /\ UNCHANGED <<active, queued, chan>>

\* SetMax only stores the limits: no waiter is promoted or told.
SetMax(m, mq) ==
  /\ max' = m /\ maxQueued' = mq
  /\ UNCHANGED <<active, queued, chan>>

\* A receive from h.C by the handle's owner; st is what it gets.
Receive(h, st) ==
  /\ chan[h].buf # << >>
  /\ st = Head(chan[h].buf)
  /\ chan' = [chan EXCEPT ![h].buf = Tail(@)]
  /\ UNCHANGED <<max, maxQueued, active, queued>>

QueueInit ==
  /\ max \in Limits /\ maxQueued \in QueueLimits
  /\ active = {} /\ queued = << >>
  /\ chan = [h \in Handles |-> NoChannel]

---------------------------------------------------------------------------
(* Properties of the queue, whoever uses it                                *)

\* No goroutine can block or panic on a channel while it holds q.mu: a channel
\* never holds more than its capacity, a waiter's channel is open (it will be
\* sent to) and the channel of a slot holder is closed (it will not).
ChannelDiscipline ==
  \A h \in Handles :
    /\ Len(chan[h].buf) <= 1
    /\ h \in Waiting => ~chan[h].closed
    /\ h \in active => chan[h].closed

\* Waiters never wait for nobody: while the line is not empty some handle holds
\* a slot, so a release is still to come that will promote.
NeverStuck == queued # << >> => active # {}
=============================================================================
