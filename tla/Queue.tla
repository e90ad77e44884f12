------------------------------- MODULE Queue -------------------------------
(***************************************************************************)
(* pkg/queue/queue.go with the life of its handles: Acquire, receiving     *)
(* from h.C, Release by the owner (any number of times, at any moment) and *)
(* the release that runtime.AddCleanup runs when the handle is garbage.    *)
(* Owner and cleanup run the same unsynchronised release(): the check of   *)
(* the flag and the critical section are separate steps, and a check need  *)
(* not see the write of the other goroutine.                               *)
(***************************************************************************)
EXTENDS QueueCore

CONSTANTS Forgetful,        \* handles whose owner may drop them unreleased
          Repeating         \* handles whose owner may call Release again

ASSUME OwnersAssumption == Forgetful \subseteq Handles /\ Repeating \subseteq Handles

VARIABLES held,             \* handles their owner can still reach
          pc,               \* pc[h][who]: where who is in release() on h
          released,         \* released[h]: who has written h.i.released
          told              \* told[h]: last status the owner received

handleVars == <<held, pc, released, told>>
vars == <<queueVars, handleVars>>

Agents == {"owner", "cleanup"}
Silence == Position(0, 0)   \* the zero Status: nothing received yet

---------------------------------------------------------------------------
\* A handle value not in use: never acquired, or collected with its cleanup run.
Fresh(h) == h \notin held /\ pc[h] = [owner |-> "out", cleanup |-> "ran"]

Acquire(h) ==
  /\ Fresh(h)
  /\ AcquireSlot(h)
  /\ held' = held \cup {h}
  /\ pc' = [pc EXCEPT ![h].cleanup = "armed"]
  /\ released' = [released EXCEPT ![h] = {}]
  /\ told' = [told EXCEPT ![h] = Silence]

\* The owner still waits for or uses what h gives: it has not called Release.
Listening(h) == h \in held /\ pc[h].owner = "out" /\ released[h] = {}

\* The owner reads h.C until it has its final status.
Listen(h) ==
  /\ Listening(h) /\ ~IsFinal(told[h])
  /\ \E st \in ToSet(chan[h].buf) :
        /\ Receive(h, st)
        /\ told' = [told EXCEPT ![h] = st]
  /\ UNCHANGED <<held, pc, released>>

\* Release: h.i is loaded.  If this was the last use of h, the collector may
\* run the cleanup while release() is still in progress.  What the owner was
\* told no longer matters: it does not listen again.
CallRelease(h) ==
  /\ h \in held /\ pc[h].owner = "out"
  /\ held' = held \ {h} \/ (h \in Repeating /\ held' = held)
  /\ pc' = [pc EXCEPT ![h].owner = "called"]
  /\ told' = [told EXCEPT ![h] = Silence]
  /\ UNCHANGED <<queueVars, released>>

Forget(h) ==
  /\ h \in held \cap Forgetful /\ pc[h].owner = "out"
  /\ held' = held \ {h}
  /\ told' = [told EXCEPT ![h] = Silence]
  /\ UNCHANGED <<queueVars, pc, released>>

\* Where a goroutine is once release() has returned.
Returned(who) == IF who = "owner" THEN "out" ELSE "ran"

\* About to read h.released: the owner that called Release, or the cleanup, at
\* any time after h became unreachable.
AtCheck(h, who) ==
  IF who = "owner" THEN pc[h].owner = "called"
  ELSE h \notin held /\ pc[h].cleanup = "armed"

\* if h.released { return }: a goroutine sees its own write for sure, the
\* other's possibly.
SeeReleased(h, who) ==
  /\ AtCheck(h, who)
  /\ released[h] # {}
  /\ pc' = [pc EXCEPT ![h][who] = Returned(who)]
  /\ UNCHANGED <<queueVars, held, released, told>>

\* Else the flag is written.  One step with the check: the other goroutine may
\* pass its own check before and after the write alike.
MarkReleased(h, who) ==
  /\ AtCheck(h, who)
  /\ who \notin released[h]
  /\ released' = [released EXCEPT ![h] = @ \cup {who}]
  /\ pc' = [pc EXCEPT ![h][who] = "marked"]
  /\ UNCHANGED <<queueVars, held, told>>

Withdraw(h, who) ==
  /\ pc[h][who] = "marked"
  /\ ReleaseFromHandle(h)
  /\ pc' = [pc EXCEPT ![h][who] = Returned(who)]
  /\ UNCHANGED <<held, released, told>>

\* A configuration reload that keeps the upstream calls SetMax.
Reconfigure ==
  /\ \E m \in Limits, mq \in QueueLimits : SetMax(m, mq)
  /\ UNCHANGED handleVars

---------------------------------------------------------------------------
Init ==
  /\ QueueInit
  /\ held = {}
  /\ pc = [h \in Handles |-> [owner |-> "out", cleanup |-> "ran"]]
  /\ released = [h \in Handles |-> {}]
  /\ told = [h \in Handles |-> Silence]

ReleaseStep(h, who) == SeeReleased(h, who) \/ MarkReleased(h, who) \/ Withdraw(h, who)

Next ==
  \/ \E h \in Handles :
        \/ Acquire(h) \/ Listen(h) \/ CallRelease(h) \/ Forget(h)
        \/ \E who \in Agents : ReleaseStep(h, who)
  \/ Reconfigure

Spec == Init /\ [][Next]_vars

\* A goroutine inside release() goes on; an owner reads its channel; one that
\* has its verdict is done at some time and releases (relay's deferred call).
\* No fairness on Acquire, on the collector or on giving up while waiting.
Fairness ==
  \A h \in Handles :
    /\ WF_vars(Listen(h))
    /\ WF_vars(IsFinal(told[h]) /\ CallRelease(h))
    /\ WF_vars(ReleaseStep(h, "owner"))
    /\ WF_vars(Withdraw(h, "cleanup"))

FairSpec == Spec /\ Fairness

---------------------------------------------------------------------------
(* Properties *)

\* The state has its type.
TypeOK ==
  /\ max \in Nat /\ maxQueued \in Nat
  /\ active \subseteq Handles /\ queued \in Seq(Handles)
  /\ chan \in [Handles -> [buf : Seq(Status), closed : BOOLEAN]]
  /\ held \subseteq Handles
  /\ pc \in [Handles -> [owner : {"out", "called", "marked"},
                         cleanup : {"ran", "armed", "marked"}]]
  /\ released \in [Handles -> SUBSET Agents]
  /\ told \in [Handles -> Status]

\* The last status sent to h, received or not.
Latest(h) == IF chan[h].buf = << >> THEN told[h] ELSE Head(chan[h].buf)

\* h has been acquired and no release() on it has reached releaseFromHandle.
InPlay(h) ==
  /\ ~Fresh(h)
  /\ \A who \in Agents : who \in released[h] => pc[h][who] = "marked"

\* A handle in use is in exactly the list its latest status says: it holds a
\* slot exactly when it was sent Ok (no lost wake-up, no grant without a slot),
\* waits exactly when it was sent a position, and is in no list when the queue
\* was full.
GrantMatchesSlot ==
  \A h \in Handles : Listening(h) =>
    /\ h \in active <=> Latest(h).Ok
    /\ h \in Waiting <=> ~IsFinal(Latest(h))

\* A handle is never in two places, and once a release() has removed it, a
\* second release (again by the owner, or by the racing cleanup) or a promotion
\* never brings it back into a list.
InOnePlace ==
  /\ IsInjective(queued)
  /\ active \cap Waiting = {}
  /\ \A h \in Handles : ~InPlay(h) => h \notin active \cup Waiting

\* Nobody is given a slot beyond the limit in force, however the limit was
\* changed while slots were taken: above a lowered limit no slot that is given
\* back goes to another.
NoOvershoot ==
  [][active' \ active # {} => max = 0 \/ Cardinality(active') <= max]_vars

\* Nobody overtakes inside the line: when a waiter is promoted, all who stood
\* before it are promoted with it.
FifoPromotion ==
  [][\A i, j \in DOMAIN queued :
       i < j /\ queued[j] \in active' => queued[i] \in active']_vars

\* A handle loses its slot or its place in the line only by a release() called
\* on that very handle: a double release never takes another's slot.
OnlyReleasedLeave ==
  [][\A h \in active \cup Waiting :
       h \notin active' \cup ToSet(queued') => released[h] # {}]_vars

\* With constant limits: there is a line only when exactly max slots are taken.
QueueOnlyWhenFull == queued # << >> => max # 0 /\ Cardinality(active) = max

\* With constant limits: the latest position a waiter was sent is its place in
\* the line (0 for the head), and the total is between that place and the
\* length of the line (arrivals behind a waiter are not announced to it).
PositionExact ==
  \A i \in DOMAIN queued : Listening(queued[i]) =>
    LET st == Latest(queued[i])
    IN st.Index = i - 1 /\ i <= st.Max /\ st.Max <= Len(queued)

\* Once the limits stop changing, every waiter leaves the line: with slot
\* holders that finish, promotion reaches it.
WaiterServed ==
  <>[][UNCHANGED <<max, maxQueued>>]_vars
    => \A h \in Handles : h \in Waiting ~> h \notin Waiting

---------------------------------------------------------------------------
(* What a message of the code says, and the code does not do.              *)

\* "Your position: ..., Total queued: ..." (server.go:670, Index + 1): the
\* position a client is shown is one of 1, 2, ...
PositionIsPositive == \A h \in Waiting : Listening(h) => Latest(h).Index + 1 >= 1

---------------------------------------------------------------------------
\* Refinement: Queue implements Admission, channels and handles forgotten.
Verdict(st) == IF st.Ok THEN "granted" ELSE IF st.Full THEN "refused" ELSE "waiting"

Abstract == INSTANCE Admission WITH
  Clients <- Handles, limit <- max, lineLimit <- maxQueued,
  inside <- active, line <- queued,
  verdict <- [h \in Handles |-> IF Listening(h) THEN Verdict(Latest(h)) ELSE "gone"]

ImplementsAdmission == Abstract!Spec
=============================================================================
