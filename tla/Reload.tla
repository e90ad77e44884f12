------------------------------- MODULE Reload -------------------------------
(***************************************************************************)
(* pkg/server/server.go: the configuration in force, the requests that     *)
(* reload it (POST /reload), those that hold its lock across a discovery   *)
(* (GET /upstream-modules) and the relays, which look up a target and then *)
(* its upstream's queue in two separate read-locked sections.              *)
(* reloadLock is a sync.RWMutex: a writer that waits keeps new readers     *)
(* out, and lets those it kept out in when it unlocks.                     *)
(* A queue is reduced to its slots and its line; module Queue has it whole. *)
(* Left out: the addresses to listen on, which a reload cannot change, and *)
(* the contents of motd, logs and certificate, which go with the version.  *)
(***************************************************************************)
EXTENDS Integers, Sequences, FiniteSets, SequencesExt

CONSTANTS Upstreams, Modules,
          Configs,          \* the versions of the configuration file
          Relays, Reloaders, Inquirers, NoOne

Entry == [modules : SUBSET Modules, discover : BOOLEAN, max : Nat]

\* Entries of some upstreams, as a file has them or a reload has resolved them.
IsConfig(conf) == DOMAIN conf \subseteq Upstreams /\ conf \in [DOMAIN conf -> Entry]

ASSUME ConfigsAssumption ==
  /\ Len(Configs) \in Nat \ {0} /\ DOMAIN Configs = 1 .. Len(Configs)
  /\ \A v \in DOMAIN Configs : IsConfig(Configs[v])
ASSUME UpstreamsAssumption == IsFiniteSet(Upstreams) /\ Upstreams # {}
ASSUME ActorsAssumption ==
  /\ IsFiniteSet(Relays) /\ NoOne \notin Reloaders
  /\ Relays \cap Reloaders = {} /\ Relays \cap Inquirers = {} /\ Reloaders \cap Inquirers = {}

VARIABLES file,             \* the version on disk
          version,          \* the version in force
          upstreams,        \* s.upstreams, resolved; s.modules is its inverse
          queues,           \* every Queue ever made
          queueOf,          \* s.upstreamQueues: which of them serves whom
          readers, blocked, \* who holds a read lock, who waits for one
          pending,          \* the writer that holds reloadLock or is next
          pc,               \* where each goroutine is
          got,              \* what a reload has read from the file
          job               \* what a relay has looked up

confVars == <<version, upstreams, queueOf>>
lockVars == <<readers, blocked, pending>>
vars == <<file, confVars, queues, lockVars, pc, got, job>>

\* The local variables of a goroutine that has nothing to remember.
NoJob == [upstream |-> CHOOSE u \in Upstreams : TRUE, queue |-> 1]
NothingRead == [version |-> 1, resolved |-> Configs[1]]

Go(p, from, to) == pc[p] = from /\ pc' = [pc EXCEPT ![p] = to]

---------------------------------------------------------------------------
(* reloadLock *)

RLock(p) ==
  /\ IF pending = NoOne THEN readers' = readers \cup {p} /\ UNCHANGED blocked
                        ELSE blocked' = blocked \cup {p} /\ UNCHANGED readers
  /\ UNCHANGED pending

RUnlock(p) == readers' = readers \ {p} /\ UNCHANGED <<blocked, pending>>

Lock(r) == pending = NoOne /\ pending' = r /\ UNCHANGED <<readers, blocked>>

Locked(r) == pending = r /\ readers = {}

Unlock == pending' = NoOne /\ readers' = readers \cup blocked /\ blocked' = {}

---------------------------------------------------------------------------
(* A queue *)

NewQueue(u, max) == [upstream |-> u, max |-> max, active |-> {}, line |-> << >>]

SetMax(q, max) == [q EXCEPT !.max = max]

HasRoom(q) == q.max = 0 \/ Cardinality(q.active) < q.max

Joined(q, c) ==
  IF HasRoom(q) THEN [q EXCEPT !.active = @ \cup {c}] ELSE [q EXCEPT !.line = Append(@, c)]

\* How many heads of the line there is room for once only rest hold slots.
Promoted(q, rest) ==
  LET free == q.max - Cardinality(rest)
  IN IF q.max = 0 \/ free >= Len(q.line) THEN Len(q.line) ELSE IF free < 0 THEN 0 ELSE free

\* c leaves the line, or its slot (if it has one) and the heads of the line are
\* promoted.
Left(q, c) ==
  IF c \in ToSet(q.line) THEN [q EXCEPT !.line = RemoveAt(@, CHOOSE i \in DOMAIN @ : @[i] = c)]
  ELSE LET rest == q.active \ {c}
           n == Promoted(q, rest)
       IN [q EXCEPT !.active = rest \cup ToSet(SubSeq(q.line, 1, n)),
                    !.line = SubSeq(q.line, n + 1, Len(q.line))]

---------------------------------------------------------------------------
(* relay: getTargetsForModule, getQueueForUpstream, Acquire                *)

Arrive(c) ==
  /\ Go(c, "idle", "routing") /\ RLock(c)
  /\ UNCHANGED <<file, confVars, queues, got, job>>

\* One of the upstreams that have the module, by the client's address.
GetTargets(c, m) ==
  /\ c \in readers
  /\ \E u \in DOMAIN upstreams :
       /\ m \in upstreams[u].modules
       /\ job' = [job EXCEPT ![c].upstream = u]
  /\ Go(c, "routing", "routed") /\ RUnlock(c)
  /\ UNCHANGED <<file, confVars, queues, got>>

\* An unknown module, or the list of all of them: the relay is over.
NoTargets(c) ==
  /\ c \in readers
  /\ Go(c, "routing", "done") /\ RUnlock(c)
  /\ UNCHANGED <<file, confVars, queues, got, job>>

AskQueue(c) ==
  /\ Go(c, "routed", "choosing") /\ RLock(c)
  /\ UNCHANGED <<file, confVars, queues, got, job>>

GetQueue(c) ==
  /\ c \in readers
  /\ job[c].upstream \in DOMAIN queueOf
  /\ job' = [job EXCEPT ![c].queue = queueOf[job[c].upstream]]
  /\ Go(c, "choosing", "asking") /\ RUnlock(c)
  /\ UNCHANGED <<file, confVars, queues, got>>

\* "no queue configured for upstream": the client gets no answer.
NoQueue(c) ==
  /\ c \in readers
  /\ job[c].upstream \notin DOMAIN queueOf
  /\ Go(c, "choosing", "failed") /\ RUnlock(c)
  /\ job' = [job EXCEPT ![c] = NoJob]
  /\ UNCHANGED <<file, confVars, queues, got>>

QueueOf(c) == queues[job[c].queue]

Acquire(c) ==
  /\ Go(c, "asking", "waiting")
  /\ queues' = [queues EXCEPT ![job[c].queue] = Joined(@, c)]
  /\ UNCHANGED <<file, confVars, lockVars, got, job>>

\* The line may be full.
Refused(c) ==
  /\ ~HasRoom(QueueOf(c))
  /\ Go(c, "asking", "rejected")
  /\ UNCHANGED <<file, confVars, queues, lockVars, got, job>>

\* Released after the transfer, or instead of it; a rejected handle is released
\* like any other, and there may be room for the heads of the line by then.
Release(c) ==
  /\ pc[c] \in {"waiting", "rejected"} /\ pc' = [pc EXCEPT ![c] = "done"]
  /\ queues' = [queues EXCEPT ![job[c].queue] = Left(@, c)]
  /\ job' = [job EXCEPT ![c] = NoJob]
  /\ UNCHANGED <<file, confVars, lockVars, got>>

---------------------------------------------------------------------------
(* ListUpstreamModules: with force_discover the read lock is held for the  *)
(* whole conversation with the upstream.                                   *)

Inquire(i) ==
  /\ Go(i, "idle", "inquiring") /\ RLock(i)
  /\ UNCHANGED <<file, confVars, queues, got, job>>

Answer(i) ==
  /\ i \in readers
  /\ Go(i, "inquiring", "idle") /\ RUnlock(i)
  /\ UNCHANGED <<file, confVars, queues, got, job>>

---------------------------------------------------------------------------
(* ReadConfigFromFile and loadConfig                                       *)

\* Someone edits the file.
Edit ==
  /\ file < Len(Configs) /\ file' = file + 1
  /\ UNCHANGED <<confVars, queues, lockVars, pc, got, job>>

\* The file (and the key pair it names) is read before the lock is asked for.
ReadFile(r) ==
  /\ Go(r, "idle", "parsed")
  /\ got' = [got EXCEPT ![r] = [version |-> file, resolved |-> Configs[file]]]
  /\ UNCHANGED <<file, confVars, queues, lockVars, job>>

\* What is wrong with a file by itself (an address, listen_tls, the key pair) is
\* found before the lock is asked for.
InvalidFile(r) ==
  /\ Go(r, "parsed", "idle")
  /\ got' = [got EXCEPT ![r] = NothingRead]
  /\ UNCHANGED <<file, confVars, queues, lockVars, job>>

AskLock(r) ==
  /\ Go(r, "parsed", "discovering") /\ Lock(r)
  /\ UNCHANGED <<file, confVars, queues, got, job>>

Resolved(conf, found) == [u \in DOMAIN found |-> [conf[u] EXCEPT !.modules = found[u]]]

\* discoverConfiguredModules and resolveUpstreams, under the write lock.
Discover(r) ==
  /\ Locked(r)
  /\ Go(r, "discovering", "opening")
  /\ \E found \in [DOMAIN got[r].resolved -> SUBSET Modules] :
       /\ \A u \in DOMAIN found :
            ~got[r].resolved[u].discover => found[u] = got[r].resolved[u].modules
       /\ got' = [got EXCEPT ![r] = [version |-> @.version,
                                     resolved |-> Resolved(@.resolved, found)]]
  /\ UNCHANGED <<file, confVars, queues, lockVars, job>>

\* accessLog.SetFile and errorLog.SetFile.
OpenLogs(r) ==
  /\ Locked(r)
  /\ Go(r, "opening", "storing")
  /\ UNCHANGED <<file, confVars, queues, lockVars, got, job>>

\* A log file cannot be opened, or the discovery of an upstream fails.
MayFail(r) ==
  \/ pc[r] = "opening"
  \/ pc[r] = "discovering" /\ \E u \in DOMAIN got[r].resolved : got[r].resolved[u].discover

\* Mutant: an error return without the deferred Unlock.
FailLocked(r) ==
  /\ Locked(r) /\ MayFail(r)
  /\ pc' = [pc EXCEPT ![r] = "idle"]
  /\ UNCHANGED <<file, confVars, queues, lockVars, got, job>>

Fail(r) ==
  /\ Locked(r) /\ MayFail(r)
  /\ pc' = [pc EXCEPT ![r] = "idle"] /\ Unlock
  /\ got' = [got EXCEPT ![r] = NothingRead]
  /\ UNCHANGED <<file, confVars, queues, job>>

\* updateUpstreamQueuesLocked: an upstream that has a queue keeps it, with the
\* new limit.  The limits are set one after the other, and count for whoever
\* uses the queue at once.
LimitQueue(r, u) ==
  /\ Locked(r) /\ pc[r] = "storing"
  /\ u \in DOMAIN got[r].resolved \cap DOMAIN queueOf
  /\ queues[queueOf[u]].max # got[r].resolved[u].max
  /\ queues' = [queues EXCEPT ![queueOf[u]] = SetMax(@, got[r].resolved[u].max)]
  /\ UNCHANGED <<file, confVars, lockVars, pc, got, job>>

\* Mutant: kept queues keep their old limits.
LimitsForgotten(conf) == TRUE

LimitsSet(conf) ==
  \A u \in DOMAIN conf \cap DOMAIN queueOf : queues[queueOf[u]].max = conf[u].max

\* Mutants: new queues are found one too far; every upstream gets a new queue.
UpdateQueuesPastEnd(conf) ==
  LET fresh == SetToSeq(DOMAIN conf \ DOMAIN queueOf)
  IN /\ queues' = queues \o [i \in DOMAIN fresh |-> NewQueue(fresh[i], conf[fresh[i]].max)]
     /\ queueOf' = [u \in DOMAIN conf |->
                      IF u \in DOMAIN queueOf THEN queueOf[u]
                      ELSE Len(queues) + 1 + CHOOSE i \in DOMAIN fresh : fresh[i] = u]

UpdateQueuesAnew(conf) ==
  LET fresh == SetToSeq(DOMAIN conf)
  IN /\ queues' = queues \o [i \in DOMAIN fresh |-> NewQueue(fresh[i], conf[fresh[i]].max)]
     /\ queueOf' = [u \in DOMAIN conf |-> Len(queues) + CHOOSE i \in DOMAIN fresh : fresh[i] = u]

\* An upstream without a queue gets a new one; the queues of upstreams that are
\* gone are forgotten, whoever still uses them.
UpdateQueues(conf) ==
  LET fresh == SetToSeq(DOMAIN conf \ DOMAIN queueOf)
  IN /\ queues' = queues \o [i \in DOMAIN fresh |-> NewQueue(fresh[i], conf[fresh[i]].max)]
     /\ queueOf' = [u \in DOMAIN conf |->
                      IF u \in DOMAIN queueOf THEN queueOf[u]
                      ELSE Len(queues) + CHOOSE i \in DOMAIN fresh : fresh[i] = u]

\* Upstreams and the map of queues are read only under the lock: the change
\* shows with its release.
Store(r) ==
  /\ Locked(r) /\ LimitsSet(got[r].resolved)
  /\ Go(r, "storing", "idle") /\ Unlock
  /\ version' = got[r].version
  /\ upstreams' = got[r].resolved
  /\ UpdateQueues(got[r].resolved)
  /\ got' = [got EXCEPT ![r] = NothingRead]
  /\ UNCHANGED <<file, job>>

---------------------------------------------------------------------------
Init ==
  /\ file = 1 /\ version = 1
  /\ upstreams = Configs[1]
  /\ LET us == SetToSeq(DOMAIN Configs[1])
     IN /\ queues = [i \in DOMAIN us |-> NewQueue(us[i], Configs[1][us[i]].max)]
        /\ queueOf = [u \in DOMAIN Configs[1] |-> CHOOSE i \in DOMAIN us : us[i] = u]
  /\ readers = {} /\ blocked = {} /\ pending = NoOne
  /\ pc = [p \in Relays \cup Reloaders \cup Inquirers |-> "idle"]
  /\ got = [r \in Reloaders |-> NothingRead]
  /\ job = [c \in Relays |-> NoJob]

Routing(c) ==
  \/ \E m \in Modules : GetTargets(c, m)
  \/ NoTargets(c) \/ GetQueue(c) \/ NoQueue(c)

Relaying(c) ==
  Arrive(c) \/ Routing(c) \/ AskQueue(c) \/ Acquire(c) \/ Refused(c) \/ Release(c)

Loading(r) ==
  \/ Discover(r) \/ OpenLogs(r) \/ Fail(r)
  \/ \E u \in Upstreams : LimitQueue(r, u)
  \/ Store(r)

Next ==
  \/ Edit
  \/ \E c \in Relays : Relaying(c)
  \/ \E r \in Reloaders : ReadFile(r) \/ InvalidFile(r) \/ AskLock(r) \/ Loading(r)
  \/ \E i \in Inquirers : Inquire(i) \/ Answer(i)

Spec == Init /\ [][Next]_vars

\* Goroutines run, a sync.Mutex starves nobody (strong fairness on AskLock), and
\* a discovery ends: dialing fails or succeeds, and ReadTimeout bounds the wait
\* for each line of a list that is taken to be finite.
FairSpec ==
  /\ Spec
  /\ \A c \in Relays : WF_vars(Routing(c)) /\ WF_vars(AskQueue(c))
  /\ \A r \in Reloaders : SF_vars(AskLock(r)) /\ WF_vars(Loading(r))
  /\ \A i \in Inquirers : WF_vars(Answer(i))

---------------------------------------------------------------------------
(* Properties *)

RelayPlaces ==
  {"idle", "routing", "routed", "choosing", "asking", "waiting", "rejected", "done", "failed"}
ReloadPlaces == {"idle", "parsed", "discovering", "opening", "storing"}
InquiryPlaces == {"idle", "inquiring"}

\* The state has its type.
TypeOK ==
  /\ file \in DOMAIN Configs /\ version \in DOMAIN Configs
  /\ IsConfig(upstreams)
  /\ queues \in Seq([upstream : Upstreams, max : Nat, active : SUBSET Relays, line : Seq(Relays)])
  /\ queueOf \in [DOMAIN queueOf -> DOMAIN queues]
  /\ readers \subseteq Relays \cup Inquirers /\ blocked \subseteq Relays \cup Inquirers
  /\ pending \in Reloaders \cup {NoOne}
  /\ pc \in [Relays \cup Reloaders \cup Inquirers -> RelayPlaces \cup ReloadPlaces \cup InquiryPlaces]
  /\ \A c \in Relays : pc[c] \in RelayPlaces
  /\ \A r \in Reloaders : pc[r] \in ReloadPlaces
  /\ \A i \in Inquirers : pc[i] \in InquiryPlaces
  /\ job \in [Relays -> [upstream : Upstreams, queue : Nat]]
  /\ \A c \in Relays : pc[c] \in {"asking", "waiting", "rejected"} => job[c].queue \in DOMAIN queues
  /\ got \in [Reloaders -> [version : DOMAIN Configs,
                           resolved : {got[r].resolved : r \in Reloaders}]]
  /\ \A r \in Reloaders : IsConfig(got[r].resolved)

\* The limit of an upstream, and while a reload stores, the one it is about to
\* have.
LimitsInForce(u) ==
  {upstreams[u].max}
    \cup {got[r].resolved[u].max :
            r \in {r \in Reloaders : pc[r] = "storing" /\ u \in DOMAIN got[r].resolved}}

\* What is routed can be queued: the upstreams in force are exactly those with
\* a queue, it is theirs, and its limit is the configured one; while a reload
\* stores (loadConfig), it may already be the next one.
RoutesServed ==
  /\ DOMAIN queueOf = DOMAIN upstreams
  /\ \A u \in DOMAIN upstreams : /\ queues[queueOf[u]].upstream = u
                                 /\ queues[queueOf[u]].max \in LimitsInForce(u)

\* While the configuration keeps an upstream, it keeps its queue: who waited
\* before a reload and who comes after it stand in the same line, and no relay
\* fails between its two look-ups.
QueueKept ==
  [][/\ \A u \in DOMAIN upstreams \cap DOMAIN upstreams' : queueOf'[u] = queueOf[u]
     /\ \A c \in Relays : pc[c] = "choosing" /\ pc'[c] = "failed"
          => job[c].upstream \notin DOMAIN upstreams]_vars

Holding(u) == UNION {queues[k].active : k \in {k \in DOMAIN queues : queues[k].upstream = u}}

\* "Configured max active connections per upstream." (metrics.go:66): whoever is
\* given a slot of an upstream is given it within the limit in force for it,
\* counting all who hold one, since whichever reload, in line or not.  It holds
\* as long as no reload removes a limited upstream and another adds it again.
UpstreamBound ==
  [][\A u \in DOMAIN upstreams :
       Holding(u)' \ Holding(u) # {}
         => \E limit \in LimitsInForce(u) :
              limit = 0 \/ Cardinality(Holding(u)') <= limit]_vars

\* Nobody waits for reloadLock for ever: every look-up of a relay comes to its
\* end, every inquiry is answered, every reload succeeds or fails.
EverybodyAnswered ==
  /\ \A c \in Relays : /\ pc[c] = "routing" ~> pc[c] # "routing"
                       /\ pc[c] = "choosing" ~> pc[c] # "choosing"
  /\ \A i \in Inquirers : pc[i] = "inquiring" ~> pc[i] = "idle"
  /\ \A r \in Reloaders : pc[r] = "parsed" ~> pc[r] = "idle"

---------------------------------------------------------------------------
(* What the documentation says, and the code does not do.                  *)

\* A reload reads the files again and the new contents are used at once
\* (README.md): none puts an older configuration back in force.
NeverGoesBack == [][version' >= version]_vars
=============================================================================
