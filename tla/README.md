# rsync-proxy in TLA+

rsync-proxy accepts rsync connections, reads the name of a module, picks an
upstream that has it, waits for a slot in that upstream's queue and then copies
bytes in both directions. It reloads its configuration, discovers the modules of
upstreams, writes logs that logrotate rotates, and shows metrics while it does
so. This directory models the parts of it in which goroutines, timers, the
garbage collector, the network, other processes and the administrator
interleave, checks them with TLC and proves their safety properties with TLAPS.

    tlc -workers 2 -config MCQueue.cfg MCQueue     # any module and cfg of section 3
    tlapm QueueProofs.tla                          # any module of section 5

Paths are relative to the repository; `server.go` is `pkg/server/server.go`,
`queue.go` is `pkg/queue/queue.go`.

## 1. Inventory

| Component | State | Operations | Talks to | What is hard |
|---|---|---|---|---|
| Queue (`queue.go`) | `max`, `maxQueued`, `active`, `queued` under `mu`; a channel of capacity 1 and a `released` flag per handle | `Acquire`, `Release`, the cleanup of a dropped handle, `SetMax`, getters | relays receive from `h.C`; a reload calls `SetMax` | sends under the mutex, promotion racing a slow receiver, the unsynchronised flag, double release, limits that change under a line |
| Relay (`handleConn`, `relay`) | program counter, `connInfo`, counters, `upConn` | greeting, two look-ups, queueing loop, dial, handshake, copying, deferred calls | queue, configuration, copying | a dozen returns that must all give back slot, connection and entries; clients that vanish while queued; timer against status |
| Copying (end of `relay`, `countingReader`, `closeRead`) | two goroutines, two connections, byte counters | read, count, write; select, close, join, totals | TCP | ends and resets in any order, blocked writes, closes that become resets, counters read too early |
| Configuration (`loadConfig`, `config.go`, look-ups, `ListUpstreamModules`) | `modules`, `upstreams`, `upstreamQueues`, certificate, under `reloadLock` | reload, look-ups, inquiry with discovery | file, upstreams, queues, loggers | a lock held across network traffic, files read before the lock, look-ups that are not atomic together, queues replaced while used, a reload that fails half way |
| Discovery (`discoverModulesFromUpstream`) | a buffered reader, the list so far | dial, ask, parse a list | an rsyncd or another proxy | the motd before the list, unending lists, a proxy that asks itself |
| Line reading and timeouts (`utils.go`) | a buffer | `readLine`, `writeWithTimeout`, PROXY header | TCP | streams cut anywhere, a full buffer without newline, what follows a line in the same read |
| Target choice (`chooseTargetByClientIP`) | none | a hash | - | nothing stateful |
| HTTP and metrics (`runHTTPServer`, `metrics.go`) | none of its own | status, telegraf, metrics, reload, upstream-modules | reads all the above | numbers of different moments |
| Server life (`cmd.go` RunE, `Listen`, `Run`) | listeners, accept loops, error channel | load, listen, accept, return | the system's addresses, other instances | partial failure of `Listen`, a second instance beside the first, an accept error that ends everything |
| File loggers (`pkg/logging`) | file, output, name, under `mu` (but not for writing) | `SetFile`, `reopen`, write | reload, logrotate | lines logged in the middle of `SetFile`, failing opens, renamed files |
| Command line (`cmd`) | none | one HTTP request per command | HTTP | nothing |

What makes each correct:

* Queue: nobody beyond the limit, first come first served, each handle told what
  is true of it, no wake-up lost, no blocking or panic under the mutex, no effect
  of one handle's release on another's slot.
* Relay: whatever return is taken, slot, connection, entry and counters are
  settled; the upstream never sees a connection without a slot; relays end.
* Copying: neither goroutine outlives the relay, totals are final, an orderly
  answer is delivered whole.
* The talk before copying: nothing is lost where lines end and copying begins,
  nobody waits for one who waits, a discovery finds the modules that are served.
* Configuration: routes and queues belong together, a kept upstream keeps its
  queue, nobody waits for the lock for ever, the newest file wins.
* Metrics: numbers of different moments still relate as a reader supposes.
* Life and logs: the process that serves can be controlled, has its
  certificate, writes to the files that are there, and ends rather than go on
  half dead.

The list of hazards with their lines is in `PROJECT.json`.

## 2. Modules and the code

    QueueCore <- Queue -> Admission (refinement)      Discovery <- Conversation
        ^------- Relay -> Admission; Relay <- Scrape  FileLogger <- Life
    Duplex, Reload

**Queue.** `QueueCore.tla` holds the state of one queue and its critical
sections. Every operation holds `q.mu` throughout, so each is one step.
`Acquire` is `AcquireSlot` (its switch is `Admit`, `Reject`, `Enqueue`),
`releaseFromHandle` is `ReleaseFromHandle`: `LeaveLine` is its early return for
a waiter, `FreeSlot` the rest, with the whole promotion loop (`Promotable` says
how many heads `popHead` takes, `Promote` what it does to them) and the final
`broadcastStatus`. A channel is its buffer and whether it is closed. `Send`
never waits: a channel that would hold two values is one on which the code would
have blocked, and `ChannelDiscipline` excludes it. `q.active` is a set (the code
never uses its order), `q.queued` a sequence.

`Queue.tla` adds the life of the handles: the owner listens, calls `Release`
(again, if it is among `Repeating`), or drops the handle (`Forgetful`); after
that the cleanup of `runtime.AddCleanup` runs `release()` on its own goroutine.
The flag `released` is not synchronised, so the check and the critical section
are separate steps, a goroutine is only sure to see its own write, and both may
go on to `releaseFromHandle`. A collected handle's name may be used again by a
later `Acquire`, which keeps the model finite without stopping it.

`Admission.tla` is what the queue promises, with neither channels nor flags.
`Queue!ImplementsAdmission` maps `active`, `queued`, the limits and the latest
status of each listening handle to it.

**Relay.** `Relay.tla` composes the same critical sections with `handleConn` and
`relay`: one program counter per connection, a step per stretch of code between
two effects that others can see, and the deferred calls in their reverse order
(`CloseUpstream`, `Release`, `DeleteInfo`, `Leave`). All connections share one
upstream, since queues of different upstreams do not interact. While it is
queued a client is never read from, so `client` follows how its loss becomes
known: it vanishes, a write still succeeds (`unacked`), TCP gives up (`lost`),
the next write fails. Elsewhere each exchange may succeed or fail at any time.

`Scrape.tla` puts the reads of `/metrics` beside the relays, in the order of the
code: `ListConnectionInfo` (also all of `/status`), visited entry by entry as
`sync.Map.Range` does, then one counter after another. A scrape changes nothing
that a relay sees, so one at any time stands for all.

**Conversation.** `Conversation.tla` is `relay` from its first `readLine` to the
reset of the deadlines, with `readLine` and `listAllModules`, talking to peers
over streams that TCP cuts anywhere: `Read` takes any prefix of what is under
way that the buffer has room for. A stream is a sequence of pieces: newlines,
protocol words, names. The client is an rsync, or a proxy that runs
`discoverModulesFromUpstream` (`Discovery.tla`): another one, or the same one
while it reloads, when `relay` cannot have the read lock (`env.self`,
`Unlocked`). The upstream is an rsyncd, which may also be the one a discovery
asks. `version`, `name`, `Rest` are the code's variables of these names.

**Copying.** `Duplex.tla` is the end of `relay` in detail, the step `EndCopy` of
`Relay`. A copier reads a byte, counts it and writes it, in three steps; `relay`
selects, closes, waits and adds up. TCP is modelled by what the program can see
of it (bytes in flight both ways, end of stream, reset, local close; a close
with unread bytes, or after `SetLinger(0)`, resets) and is marked external in
the map.

**Configuration.** `Reload.tla` has routes, queues and the lock. `reloadLock` is
an RWMutex with Go's rule: a waiting writer keeps new readers out, and lets
those it kept out in when it unlocks. A reload reads the file, refuses it
(`InvalidFile`) or waits for the lock, discovers under it, opens the logs, sets
the limits of kept queues one by one (`LimitQueue`, seen at once by whoever uses
the queue) and then unlocks with the new upstreams and queues in force
(`Store`); until it stores it may fail and unlock. An inquiry holds the read
lock across a discovery. A relay looks up its target,
then its queue, and uses the queue it found even if the configuration has moved
on; one that the queue refuses releases its handle in a later step. A queue is reduced here to slots and line. Which modules a discovery
returns, and which target the client's address selects, is arbitrary.

**Life and logs.** `Life.tla` starts several instances on one machine, with the
same file, addresses and logs: RunE loads and listens, step by step, `Listen`
fails at any listener and closes the earlier ones, accept loops fail, `Run`
returns, a process is killed. `listen_http` is a Unix socket, whose path
`listenTCPOrUnix` takes from whoever had it. The part of a reload that `Reload`
leaves out is here: the check of `listen_tls`, the certificate, and `SetFile` of
the two loggers (`FileLogger.tla`) in its steps, because lines are logged in
between without `l.mu`. The administrator edits the file and logrotate renames
logs at any time.

`MCQueue`, `MCRelay`, `MCDuplex`, `MCReload`, `MCConversation`, `MCLife` give
constants for TLC. Operators marked "Mutant" are plausible mistakes, each shown
by TLC to break the property it is listed with.

## 3. Runs

| Run (cfg) | Bounds | Shows |
|---|---|---|
| `queue_races` (MCQueue) | 3 handles, limits 0 and 1 on both, owners that repeat or forget; 1.2 M states | type, `ChannelDiscipline`, `GrantMatchesSlot`, `InOnePlace`, `NeverStuck`; `NoOvershoot`, `FifoPromotion`, `OnlyReleasedLeave`; `Queue` implements `Admission` |
| `queue_fixed` (MCQueueFixed) | 4 handles, limit 2, line of 2; 0.3 M | with constant limits `QueueOnlyWhenFull` and `PositionExact` |
| `queue_served` (MCQueueServed) | 3 handles, limits 0 and 1; 0.5 M | `WaiterServed` |
| `queue_position` (MCQueuePosition) | limits 1 and 2 | violated: `PositionIsPositive` |
| `relay_safety` (MCRelay) | 3 connections, limits 0 and 1; 0.7 M | type, `UpstreamWithinSlots`, `SlotWhileNeeded`, `OccupantsListed` |
| `relay_watched` (MCScrape, module Scrape) | 2 connections, limit 1, a scrape; 0.4 M | `NoTransferMissed`, `FailuresWithinAccepted`; `VanishedLeaves`, `EveryRelayEnds` |
| `duplex` (MCDuplex) | 2 bytes each way, windows of 1; 19 k | type, `TotalsFinal`, `NothingLeftBehind`, `WholeAnswer`, `EndsWithEitherPeer` |
| `reload` (MCReload) | 2 relays, 2 reloads at a time, 1 inquiry, 2 versions that keep `u1`, lower its limit and add `u2`; 80 k | type, `RoutesServed`, `UpstreamBound`, `QueueKept`, `EverybodyAnswered` |
| `reload_back` (MCReloadBack) | same, 1 relay | violated: `NeverGoesBack` |
| `conversation` (MCConversation) | a buffer of 3 pieces, 2 modules, 4 requests, 3 openings, motd with and without; 1.4 k | `StreamsIntact`, `NoMutualWait`, `DiscoveryFindsModules`, `TalkEnds` |
| `conversation_motd` (MCConversationMotd) | a motd that does not end in a newline | violated: `DiscoveryFindsModules` |
| `life` (MCLife) | 2 instances, 3 configurations; 0.2 M | type, `ControlReachable`, `CertificateAtHand`, `LoggingGoesOn`, `ReloadReopens`, `NoHalfDeath` |

Why the bounds are enough. A queue does nothing that needs more than one
holder, one waiter and one who joins, leaves or is promoted past them, so three
handles meet every case of its switch and of both loops, and with the limits 0
(none) and 1 every change of limit: raised, lifted, lowered below what is
taken. Four handles with limit 2 add a line of two behind two slots, where
positions differ from one another. Names of handles are reused, so runs are of
unbounded length.

With two connections and limit 1 a scrape meets one that transfers and one that
waits, fails or comes after it; what relates its numbers concerns one
connection at a time. In `Duplex` a window of one byte makes each buffer both
empty and full, and two bytes leave one in flight behind another. In `Reload`
two relays and two reloads are what the races need; one inquiry suffices to hold
a reader's lock. A line behind a limit that is lowered takes three relays, too
many for the liveness in one run: with `Relays = {c1, c2, c3}`, `SPECIFICATION
Spec` and without `EverybodyAnswered` TLC agrees too (1.1 M states), and
`UpstreamWithinLimit` and, on the queue alone, `NoOvershoot` with three handles
say it as well. In `Conversation` a buffer of three pieces holds the version
line and the first piece of what follows it, or a request too long for it; the
cuts fall between any two pieces. Names of modules are one piece, which says
that they are shorter than the buffer (`SizeAssumption`): a request that does
not fit the 256 bytes of `ReadBufferSize` is cut, and names no module that is
served.
`Life` needs two instances for one to get in the other's way; its three
configurations turn TLS on and off and drop and name a log.

The proofs of section 5 remove these bounds for the safety properties of all
modules.

Deadlock is checked in every run but the two of `Conversation`, where a talk
ends and nothing may be left to say; `NoMutualWait` and `TalkEnds` say there
what the check for deadlock would. In `Relay` and `Duplex`, where everything may
come to an end, `Terminated` and `Finished` stutter then.

## 4. Fairness

* `Queue`: a goroutine inside `release()` goes on; an owner reads its channel;
  one that has its verdict releases some day (relay defers it). Nothing is
  assumed of arrivals, of the collector or of waiters giving up.
* `Relay`, `QueueFairness`: goroutines run, the one-minute timer fires, writes
  have a deadline, TCP gives up on unacknowledged data. `Hear` is strongly fair:
  each turn of the loop makes a new timer, so a status that is there when the
  select begins wins. `VanishedLeaves` needs no more, in particular nothing of
  clients or upstreams. `EveryRelayEnds` has as hypothesis that exchanges end
  (`ExchangesEnd`: read timeouts, and transfers that finish) and that limits
  stop changing: the code clears all deadlines before copying, so a transfer
  has no bound of its own.
* `Duplex`: goroutines run and a live peer reads what it is sent. A peer that
  never reads holds the relay for ever, as in the code.
* `Reload`: goroutines run, the mutex inside RWMutex starves nobody, and a
  discovery ends. The last is an assumption about upstreams: each line of a
  list restarts the deadline, so only a finite list ends.
* `Conversation`: the proxy's own code goes on when it can, and a read whose
  peer says nothing fails at its deadline (`cmd/cmd.go` sets `ReadTimeout` and
  `WriteTimeout`). Peers need never speak; lists are finite, as above.
* `Life`: `Run` receives an error that is in `errC` and returns. Nothing else
  need ever happen.

## 5. Proofs

All theorems are about the specifications that TLC checks, for every value of
the constants within the named assumptions.

| Module | Theorems | Properties |
|---|---|---|
| `QueueProofs` | `InvariantStep`, `Invariance`, `TypeCorrect`, `ChannelsSafe`, `GrantsMatchSlots`, `HandlesInOnePlace`, `LineNeverStuck`, `OnlyReleasedLeaveHolds`, `PromotionIsFifo`, `LimitKept` | all of `queue_races` but the refinement |
| | `LineOnlyWhenFull`, `PositionsExact` | `QueueOnlyWhenFull`, `PositionExact`, under limits that stay |
| | `QueueImplementsAdmission` | `ImplementsAdmission` |
| `RelayProofs` | `Invariance`, `TypeCorrect`, `UpstreamKeepsToSlots`, `SlotKept`, `OccupantsAreListed` | all of `relay_safety` |
| | `RelayImplementsAdmission` | none: `Relay` implements `Admission` too |
| `ScrapeProofs` | `WatchedInvariance`, `ScrapeMissesNoTransfer`, `ScrapeFailuresWithin` | the invariants of `relay_watched` |
| `DuplexProofs` | `Invariance`, `TypeCorrect`, `TotalsAreFinal`, `NothingIsLeftBehind`, `AnswersAreWhole` | the invariants of `duplex` |
| `ReloadProofs` | `Invariance`, `TypeCorrect`, `RoutesAreServed`, `QueuesAreKept`, `UpstreamWithinLimit` | the safety properties of `reload` |
| `LifeProofs` | `Invariance`, `TypeCorrect`, `SocketReachable`, `CertificateKept`, `LoggersGoOn`, `ReloadsReopen` | the safety properties of `life` |
| `ConversationProofs` | `RelayInvariance`, `TypeCorrect`, `StreamsAreIntact`, `NobodyWaitsMutually`, `AskerInvariance`, `DiscoveryIsRight` | the invariants of `conversation` |

`QueueCoreProofs` holds what the others cite about the queue. Assumptions:
`Handles` is finite and limits are in `Nat` (the code stores them unchecked and
a negative one admits nobody); `Forgetful` and `Repeating` are any handles;
`Bytes` are any numbers and `Window` at least 1; `Configs` is a nonempty
sequence of well-formed files, the relays of `Reload` are finitely many and no
actor has two roles; the configurations of `Life` are any set of records.
`WordsAssumption` of `Conversation` says that a request is one line, an rsyncd's
opening is whole lines of which the first is one piece and its newline, and no
module is called like a line of the protocol; the buffer holds three pieces or
more (`SizeAssumption`). Three groups of theorems have a hypothesis of their own. `LineOnlyWhenFull` and `PositionsExact`
suppose `[][UNCHANGED <<max, maxQueued>>]_vars`: section 6 says what happens
without. `UpstreamWithinLimit` supposes `SameUpstreams`, that all versions of
the file have the same upstreams (limits and modules may change): an upstream
that goes and comes back has a new queue. `AskerInvariance` and
`DiscoveryIsRight` suppose `NoticesEnd`: a motd, or the text of an rsyncd after
its version line, ends its last line, so that the newline sent after it leaves a
blank one, and no piece of it is a line of the protocol. `MCConversation` gives
such motds and openings; `MCConversationMotd` gives one that is not, and section
6 says what happens.

**Queue.** `IInv` is the conjunction of the five invariants of `queue_races` and
two more: `HeldArmed` (a reachable handle's cleanup has not run) and
`MarkedFlag` (a goroutine on its way into `releaseFromHandle` has written the
flag). None of the five is inductive alone. `GrantMatchesSlot` survives a
promotion only because the waiter's channel has room and is open
(`ChannelDiscipline`) and because the lists are disjoint and without repetition
(`InOnePlace`); `InOnePlace` survives an `Acquire` only because a fresh handle
is in no list, which needs that no `release()` is still under way on it;
`NeverStuck` needs that a promotion that leaves waiters leaves the slots full.

The proof separates the queue from the handles. `LeaveLineFacts`,
`FreeSlotFacts` and `AcquireFacts` say what one critical section does to the
lists and to every handle it is not called for (`Bystander`: untouched, told a
position while still waiting, or promoted with `Granted` in its channel).
`IInvSplit` and `IInvJoin` cut the invariant into the queue's part and a part
per handle; `BystanderOK` then handles all other handles at once, and each
action has one lemma. The sequence lemmas of `QueueCoreProofs` (`PrefixFacts`,
`SuffixFacts`, `RemoveAtFacts`, `CutFacts`, `AppendFacts`, `PrefixSetFacts`,
`PrefixSize`) are about cutting a line.

With limits that stay, `SlotsInLimit` (never more than `max` slots, exactly
`max` while there is a line) is inductive beside `IInv`: `FreeSlotSize` counts
who is promoted. Then the surplus in a position is 0, `BroadcastExact` tells
each waiter its index, and `PositionStep` goes through the actions.

**Refinement.** From `IInv`, every step of `Queue` is a step of `Admission` or a
stutter: `AcquireRefines` (a newcomer's verdict is its first status),
`OwnerRefines` (calling `Release` or forgetting turns the verdict to "gone"),
`ReleaseRefines` (`LeaveLine` is giving up a place, `FreeSlot` departing, and
promoted waiters' verdicts become "granted": `BystanderVerdict`), `Unseen` for
all that only touches channels and flags. `Relay` implements the same `Admission`
with the verdict a relay acts on: the unread status while it hears from the
queue, "granted" from the dial to the close, "gone" elsewhere. `VerdictIsPlace`
equates it with what the lists say, so that `RequestRefines`, `ReleaseRefines`
and `OneRelayMoves` only look at lists and places. No run repeats this theorem:
TLC agreed for 3 connections (664 832 states).

**Relay and Scrape.** `Relay!IInv` says where the relay's place puts it: outside
it is in no list, while it hears from the queue the unread status says in which
(`Hears`), from the dial to the close it is active. `QueueInv` is reused with
the same three lemmas, since `Relay` calls the same critical sections.
`ScrapeProofs` rests on `OutcomeStep`, that a step changes the outcome counters
in one of four ways; `Conserved` (failures, and those who may still fail, are
among the accepted) then gives `ScrapeFailuresWithin`, since failures are read
first, and `ScrapeMissesNoTransfer` bounds those begun before the scrape that are
neither listed nor still to be visited (`Unlisted`) by the growth of the counter.
A scrape has no names of completed transfers, so the property counts them.

**Duplex.** `IInv` follows a byte in each direction: counted before written
(`Counts`), in flight, in hand or written (`Carries`), in flight or received
(`Arrives`); it says why a copier has ended (`AtEnd`, `Cause`) and what `relay`
has done by each point (`Phases`). `WholeAnswer` needs all of them: the end of
the stream that the client reads was made by `relay` after a copier read the
upstream's, and by then all was written.

**Reload.** `IInv` is the type, split by who owns the variables (`PlacesOK`,
`LocksOK`, `StoreOK`, `JobsOK`, `ReadOK`), with `RoutesServed`. While a reload
stores, a queue has the old limit or the next one (`LimitsInForce`); that every
other step leaves what a storing reload has read (`StoringStays`) keeps these
limits in force until `Store`, and `UpdateQueuesFacts` says what that does to
kept, new and forgotten queues. `KeptInv` adds, where the files have the same
upstreams, that there is one queue for each, the one in the map; `SlotsWithin`
then says that a step which lets somebody in does so within the limit of that
queue, which is one in force.

**Life.** `Staged` says what a process has at each stage of its start,
`OneHolder` that one of them has the TCP address, which is bound before the
socket's path is taken; `SetFileInside`, `FreshNamed` and `AlreadySet` follow
the two loggers through a reload.

**Conversation.** `RelayInv` says for each place of `relay` what has been said,
read and heard there (`AtVersion` to `AtCopying`), and what a discovery has said
by each of its states (`AskerSays`). What makes it inductive is that `buf` is at
every place what was read of the stream after the lines before it, so that a
line which `relay` accepts is all that was sent: `VersionRead` (only a client
without a PROXY header passes `IsProtocol`), `RequestRead` and `NameRead` (a
name that is served was not cut off by a full buffer: its last byte was the
newline) and `UpstreamLineRead` (`Rest` begins after a newline that is in the
buffer). `AfterLineGrows` then carries `StreamsIntact` through the copying.
`NoMutualWait` follows without a further induction: if nothing is in flight, all
that was said has been read, so it ends in a line or the peer has a turn.

`AskerInv` is about the reader at the other end: what it was told is a prefix of
the whole answer, and it stands at the start of a line, in the preface or at
line `i` of the list with the first `i` modules found. `AnswerPieces` says what
is at each place of the answer, `LineHeard` which line comes next; then
`HearPrefacePlace` shows that the blank line before the list is reached and
drops what came before, `HearListPlace` that each line of the list adds its
module and only the last ends it. The lemmas on streams (`FirstNL`, `ReadsOn`,
`PrefixKept`, `LineOfPiece`) concern places in a sequence, so no induction over
its pieces is needed.

Only model-checked: liveness (`WaiterServed`, `VanishedLeaves`,
`EveryRelayEnds`, `EndsWithEitherPeer`, `EverybodyAnswered`, `TalkEnds`,
`NoHalfDeath`), which is beyond the prover.

## 6. What the code does and its documents do not say

Violations that runs show:

* `PositionIsPositive`: a client is shown `Index+1` (`server.go:670`). After the
  limit was raised, `broadcastStatus` sends negative indexes.
* `NeverGoesBack`: a reload reads the files again and they are used at once
  (`README.md:40`). Files are read before the lock is taken: of two concurrent
  reloads the older reading can win.
* `DiscoveryFindsModules` with `UnendedMotds`: `relay` sends the motd and one
  newline before its list (`server.go:617`), a discovery drops a motd only at an
  empty line (`server.go:501`). With the motd of `assets/config.example.toml`,
  which does not end in a newline, a discovering proxy takes the first word of
  the motd for a module.

Seen in the code, with no run:

* `SetMax` promotes nobody: a line made under a limit stays when the limit is
  lifted, and newcomers pass it, until the next release.
* Bytes are counted as sent when they are read, before they are written.
* An upstream removed and added again has a new, empty queue while the relays of
  the old one go on: the limit then bounds each queue, not the upstream.
* The handlers of `runHTTPServer` share one variable `err`
  (`server.go:838`): concurrent `/upstream-modules` requests race on it.
* If the error log cannot be opened a reload fails with the access log already
  switched; if a discovering upstream is down the reload that logrotate asks for
  fails before any log is reopened. A line logged while `reopen` has closed the
  old file and not yet set the new output is lost. `Life` has these behaviours;
  `ReloadReopens` is about reloads that succeed, `LoggingGoesOn` about the file a
  logger has outside that window, and neither excludes them.

## 7. Not modelled

* Formatting of messages, JSON, labels and units; single gauges and byte
  metrics, which no property relates.
* `chooseTargetByClientIP`: a hash; any target of the module may be chosen.
* The command line client: one request per command, no state.
* `Server.Close`, `FileLogger.Close` and `Reopen`: called by tests only.
* What a valid configuration file is: reading one may fail, and negative limits
  are outside the assumptions (they admit nobody, ever).
* Addresses of upstreams: a relay that looked up its target before a reload may
  dial the old address with a slot of the upstream's kept queue.
* Clients that send before they are answered, beyond what TCP may merge: what
  `readLine` reads past a request's newline is part of the name. Lists that
  never end. A change of `listen` between two instances.
* The data race on `Motd`, which a reload writes while `relay` reads it; the
  32-bit wrap of `connIndex`; TLS itself; panics; modules whose names fill
  `ReadBufferSize`.

Done, in this order: the queue, the relay, copying, the configuration and their
runs; discovery and the talk before copying; the scrape; life and loggers; the
proofs of every module, and the refinements of the queue and of the relay. Left:
an abstract specification of `Reload` in which a queue is an `Admission`, and the
relation of its relays to those of `Relay`.
