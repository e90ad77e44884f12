------------------------------- MODULE Scrape -------------------------------
(***************************************************************************)
(* pkg/server/metrics.go, writePrometheusMetrics: an observer of the       *)
(* relays.  It reads the list of connections, the queue and one counter    *)
(* after the other, while relays go on between any two reads, so that its  *)
(* numbers are of different moments.  The list is the whole of /status.    *)
(* Reads that no property compares (limits and length of the queue, the    *)
(* gauge, the bytes) are left out.  A scrape does nothing that a relay     *)
(* sees, and so one, at any time, stands for all.                          *)
(***************************************************************************)
EXTENDS Relay

VARIABLES at,               \* where the scrape is
          unvisited,        \* keys of connInfo that Range has not come to
          rows,             \* connections in the scrape
          shown,            \* the counters as read
          begun, before     \* history: the transfers begun, and the number
                            \* completed, before the scrape

historyVars == <<begun, before>>
scrapeVars == <<at, unvisited, rows, shown, historyVars>>

\* Mutants of After: the accepted are read before the failures; the completed
\* before the list.
AfterAcceptedFirst ==
  [idle |-> "listing", listing |-> "accepted", accepted |-> "queueFull",
   queueFull |-> "dialErrors", dialErrors |-> "unknown", unknown |-> "completed",
   completed |-> "done"]
AfterCompletedFirst ==
  [idle |-> "completed", completed |-> "listing", listing |-> "queueFull",
   queueFull |-> "dialErrors", dialErrors |-> "unknown", unknown |-> "accepted",
   accepted |-> "done"]

\* The order of the reads.
After ==
  [idle |-> "listing", listing |-> "queueFull", queueFull |-> "dialErrors",
   dialErrors |-> "unknown", unknown |-> "accepted", accepted |-> "completed",
   completed |-> "done"]

Advance(from) == at = from /\ at' = After[from]

Outcomes == {"accepted", "unknown", "queueFull", "dialError", "completed"}

Show(names) == shown' = [n \in Outcomes |-> IF n \in names THEN counters[n] ELSE shown[n]]

Transferring == {c \in Conns : pc[c] = "copying"}

StartScrape ==
  /\ Advance("idle")
  /\ unvisited' = Conns
  /\ begun' = Transferring /\ before' = counters["completed"]
  /\ UNCHANGED <<rows, shown>>

\* ListConnectionInfo: Range comes to every key once, in any order, and finds
\* it or not.
Visit(c) ==
  /\ at = "listing" /\ c \in unvisited
  /\ unvisited' = unvisited \ {c}
  /\ rows' = IF c \in listed THEN rows \cup {c} ELSE rows
  /\ UNCHANGED <<at, shown, historyVars>>

EndList ==
  /\ Advance("listing") /\ unvisited = {}
  /\ UNCHANGED <<unvisited, rows, shown, historyVars>>

ReadQueueFull ==
  /\ Advance("queueFull") /\ Show({"queueFull"})
  /\ UNCHANGED <<unvisited, rows, historyVars>>

ReadDialErrors ==
  /\ Advance("dialErrors") /\ Show({"dialError"})
  /\ UNCHANGED <<unvisited, rows, historyVars>>

ReadUnknown ==
  /\ Advance("unknown") /\ Show({"unknown"})
  /\ UNCHANGED <<unvisited, rows, historyVars>>

ReadAccepted ==
  /\ Advance("accepted") /\ Show({"accepted"})
  /\ UNCHANGED <<unvisited, rows, historyVars>>

ReadCompleted ==
  /\ Advance("completed") /\ Show({"completed"})
  /\ UNCHANGED <<unvisited, rows, historyVars>>

ScrapeStep ==
  \/ StartScrape \/ EndList \/ ReadQueueFull \/ ReadDialErrors \/ ReadUnknown \/ ReadAccepted \/ ReadCompleted
  \/ \E c \in Conns : Visit(c)

WatchedInit ==
  /\ Init
  /\ at = "idle" /\ unvisited = {} /\ rows = {} /\ begun = {} /\ before = 0
  /\ shown = [n \in Outcomes |-> 0]

WatchedNext ==
  \/ Next /\ UNCHANGED scrapeVars
  \/ ScrapeStep /\ UNCHANGED vars

WatchedSpec == WatchedInit /\ [][WatchedNext]_<<vars, scrapeVars>> /\ QueueFairness

---------------------------------------------------------------------------
(* Properties *)

Scraped == at = "done"

\* No transfer that had begun before a scrape is missing from it: those of them
\* that are not among its connections are made up for by the completed, who have
\* grown by as many since, however transfers end while the scrape runs.  relay
\* counts before it unlists; the scrape lists before it reads the counter.
NoTransferMissed ==
  Scraped => shown["completed"] >= before + Cardinality(begun \ rows)

\* The failures of a scrape never exceed the connections it shows as accepted,
\* as a rate of failures computed from it supposes.
FailuresWithinAccepted ==
  Scraped => shown["unknown"] + shown["queueFull"] + shown["dialError"] <= shown["accepted"]

\* Not so for the completed, which are read after the accepted, nor for the
\* list against the gauge: a connection may come or go between the two.
=============================================================================
