------------------------------- MODULE Duplex -------------------------------
(***************************************************************************)
(* pkg/server/server.go, the end of relay: two goroutines copy between the *)
(* client's connection ("down") and the upstream's ("up"), and relay waits *)
(* for the first to end, closes, waits for both and adds up the totals.    *)
(* TCP is modelled as what a Go program sees of it: per connection, bytes  *)
(* from the peer not yet read, bytes to the peer not yet taken, end of     *)
(* stream, reset, and the local Close.                                     *)
(***************************************************************************)
EXTENDS Integers, FiniteSets

CONSTANTS Bytes,            \* Bytes[p]: how much peer p may send
          Window            \* bytes that fit between the proxy and a peer

ASSUME BytesAssumption == Bytes \in [{"down", "up"} -> Nat]
ASSUME WindowAssumption == Window \in Nat \ {0}

VARIABLES copier,           \* copier[d]: reading, counting the byte it read,
                            \* writing it, or ended
          written,          \* written[d]: bytes that Write has accepted
          result,           \* result[d]: how io.Copy returned
          main,             \* where relay is
          counted,          \* ReceivedBytes and SentBytes of the ConnInfo
          totals,           \* what relay loaded and added to the totals
          open,             \* open[p]: the proxy has not closed connection p
          cut,              \* cut[p]: what peer p saw of the proxy's close
          linger,           \* SetLinger(0) was called on upConn
          peer,             \* peer[p]: open, shut (its end of stream), dead
          reset,            \* reset[p]: connection p was reset by the peer
          inbound, outbound,\* bytes from and to the peer, in flight
          produced, got     \* bytes the peer has sent and has received

vars == <<copier, written, result, main, counted, totals, open, cut, linger, peer, reset,
          inbound, outbound, produced, got>>
proxyVars == <<copier, written, result, main, counted, totals, open, cut, linger>>
netVars == <<peer, reset, inbound, outbound, produced, got>>

Peers == {"down", "up"}
\* Directions are named relative to the client, as in ConnInfo.
Dirs == {"received", "sent"}
Source(d) == IF d = "received" THEN "down" ELSE "up"
Target(d) == IF d = "received" THEN "up" ELSE "down"

---------------------------------------------------------------------------
(* io.Copy, one byte at a time *)

End(d, how) ==
  /\ copier' = [copier EXCEPT ![d] = "ended"]
  /\ result' = [result EXCEPT ![d] = how]

\* countingReader.Read: the byte is read, then counted, then written.
ReadByte(d) ==
  /\ copier[d] = "reading" /\ open[Source(d)]
  /\ inbound[Source(d)] > 0
  /\ inbound' = [inbound EXCEPT ![Source(d)] = @ - 1]
  /\ copier' = [copier EXCEPT ![d] = "counting"]
  /\ UNCHANGED <<written, result, main, counted, totals, open, cut, linger,
                 peer, reset, outbound, produced, got>>

CountByte(d) ==
  /\ copier[d] = "counting"
  /\ counted' = [counted EXCEPT ![d] = @ + 1]
  /\ copier' = [copier EXCEPT ![d] = "writing"]
  /\ UNCHANGED <<written, result, main, totals, open, cut, linger, netVars>>

\* A mutant of ReadEOF: the end of the stream overtakes what came before it.
ReadEOFEarly(d) ==
  /\ copier[d] = "reading" /\ open[Source(d)]
  /\ peer[Source(d)] # "open" /\ ~reset[Source(d)]
  /\ End(d, "eof")
  /\ UNCHANGED <<written, main, counted, totals, open, cut, linger, netVars>>

ReadEOF(d) ==
  /\ copier[d] = "reading" /\ open[Source(d)]
  /\ inbound[Source(d)] = 0 /\ peer[Source(d)] # "open" /\ ~reset[Source(d)]
  /\ End(d, "eof")
  /\ UNCHANGED <<written, main, counted, totals, open, cut, linger, netVars>>

\* The connection was closed by relay, or reset (what had arrived before the
\* reset may still be read, or not).
ReadError(d) ==
  /\ copier[d] = "reading"
  /\ ~open[Source(d)] \/ reset[Source(d)]
  /\ End(d, "error")
  /\ UNCHANGED <<written, main, counted, totals, open, cut, linger, netVars>>

\* A mutant of WriteByte: a write that does not wait for room.
WriteWithoutWaiting(d) ==
  /\ copier[d] = "writing" /\ open[Target(d)] /\ ~reset[Target(d)]
  /\ peer[Target(d)] # "dead"
  /\ outbound' = [outbound EXCEPT ![Target(d)] = @ + 1]
  /\ written' = [written EXCEPT ![d] = @ + 1]
  /\ copier' = [copier EXCEPT ![d] = "reading"]
  /\ UNCHANGED <<result, main, counted, totals, open, cut, linger,
                 peer, reset, inbound, produced, got>>

WriteByte(d) ==
  /\ copier[d] = "writing" /\ open[Target(d)] /\ ~reset[Target(d)]
  /\ peer[Target(d)] # "dead" /\ outbound[Target(d)] < Window
  /\ outbound' = [outbound EXCEPT ![Target(d)] = @ + 1]
  /\ written' = [written EXCEPT ![d] = @ + 1]
  /\ copier' = [copier EXCEPT ![d] = "reading"]
  /\ UNCHANGED <<result, main, counted, totals, open, cut, linger,
                 peer, reset, inbound, produced, got>>

\* A write to a peer that has closed its socket succeeds and is answered by a
\* reset.
WriteToDead(d) ==
  /\ copier[d] = "writing" /\ open[Target(d)] /\ ~reset[Target(d)]
  /\ peer[Target(d)] = "dead"
  /\ reset' = [reset EXCEPT ![Target(d)] = TRUE]
  /\ written' = [written EXCEPT ![d] = @ + 1]
  /\ copier' = [copier EXCEPT ![d] = "reading"]
  /\ UNCHANGED <<result, main, counted, totals, open, cut, linger,
                 peer, inbound, outbound, produced, got>>

WriteError(d) ==
  /\ copier[d] = "writing"
  /\ ~open[Target(d)] \/ reset[Target(d)]
  /\ End(d, "error")
  /\ UNCHANGED <<written, main, counted, totals, open, cut, linger, netVars>>

Copy(d) ==
  \/ ReadByte(d) \/ CountByte(d) \/ ReadEOF(d) \/ ReadError(d)
  \/ WriteByte(d) \/ WriteToDead(d) \/ WriteError(d)

---------------------------------------------------------------------------
(* relay *)

\* net.Conn.Close of connection p: bytes not yet read make it a reset, as does
\* SetLinger(0), and a reset may cost the peer what it has not taken yet.
Close(p) ==
  /\ open' = [open EXCEPT ![p] = FALSE]
  /\ inbound' = [inbound EXCEPT ![p] = 0]
  /\ IF ~open[p]
     THEN UNCHANGED <<cut, outbound>>
     ELSE IF inbound[p] > 0 \/ (p = "up" /\ linger')
          THEN /\ cut' = [cut EXCEPT ![p] = "reset"]
               /\ \E n \in {0, outbound[p]} : outbound' = [outbound EXCEPT ![p] = n]
          ELSE cut' = [cut EXCEPT ![p] = "fin"] /\ UNCHANGED outbound

\* A mutant of UpstreamEnded: downConn.Close() is forgotten.
UpstreamEndedUnclosed ==
  /\ main = "select" /\ copier["sent"] = "ended"
  /\ main' = "joining"
  /\ linger' = TRUE
  /\ UNCHANGED <<copier, written, result, counted, totals, open, cut, netVars>>

\* case <-receivedClosed: closeRead(upConn, true), which the ended reader of
\* upConn does not feel but whose linger setting stays, and downConn.Close().
UpstreamEnded ==
  /\ main = "select" /\ copier["sent"] = "ended"
  /\ main' = "joining"
  /\ linger' = TRUE
  /\ Close("down")
  /\ UNCHANGED <<copier, written, result, counted, totals, peer, reset, produced, got>>

\* case <-sentClosed: closeRead(downConn, false) and upConn.Close().
ClientEnded ==
  /\ main = "select" /\ copier["received"] = "ended"
  /\ main' = "joining"
  /\ UNCHANGED linger
  /\ Close("up")
  /\ UNCHANGED <<copier, written, result, counted, totals, peer, reset, produced, got>>

\* A mutant of AddUp: relay waits for one of the two goroutines only.
AddUpEarly ==
  /\ main = "joining" /\ \E d \in Dirs : copier[d] = "ended"
  /\ main' = "counted"
  /\ totals' = counted
  /\ UNCHANGED <<copier, written, result, counted, open, cut, linger, netVars>>

\* <-sentClosed, <-receivedClosed, then the totals.
AddUp ==
  /\ main = "joining" /\ \A d \in Dirs : copier[d] = "ended"
  /\ main' = "counted"
  /\ totals' = counted
  /\ UNCHANGED <<copier, written, result, counted, open, cut, linger, netVars>>

\* A mutant of CloseDeferred: only upConn.Close() is deferred.
CloseUpDeferred ==
  /\ main = "counted"
  /\ main' = "over"
  /\ UNCHANGED linger
  /\ Close("up")
  /\ UNCHANGED <<copier, written, result, counted, totals, peer, reset, produced, got>>

\* The deferred upConn.Close() and downConn.Close(), either already closed.
CloseDeferred ==
  /\ main = "counted"
  /\ main' = "over"
  /\ UNCHANGED linger
  /\ \E p \in Peers : open[p] /\ Close(p)
  /\ UNCHANGED <<copier, written, result, counted, totals, peer, reset, produced, got>>

---------------------------------------------------------------------------
(* The two peers *)

PeerSends(p) ==
  /\ peer[p] = "open" /\ open[p] /\ ~reset[p]
  /\ produced[p] < Bytes[p] /\ inbound[p] < Window
  /\ produced' = [produced EXCEPT ![p] = @ + 1]
  /\ inbound' = [inbound EXCEPT ![p] = @ + 1]
  /\ UNCHANGED <<proxyVars, peer, reset, outbound, got>>

PeerReads(p) ==
  /\ peer[p] # "dead" /\ outbound[p] > 0
  /\ outbound' = [outbound EXCEPT ![p] = @ - 1]
  /\ got' = [got EXCEPT ![p] = @ + 1]
  /\ UNCHANGED <<proxyVars, peer, reset, inbound, produced>>

PeerShuts(p) ==
  /\ peer[p] = "open" /\ ~reset[p]
  /\ peer' = [peer EXCEPT ![p] = "shut"]
  /\ UNCHANGED <<proxyVars, reset, inbound, outbound, produced, got>>

\* The peer closes its socket, or dies: a reset if it leaves bytes unread.
PeerCloses(p) ==
  /\ peer[p] # "dead"
  /\ peer' = [peer EXCEPT ![p] = "dead"]
  /\ reset' = [reset EXCEPT ![p] = @ \/ outbound[p] > 0]
  /\ outbound' = [outbound EXCEPT ![p] = 0]
  /\ UNCHANGED <<proxyVars, inbound, produced, got>>

PeerResets(p) ==
  /\ peer[p] # "dead"
  /\ peer' = [peer EXCEPT ![p] = "dead"]
  /\ reset' = [reset EXCEPT ![p] = TRUE]
  /\ outbound' = [outbound EXCEPT ![p] = 0]
  /\ UNCHANGED <<proxyVars, inbound, produced, got>>

---------------------------------------------------------------------------
Init ==
  /\ copier = [d \in Dirs |-> "reading"] /\ result = [d \in Dirs |-> "none"]
  /\ main = "select" /\ linger = FALSE
  /\ written = [d \in Dirs |-> 0] /\ counted = [d \in Dirs |-> 0] /\ totals = [d \in Dirs |-> 0]
  /\ open = [p \in Peers |-> TRUE] /\ cut = [p \in Peers |-> "no"]
  /\ peer = [p \in Peers |-> "open"] /\ reset = [p \in Peers |-> FALSE]
  /\ inbound = [p \in Peers |-> 0] /\ outbound = [p \in Peers |-> 0]
  /\ produced = [p \in Peers |-> 0] /\ got = [p \in Peers |-> 0]

Main == UpstreamEnded \/ ClientEnded \/ AddUp \/ CloseDeferred

Peer(p) == PeerSends(p) \/ PeerReads(p) \/ PeerShuts(p) \/ PeerCloses(p) \/ PeerResets(p)

Finished == main = "over" /\ UNCHANGED vars

Next == (\E d \in Dirs : Copy(d)) \/ Main \/ (\E p \in Peers : Peer(p)) \/ Finished

Spec == Init /\ [][Next]_vars

\* The goroutines run; a peer that is alive reads what it is sent (one that
\* never does holds the relay, and its slot, for ever: no deadline is set while
\* copying).
FairSpec ==
  /\ Spec
  /\ WF_vars(Main)
  /\ \A d \in Dirs : WF_vars(Copy(d))
  /\ \A p \in Peers : WF_vars(PeerReads(p))

---------------------------------------------------------------------------
(* Properties *)

\* The state has its type.
TypeOK ==
  /\ copier \in [Dirs -> {"reading", "counting", "writing", "ended"}]
  /\ written \in [Dirs -> Nat]
  /\ result \in [Dirs -> {"none", "eof", "error"}]
  /\ main \in {"select", "joining", "counted", "over"} /\ linger \in BOOLEAN
  /\ counted \in [Dirs -> Nat] /\ totals \in [Dirs -> Nat]
  /\ open \in [Peers -> BOOLEAN] /\ cut \in [Peers -> {"no", "fin", "reset"}]
  /\ peer \in [Peers -> {"open", "shut", "dead"}] /\ reset \in [Peers -> BOOLEAN]
  /\ inbound \in [Peers -> 0 .. Window] /\ outbound \in [Peers -> 0 .. Window]
  /\ produced \in [Peers -> Nat] /\ got \in [Peers -> Nat]

\* The totals are added up once nobody counts any more: they are the final
\* numbers of the connection, and cover every byte that a Write took or a peer
\* has received.
TotalsFinal ==
  main \in {"counted", "over"} =>
    /\ totals = counted
    /\ \A d \in Dirs : got[Target(d)] <= written[d] /\ written[d] <= totals[d]

\* When relay returns it leaves nothing behind: no goroutine is still copying
\* on the connections and none of them is open.
NothingLeftBehind ==
  main = "over" => /\ \A d \in Dirs : copier[d] = "ended"
                   /\ \A p \in Peers : ~open[p]

\* An upstream that ends its stream in order, to a client that is there and has
\* not ended its own, loses nothing: when that client reads the end of the
\* stream it has received every byte.  (A client with bytes still unread by the
\* proxy gets a reset instead, and may lose the tail.)
WholeAnswer ==
  /\ peer["up"] # "open" /\ ~reset["up"]
  /\ peer["down"] = "open" /\ ~reset["down"]
  /\ cut["down"] = "fin" /\ outbound["down"] = 0
  => got["down"] = produced["up"]

\* Once a peer has ended its stream or died, relay comes to its end, whatever
\* the other peer does, as long as it reads.
EndsWithEitherPeer ==
  (\E p \in Peers : peer[p] # "open") ~> main = "over"
=============================================================================
