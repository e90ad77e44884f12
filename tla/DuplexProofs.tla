---------------------------- MODULE DuplexProofs ----------------------------
(***************************************************************************)
(* Proofs about Duplex, for peers that send any number of bytes and any    *)
(* window.  The invariant follows a byte through its direction (Counts,    *)
(* Carries, Arrives), says why a copier has ended (AtEnd, Cause) and what  *)
(* relay has done by each point of its code (Phases).                      *)
(***************************************************************************)
EXTENDS Duplex, TLAPS

---------------------------------------------------------------------------
(* The inductive invariant *)

\* A byte is counted before it is written; an ended copier may have counted
\* one that it could not write.
Counts(d) ==
  /\ written[d] <= counted[d]
  /\ copier[d] \in {"reading", "counting"} => counted[d] = written[d]
  /\ copier[d] = "writing" => counted[d] = written[d] + 1

\* While d is copied, what its source has sent is in flight, in the hands of
\* the copier, or written.
Carries(d) ==
  copier[d] # "ended" /\ open[Source(d)]
    => produced[Source(d)] = inbound[Source(d)] + written[d]
                               + (IF copier[d] = "reading" THEN 0 ELSE 1)

\* What was written is in flight or received; some of it may be lost to a peer
\* that has died or has been reset.
Arrives(d) ==
  /\ got[Target(d)] + outbound[Target(d)] <= written[d]
  /\ peer[Target(d)] # "dead" /\ cut[Target(d)] # "reset"
       => got[Target(d)] + outbound[Target(d)] = written[d]

\* A copier that has read the end of its stream has written all of it.
AtEnd(d) ==
  result[d] = "eof" =>
    copier[d] = "ended" /\ peer[Source(d)] # "open" /\ written[d] = produced[Source(d)]

SomeReset == reset["up"] \/ reset["down"]

\* Before relay closes anything, a copier ends at the end of its stream or by a
\* reset.
Cause(d) == main = "select" /\ copier[d] = "ended" => result[d] = "eof" \/ SomeReset

Phases ==
  /\ main = "select" => \A p \in Peers : open[p]
  /\ main # "select" => /\ \E p \in Peers : ~open[p]
                        /\ result["sent"] = "eof" \/ SomeReset \/ peer["down"] # "open"
  /\ main \in {"counted", "over"} => totals = counted /\ \A d \in Dirs : copier[d] = "ended"
  /\ main = "over" => \A p \in Peers : ~open[p]
  /\ \A p \in Peers : cut[p] # "no" => ~open[p]

Flows(d) == Counts(d) /\ Carries(d) /\ Arrives(d) /\ AtEnd(d) /\ Cause(d)

IInv == TypeOK /\ Phases /\ \A d \in Dirs : Flows(d)

---------------------------------------------------------------------------
\* At first nothing has moved.
LEMMA InitIInv == Init => IInv
<1> SUFFICES ASSUME Init PROVE IInv
  OBVIOUS
<1>1. TypeOK
  <2>1. 0 \in 0 .. Window
    BY WindowAssumption
  <2> QED BY <2>1 DEF Init, TypeOK
<1>2. Phases
  BY DEF Init, Phases
<1>3. \A d \in Dirs : Flows(d)
  BY DEF Init, Flows, Counts, Carries, Arrives, AtEnd, Cause, Source, Target, Dirs, Peers
<1> QED BY <1>1, <1>2, <1>3 DEF IInv

\* A byte is taken from its connection.
LEMMA ReadByteStep ==
  ASSUME IInv, NEW d \in Dirs, ReadByte(d)
  PROVE  IInv'
<1>1. TypeOK'
  BY WindowAssumption DEF ReadByte, IInv, TypeOK, Dirs, Peers, Source, Target
<1>2. Phases'
  BY DEF ReadByte, IInv, TypeOK, Phases, Flows, Cause, AtEnd, SomeReset, Dirs, Peers, Source, Target
<1>3. ASSUME NEW e \in Dirs PROVE Flows(e)'
  BY DEF ReadByte, IInv, TypeOK, Phases, Flows, Counts, Carries, Arrives, AtEnd, Cause, SomeReset,
     Dirs, Peers, Source, Target
<1> QED BY <1>1, <1>2, <1>3 DEF IInv

\* It is counted.
LEMMA CountByteStep ==
  ASSUME IInv, NEW d \in Dirs, CountByte(d)
  PROVE  IInv'
<1>1. TypeOK'
  BY WindowAssumption DEF CountByte, netVars, IInv, TypeOK, Dirs, Peers, Source, Target
<1>2. Phases'
  BY DEF CountByte, netVars, IInv, TypeOK, Phases, Flows, Cause, AtEnd, SomeReset, Dirs, Peers, Source, Target
<1>3. ASSUME NEW e \in Dirs PROVE Flows(e)'
  BY DEF CountByte, netVars, IInv, TypeOK, Phases, Flows, Counts, Carries, Arrives, AtEnd, Cause, SomeReset,
     Dirs, Peers, Source, Target
<1> QED BY <1>1, <1>2, <1>3 DEF IInv

\* It is written.
LEMMA WriteByteStep ==
  ASSUME IInv, NEW d \in Dirs, WriteByte(d)
  PROVE  IInv'
<1>1. TypeOK'
  BY WindowAssumption DEF WriteByte, IInv, TypeOK, Dirs, Peers, Source, Target
<1>2. Phases'
  BY DEF WriteByte, IInv, TypeOK, Phases, Flows, Cause, AtEnd, SomeReset, Dirs, Peers, Source, Target
<1>3. ASSUME NEW e \in Dirs PROVE Flows(e)'
  BY DEF WriteByte, IInv, TypeOK, Phases, Flows, Counts, Carries, Arrives, AtEnd, Cause, SomeReset,
     Dirs, Peers, Source, Target
<1> QED BY <1>1, <1>2, <1>3 DEF IInv

\* It is written to a peer that has gone.
LEMMA WriteToDeadStep ==
  ASSUME IInv, NEW d \in Dirs, WriteToDead(d)
  PROVE  IInv'
<1>1. TypeOK'
  BY WindowAssumption DEF WriteToDead, IInv, TypeOK, Dirs, Peers, Source, Target
<1>2. Phases'
  BY DEF WriteToDead, IInv, TypeOK, Phases, Flows, Cause, AtEnd, SomeReset, Dirs, Peers, Source, Target
<1>3. ASSUME NEW e \in Dirs PROVE Flows(e)'
  <2>1. CASE e = d
    BY <2>1 DEF WriteToDead, IInv, TypeOK, Phases, Flows, Counts, Carries, Arrives, AtEnd, Cause,
       SomeReset, Dirs, Peers, Source, Target
  <2>2. CASE e # d
    BY <2>2 DEF WriteToDead, IInv, TypeOK, Phases, Flows, Counts, Carries, Arrives, AtEnd, Cause,
       SomeReset, Dirs, Peers, Source, Target
  <2> QED BY <2>1, <2>2
<1> QED BY <1>1, <1>2, <1>3 DEF IInv

\* The stream ends.
LEMMA ReadEOFStep ==
  ASSUME IInv, NEW d \in Dirs, ReadEOF(d)
  PROVE  IInv'
<1>1. TypeOK'
  BY WindowAssumption DEF ReadEOF, End, netVars, IInv, TypeOK, Dirs, Peers, Source, Target
<1>2. Phases'
  BY DEF ReadEOF, End, netVars, IInv, TypeOK, Phases, Flows, Cause, AtEnd, SomeReset, Dirs, Peers, Source, Target
<1>3. ASSUME NEW e \in Dirs PROVE Flows(e)'
  BY DEF ReadEOF, End, netVars, IInv, TypeOK, Phases, Flows, Counts, Carries, Arrives, AtEnd, Cause, SomeReset,
     Dirs, Peers, Source, Target
<1> QED BY <1>1, <1>2, <1>3 DEF IInv

\* A read fails.
LEMMA ReadErrorStep ==
  ASSUME IInv, NEW d \in Dirs, ReadError(d)
  PROVE  IInv'
<1>1. TypeOK'
  BY WindowAssumption DEF ReadError, End, netVars, IInv, TypeOK, Dirs, Peers, Source, Target
<1>2. Phases'
  BY DEF ReadError, End, netVars, IInv, TypeOK, Phases, Flows, Cause, AtEnd, SomeReset, Dirs, Peers, Source, Target
<1>3. ASSUME NEW e \in Dirs PROVE Flows(e)'
  BY DEF ReadError, End, netVars, IInv, TypeOK, Phases, Flows, Counts, Carries, Arrives, AtEnd, Cause, SomeReset,
     Dirs, Peers, Source, Target
<1> QED BY <1>1, <1>2, <1>3 DEF IInv

\* A write fails.
LEMMA WriteErrorStep ==
  ASSUME IInv, NEW d \in Dirs, WriteError(d)
  PROVE  IInv'
<1>1. TypeOK'
  BY WindowAssumption DEF WriteError, End, netVars, IInv, TypeOK, Dirs, Peers, Source, Target
<1>2. Phases'
  BY DEF WriteError, End, netVars, IInv, TypeOK, Phases, Flows, Cause, AtEnd, SomeReset, Dirs, Peers, Source, Target
<1>3. ASSUME NEW e \in Dirs PROVE Flows(e)'
  BY DEF WriteError, End, netVars, IInv, TypeOK, Phases, Flows, Counts, Carries, Arrives, AtEnd, Cause, SomeReset,
     Dirs, Peers, Source, Target
<1> QED BY <1>1, <1>2, <1>3 DEF IInv

\* relay closes the client's connection.
LEMMA UpstreamEndedStep ==
  ASSUME IInv, UpstreamEnded
  PROVE  IInv'
<1>1. TypeOK'
  BY WindowAssumption DEF UpstreamEnded, Close, IInv, TypeOK, Dirs, Peers, Source, Target
<1>2. Phases'
  BY DEF UpstreamEnded, Close, IInv, TypeOK, Phases, Flows, Cause, AtEnd, SomeReset, Dirs, Peers, Source, Target
<1>3. ASSUME NEW e \in Dirs PROVE Flows(e)'
  BY DEF UpstreamEnded, Close, IInv, TypeOK, Phases, Flows, Counts, Carries, Arrives, AtEnd, Cause, SomeReset,
     Dirs, Peers, Source, Target
<1> QED BY <1>1, <1>2, <1>3 DEF IInv

\* relay closes the upstream's connection.
LEMMA ClientEndedStep ==
  ASSUME IInv, ClientEnded
  PROVE  IInv'
<1>1. TypeOK'
  BY WindowAssumption DEF ClientEnded, Close, IInv, TypeOK, Dirs, Peers, Source, Target
<1>2. Phases'
  BY DEF ClientEnded, Close, IInv, TypeOK, Phases, Flows, Cause, AtEnd, SomeReset, Dirs, Peers, Source, Target
<1>3. ASSUME NEW e \in Dirs PROVE Flows(e)'
  BY DEF ClientEnded, Close, IInv, TypeOK, Phases, Flows, Counts, Carries, Arrives, AtEnd, Cause, SomeReset,
     Dirs, Peers, Source, Target
<1> QED BY <1>1, <1>2, <1>3 DEF IInv

\* relay adds up, when both copiers have ended.
LEMMA AddUpStep ==
  ASSUME IInv, AddUp
  PROVE  IInv'
<1>1. TypeOK'
  BY WindowAssumption DEF AddUp, netVars, IInv, TypeOK, Dirs, Peers, Source, Target
<1>2. Phases'
  BY DEF AddUp, netVars, IInv, TypeOK, Phases, Flows, Cause, AtEnd, SomeReset, Dirs, Peers, Source, Target
<1>3. ASSUME NEW e \in Dirs PROVE Flows(e)'
  BY DEF AddUp, netVars, IInv, TypeOK, Phases, Flows, Counts, Carries, Arrives, AtEnd, Cause, SomeReset,
     Dirs, Peers, Source, Target
<1> QED BY <1>1, <1>2, <1>3 DEF IInv

\* relay returns.
LEMMA CloseDeferredStep ==
  ASSUME IInv, CloseDeferred
  PROVE  IInv'
<1>1. TypeOK'
  BY WindowAssumption DEF CloseDeferred, Close, IInv, TypeOK, Dirs, Peers, Source, Target
<1>2. Phases'
  BY DEF CloseDeferred, Close, IInv, TypeOK, Phases, Flows, Cause, AtEnd, SomeReset, Dirs, Peers, Source, Target
<1>3. ASSUME NEW e \in Dirs PROVE Flows(e)'
  BY DEF CloseDeferred, Close, IInv, TypeOK, Phases, Flows, Counts, Carries, Arrives, AtEnd, Cause, SomeReset,
     Dirs, Peers, Source, Target
<1> QED BY <1>1, <1>2, <1>3 DEF IInv

\* The peers send,
LEMMA PeerSendsStep ==
  ASSUME IInv, NEW p \in Peers, PeerSends(p)
  PROVE  IInv'
<1>1. TypeOK'
  BY WindowAssumption DEF PeerSends, proxyVars, IInv, TypeOK, Dirs, Peers, Source, Target
<1>2. Phases'
  BY DEF PeerSends, proxyVars, IInv, TypeOK, Phases, Flows, Cause, AtEnd, SomeReset, Dirs, Peers, Source, Target
<1>3. ASSUME NEW e \in Dirs PROVE Flows(e)'
  BY DEF PeerSends, proxyVars, IInv, TypeOK, Phases, Flows, Counts, Carries, Arrives, AtEnd, Cause, SomeReset,
     Dirs, Peers, Source, Target
<1> QED BY <1>1, <1>2, <1>3 DEF IInv

\* receive,
LEMMA PeerReadsStep ==
  ASSUME IInv, NEW p \in Peers, PeerReads(p)
  PROVE  IInv'
<1>1. TypeOK'
  BY WindowAssumption DEF PeerReads, proxyVars, IInv, TypeOK, Dirs, Peers, Source, Target
<1>2. Phases'
  BY DEF PeerReads, proxyVars, IInv, TypeOK, Phases, Flows, Cause, AtEnd, SomeReset, Dirs, Peers, Source, Target
<1>3. ASSUME NEW e \in Dirs PROVE Flows(e)'
  BY DEF PeerReads, proxyVars, IInv, TypeOK, Phases, Flows, Counts, Carries, Arrives, AtEnd, Cause, SomeReset,
     Dirs, Peers, Source, Target
<1> QED BY <1>1, <1>2, <1>3 DEF IInv

\* end their streams,
LEMMA PeerShutsStep ==
  ASSUME IInv, NEW p \in Peers, PeerShuts(p)
  PROVE  IInv'
<1>1. TypeOK'
  BY WindowAssumption DEF PeerShuts, proxyVars, IInv, TypeOK, Dirs, Peers, Source, Target
<1>2. Phases'
  BY DEF PeerShuts, proxyVars, IInv, TypeOK, Phases, Flows, Cause, AtEnd, SomeReset, Dirs, Peers, Source, Target
<1>3. ASSUME NEW e \in Dirs PROVE Flows(e)'
  BY DEF PeerShuts, proxyVars, IInv, TypeOK, Phases, Flows, Counts, Carries, Arrives, AtEnd, Cause, SomeReset,
     Dirs, Peers, Source, Target
<1> QED BY <1>1, <1>2, <1>3 DEF IInv

\* close,
LEMMA PeerClosesStep ==
  ASSUME IInv, NEW p \in Peers, PeerCloses(p)
  PROVE  IInv'
<1>1. TypeOK'
  BY WindowAssumption DEF PeerCloses, proxyVars, IInv, TypeOK, Dirs, Peers, Source, Target
<1>2. Phases'
  BY DEF PeerCloses, proxyVars, IInv, TypeOK, Phases, Flows, Cause, AtEnd, SomeReset, Dirs, Peers, Source, Target
<1>3. ASSUME NEW e \in Dirs PROVE Flows(e)'
  BY DEF PeerCloses, proxyVars, IInv, TypeOK, Phases, Flows, Counts, Carries, Arrives, AtEnd, Cause, SomeReset,
     Dirs, Peers, Source, Target
<1> QED BY <1>1, <1>2, <1>3 DEF IInv

\* and reset.
LEMMA PeerResetsStep ==
  ASSUME IInv, NEW p \in Peers, PeerResets(p)
  PROVE  IInv'
<1>1. TypeOK'
  BY WindowAssumption DEF PeerResets, proxyVars, IInv, TypeOK, Dirs, Peers, Source, Target
<1>2. Phases'
  BY DEF PeerResets, proxyVars, IInv, TypeOK, Phases, Flows, Cause, AtEnd, SomeReset, Dirs, Peers, Source, Target
<1>3. ASSUME NEW e \in Dirs PROVE Flows(e)'
  BY DEF PeerResets, proxyVars, IInv, TypeOK, Phases, Flows, Counts, Carries, Arrives, AtEnd, Cause, SomeReset,
     Dirs, Peers, Source, Target
<1> QED BY <1>1, <1>2, <1>3 DEF IInv

---------------------------------------------------------------------------
\* Every step of Duplex keeps the invariant.
THEOREM InvariantStep == IInv /\ [Next]_vars => IInv'
<1> SUFFICES ASSUME IInv, [Next]_vars PROVE IInv'
  OBVIOUS
<1>1. CASE UNCHANGED vars
  BY <1>1 DEF vars, IInv, TypeOK, Phases, Flows, Counts, Carries, Arrives, AtEnd, Cause, SomeReset
<1>2. ASSUME NEW d \in Dirs, Copy(d) PROVE IInv'
  BY <1>2, ReadByteStep, CountByteStep, ReadEOFStep, ReadErrorStep, WriteByteStep,
     WriteToDeadStep, WriteErrorStep DEF Copy
<1>3. CASE Main
  BY <1>3, UpstreamEndedStep, ClientEndedStep, AddUpStep, CloseDeferredStep DEF Main
<1>4. ASSUME NEW p \in Peers, Peer(p) PROVE IInv'
  BY <1>4, PeerSendsStep, PeerReadsStep, PeerShutsStep, PeerClosesStep, PeerResetsStep DEF Peer
<1> QED BY <1>1, <1>2, <1>3, <1>4 DEF Next, Finished

\* The invariant holds in every reachable state.
THEOREM Invariance == Spec => []IInv
  BY InitIInv, InvariantStep, PTL DEF Spec

\* The state has its type; in particular neither window overflows.
THEOREM TypeCorrect == Spec => []TypeOK
<1>1. IInv => TypeOK
  BY DEF IInv
<1> QED BY <1>1, Invariance, PTL

\* The totals that relay adds up are final and cover all bytes delivered.
THEOREM TotalsAreFinal == Spec => []TotalsFinal
<1>1. IInv => TotalsFinal
  BY DEF IInv, TypeOK, Phases, Flows, Counts, Arrives, TotalsFinal, Dirs, Peers, Target
<1> QED BY <1>1, Invariance, PTL

\* A relay that has returned has no goroutine and no connection left.
THEOREM NothingIsLeftBehind == Spec => []NothingLeftBehind
<1>1. IInv => NothingLeftBehind
  BY DEF IInv, Phases, NothingLeftBehind
<1> QED BY <1>1, Invariance, PTL

\* An answer that ends in order reaches a client that is still there whole.
THEOREM AnswersAreWhole == Spec => []WholeAnswer
<1>1. ASSUME IInv PROVE WholeAnswer
  <2> SUFFICES ASSUME ~reset["up"], peer["down"] = "open", ~reset["down"], cut["down"] = "fin",
                      outbound["down"] = 0
               PROVE  got["down"] = produced["up"]
    BY DEF WholeAnswer
  <2>1. main # "select"
    BY <1>1 DEF IInv, Phases, Peers
  <2>2. result["sent"] = "eof"
    BY <1>1, <2>1 DEF IInv, Phases, SomeReset
  <2>3. written["sent"] = produced["up"]
    BY <1>1, <2>2 DEF IInv, Flows, AtEnd, Dirs, Source
  <2>4. got["down"] + outbound["down"] = written["sent"]
    BY <1>1 DEF IInv, Flows, Arrives, Dirs, Target
  <2> QED BY <1>1, <2>3, <2>4 DEF IInv, TypeOK, Peers
<1> QED BY <1>1, Invariance, PTL
=============================================================================
