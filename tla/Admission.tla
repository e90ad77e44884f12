----------------------------- MODULE Admission -----------------------------
(***************************************************************************)
(* What pkg/queue promises, without channels, handles or release flags: at *)
(* most limit clients inside, the others in one line, first come first     *)
(* served, each always knowing the verdict on it.                          *)
(***************************************************************************)
EXTENDS Integers, Sequences, FiniteSets, SequencesExt

CONSTANTS Clients, Limits, QueueLimits

VARIABLES limit, lineLimit, inside, line, verdict

vars == <<limit, lineLimit, inside, line, verdict>>

Room(n) == limit = 0 \/ n < limit

\* A client arrives: it is let in if there is room, else it joins the line,
\* else (the line is as long as it may be) it is refused.
Enter(c) ==
  /\ c \notin inside \cup ToSet(line) /\ verdict[c] = "gone"
  /\ UNCHANGED <<limit, lineLimit>>
  /\ \/ /\ Room(Cardinality(inside))
        /\ inside' = inside \cup {c} /\ UNCHANGED line
        /\ verdict' = [verdict EXCEPT ![c] = "granted"]
     \/ /\ ~Room(Cardinality(inside))
        /\ lineLimit > 0 => Len(line) < lineLimit
        /\ line' = Append(line, c) /\ UNCHANGED inside
        /\ verdict' = [verdict EXCEPT ![c] = "waiting"]
     \/ /\ ~Room(Cardinality(inside))
        /\ lineLimit > 0 /\ Len(line) >= lineLimit
        /\ verdict' = [verdict EXCEPT ![c] = "refused"]
        /\ UNCHANGED <<inside, line>>

\* A client no longer cares for its verdict: it is about to leave.
TurnAway(c) ==
  /\ verdict[c] # "gone"
  /\ verdict' = [verdict EXCEPT ![c] = "gone"]
  /\ UNCHANGED <<limit, lineLimit, inside, line>>

\* A client gives up its place in the line; those behind it close up.
GiveUp(c) ==
  /\ verdict[c] = "gone"
  /\ \E i \in DOMAIN line : line[i] = c /\ line' = RemoveAt(line, i)
  /\ UNCHANGED <<limit, lineLimit, inside, verdict>>

\* A client that is not in the line leaves (one that was refused, or left
\* before, changes nothing by it): a prefix of the line is let in, no more
\* than there is room for and no fewer.
Depart(c) ==
  /\ verdict[c] = "gone"
  /\ c \notin ToSet(line)
  /\ \E n \in 0 .. Len(line) :
       LET called == ToSet(SubSeq(line, 1, n))
       IN /\ inside' = (inside \ {c}) \cup called
          /\ line' = SubSeq(line, n + 1, Len(line))
          /\ n > 0 => Room(Cardinality(inside') - 1)
          /\ line' # << >> => ~Room(Cardinality(inside'))
          /\ verdict' = [d \in Clients |-> IF d \in called /\ verdict[d] # "gone"
                                         THEN "granted" ELSE verdict[d]]
  /\ UNCHANGED <<limit, lineLimit>>

\* New limits bind arrivals and departures only.
SetLimits ==
  /\ limit' \in Limits /\ lineLimit' \in QueueLimits
  /\ UNCHANGED <<inside, line, verdict>>

Init ==
  /\ limit \in Limits /\ lineLimit \in QueueLimits
  /\ inside = {} /\ line = << >>
  /\ verdict = [c \in Clients |-> "gone"]

Next == SetLimits \/ \E c \in Clients : Enter(c) \/ TurnAway(c) \/ GiveUp(c) \/ Depart(c)

Spec == Init /\ [][Next]_vars
=============================================================================
