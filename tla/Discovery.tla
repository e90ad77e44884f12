----------------------------- MODULE Discovery -----------------------------
(***************************************************************************)
(* pkg/server/server.go, discoverModulesFromUpstream: the proxy as a       *)
(* client that asks an upstream for the list of its modules.  It reads     *)
(* through a bufio.Reader, line by line, so that it does not matter how    *)
(* the stream is cut into segments.  A stream is a sequence of pieces: NL, *)
(* what starts with "@RSYNCD:" (Version, Exit) and words.  This module has *)
(* no behaviour of its own; Conversation.tla composes it with those who    *)
(* answer.                                                                 *)
(***************************************************************************)
EXTENDS Integers, Sequences, FiniteSets, SequencesExt

VARIABLES asker,            \* where the discovery is
          heardSoFar,       \* how much of the answer it has read
          found             \* modules, in the order of the list

askerVars == <<asker, heardSoFar, found>>

NL == "NL"
Version == "@RSYNCD: 32.0"
Exit == "@RSYNCD: EXIT"
ProxyHeader == "PROXY"      \* writeProxyProtocolHeader, a line of its own

IsProtocol(line) == line # << >> /\ Head(line) \in {Version, Exit}

\* Length of the first line of a stream, NL not counted; its NL must be there.
LineLength(s) == SelectInSeq(s, LAMBDA x : x = NL) - 1
HasLine(s) == NL \in ToSet(s)
FirstLine(s) == SubSeq(s, 1, LineLength(s))
AfterLine(s) == SubSeq(s, LineLength(s) + 2, Len(s))

---------------------------------------------------------------------------
\* What is still to be read of stream s.
Unheard(s) == SubSeq(s, heardSoFar + 1, Len(s))

\* The next line, whose NL must have come.
NextLine(s) == FirstLine(Unheard(s))

\* reader.ReadString('\n')
ReadString(s) ==
  /\ HasLine(Unheard(s))
  /\ heardSoFar' = heardSoFar + Len(NextLine(s)) + 1

\* The connection is there and the proxy's version is sent.
Ask ==
  /\ asker = "idle" /\ asker' = "greeted"
  /\ UNCHANGED <<heardSoFar, found>>

\* The server's version; then the request for the list is sent.
HearVersion(s) ==
  /\ asker = "greeted" /\ ReadString(s)
  /\ IsProtocol(NextLine(s))
  /\ asker' = "listing"
  /\ UNCHANGED found

HearStranger(s) ==
  /\ asker = "greeted" /\ ReadString(s)
  /\ ~IsProtocol(NextLine(s))
  /\ asker' = "failed"
  /\ UNCHANGED found

\* A line of the list is the name of a module and perhaps a comment.
HearModule(s) ==
  /\ asker = "listing" /\ ReadString(s)
  /\ NextLine(s) # << >> /\ ~IsProtocol(NextLine(s))
  /\ found' = Append(found, Head(NextLine(s)))
  /\ UNCHANGED asker

\* Mutant of HearBlank: what came before stays.
HearBlankKeeping(s) ==
  /\ asker = "listing" /\ ReadString(s)
  /\ NextLine(s) = << >>
  /\ UNCHANGED <<asker, found>>

\* After an empty line, what came before was not the list but a motd.
HearBlank(s) ==
  /\ asker = "listing" /\ ReadString(s)
  /\ NextLine(s) = << >>
  /\ found' = << >>
  /\ UNCHANGED asker

HearEnd(s) ==
  /\ asker = "listing" /\ ReadString(s)
  /\ IsProtocol(NextLine(s))
  /\ asker' = "done"
  /\ UNCHANGED found

\* All but the first line, after which something is to be said.
Hear(s) == HearStranger(s) \/ HearModule(s) \/ HearBlank(s) \/ HearEnd(s)

\* Any dial, write or read may fail; a read ends at its deadline if nothing
\* comes, and at the end of the stream.
AskFails ==
  /\ asker \in {"idle", "greeted", "listing"}
  /\ asker' = "failed"
  /\ UNCHANGED <<heardSoFar, found>>

Asking == asker \in {"greeted", "listing"}

AskerInit == asker = "idle" /\ heardSoFar = 0 /\ found = << >>
=============================================================================
