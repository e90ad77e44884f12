---------------------------- MODULE Conversation ----------------------------
(***************************************************************************)
(* What is said before the copying: pkg/server/server.go, relay from its   *)
(* first readLine to the reset of the deadlines (the queue is in           *)
(* Relay.tla), readLine of utils.go, and listAllModules.  The client is    *)
(* an rsync, or another rsync-proxy that discovers modules (Discovery.tla);*)
(* the upstream is an rsyncd.  TCP keeps bytes in order and cuts them      *)
(* anywhere: a Read returns any non-empty prefix of what was sent.         *)
(***************************************************************************)
EXTENDS Discovery

CONSTANTS Size,             \* ReadBufferSize, in pieces of a stream
          Served,           \* the modules configured
          Motds,            \* what proxy.motd may be
          Requests,         \* what an rsync client may ask for
          Openings          \* what an rsyncd says before it is asked: its
                            \* version, and perhaps a motd

\* A module's name, one piece, is shorter than what a full buffer without NL
\* keeps of a line.  (A request cut off there names no module that is served.)
ASSUME SizeAssumption == Size \in Nat /\ Size >= 3

\* A request is one line, an rsyncd's version line is short, what it says is
\* whole lines, and modules are not called what a line of the protocol is.
ASSUME WordsAssumption ==
  /\ IsFiniteSet(Served) /\ Served \subseteq STRING \ {NL, Version, Exit}
  /\ Motds \subseteq Seq(STRING)
  /\ \A r \in Requests :
       /\ r \in Seq(STRING) /\ r # << >> /\ Last(r) = NL
       /\ \A k \in 1 .. Len(r) - 1 : r[k] # NL
  /\ \A o \in Openings :
       /\ o \in Seq(STRING) /\ Len(o) >= 2 /\ Last(o) = NL
       /\ o[1] # NL /\ o[2] = NL

VARIABLES env,              \* who talks, and what they have to say
          pc,               \* where relay is
          buf,              \* what readLine has read so far
          version, name,    \* the client's version line, the module it wants
          said,             \* said[p]: all that peer p has sent
          taken,            \* taken[p]: how much of it relay has read
          heard             \* heard[p]: all that relay has written to p

streamVars == <<said, taken, heard>>
vars == <<env, pc, buf, version, name, streamVars, askerVars>>

Peers == {"down", "up"}

\* The proxy either serves a client, an rsync or a discovering proxy (perhaps
\* itself, while it reloads), or asks an rsyncd for its modules.
Serving == [by : {"proxy"}, client : {"rsync"}, motd : Motds, request : Requests,
            opening : Openings, header : BOOLEAN, self : {FALSE}]
Answering == [by : {"proxy"}, client : {"discovery"}, motd : Motds,
              request : {<< >>}, opening : {<< >>}, header : BOOLEAN, self : BOOLEAN]
AskingRsyncd == [by : {"rsyncd"}, client : {"discovery"}, motd : {<< >>},
                 request : {<< >>}, opening : Openings, header : BOOLEAN, self : {FALSE}]

Init ==
  /\ env \in Serving \cup Answering \cup AskingRsyncd
  /\ pc = IF env.by = "proxy" THEN "version" ELSE "accepted"
  /\ buf = << >> /\ version = << >> /\ name = << >>
  /\ said = [p \in Peers |-> << >>]
  /\ taken = [p \in Peers |-> 0]
  /\ heard = [p \in Peers |-> << >>]
  /\ AskerInit

Go(from, to) == pc = from /\ pc' = to
Write(p, what) == heard' = [heard EXCEPT ![p] = @ \o what]
Taken(p) == SubSeq(said[p], 1, taken[p])
InFlight(p) == SubSeq(said[p], taken[p] + 1, Len(said[p]))
Header == IF env.header THEN <<ProxyHeader, NL>> ELSE << >>

---------------------------------------------------------------------------
(* readLine *)

Reading(p) == pc \in (IF p = "down" THEN {"version", "request"} ELSE {"upstream"})

\* Mutants of LineRead: one Read is a line; only a full buffer is.
AnyRead == buf # << >>
FullRead == Len(buf) = Size

\* The loop ends when the last piece read is a NL, or the buffer is full.
LineRead == buf # << >> /\ (Last(buf) = NL \/ Len(buf) = Size)

Read(p) ==
  /\ Reading(p) /\ ~LineRead
  /\ \E n \in 1 .. Size - Len(buf) :
       /\ n <= Len(InFlight(p))
       /\ buf' = buf \o SubSeq(InFlight(p), 1, n)
       /\ taken' = [taken EXCEPT ![p] = @ + n]
  /\ UNCHANGED <<env, pc, version, name, said, heard, askerVars>>

\* Mutant: the deadline is set for reads from the client only.
TimesOutOnClient(p) == p = "down" /\ Reading(p) /\ ~LineRead /\ InFlight(p) = << >>

\* The deadline passes while nothing comes.
TimesOut(p) == Reading(p) /\ ~LineRead /\ InFlight(p) = << >>

---------------------------------------------------------------------------
(* relay *)

GreetClient ==
  /\ LineRead /\ IsProtocol(buf)
  /\ Go("version", "request")
  /\ version' = buf /\ buf' = << >>
  /\ Write("down", <<Version, NL>>)
  /\ UNCHANGED <<env, name, said, taken, askerVars>>

RefuseStranger ==
  /\ LineRead /\ ~IsProtocol(buf)
  /\ Go("version", "over")
  /\ UNCHANGED <<env, buf, version, name, streamVars, askerVars>>

MotdLine == IF env.motd = << >> THEN << >> ELSE env.motd \o <<NL>>

\* A single NL asks for all modules.
RequestList ==
  /\ LineRead /\ Len(buf) = 1
  /\ Go("request", "listing")
  /\ Write("down", MotdLine)
  /\ UNCHANGED <<env, buf, version, name, said, taken, askerVars>>

\* The last byte of the buffer is cut off, NL or not.
RequestModule ==
  /\ LineRead /\ Len(buf) > 1
  /\ Go("request", "routing")
  /\ Write("down", MotdLine)
  /\ name' = Front(buf) /\ buf' = << >>
  /\ UNCHANGED <<env, version, said, taken, askerVars>>

\* The read lock is not to be had while this very proxy, reloading, asks
\* itself for its modules under the write lock.
Unlocked == ~(env.self /\ Asking)

Known(m) == Len(m) = 1 /\ Head(m) \in Served

RefuseModule ==
  /\ Unlocked /\ ~Known(name)
  /\ Go("routing", "over")
  /\ Write("down", <<"@ERROR", NL>>)
  /\ UNCHANGED <<env, buf, version, name, said, taken, askerVars>>

\* A line for each module, in the order of the names.
ListLine(comment, i) == <<SetToSeq(Served)[i]>> \o comment \o <<NL>>

Listing(comment) ==
  LET width == Len(comment) + 2
  IN [k \in 1 .. width * Cardinality(Served) |->
        ListLine(comment, (k - 1) \div width + 1)[((k - 1) % width) + 1]]
       \o <<Exit, NL>>

ListAllModules ==
  /\ Unlocked
  /\ Go("listing", "over")
  /\ Write("down", Listing(<< >>))
  /\ UNCHANGED <<env, buf, version, name, said, taken, askerVars>>

Dial ==
  /\ Unlocked /\ Known(name)
  /\ Go("routing", "upstream")
  /\ Write("up", Header \o version)
  /\ UNCHANGED <<env, buf, version, name, said, taken, askerVars>>

\* Mutant of Rest: nothing is passed on.
NoRest == << >>

\* What has come with the upstream's version line: the start of its motd.
\* With no NL in a full buffer (idx = -1) that is all of it.
Rest == IF HasLine(buf) THEN AfterLine(buf) ELSE buf

GreetUpstream ==
  /\ LineRead /\ IsProtocol(buf)
  /\ Go("upstream", "copying")
  /\ heard' = [down |-> heard["down"] \o Rest, up |-> heard["up"] \o name \o <<NL>>]
  /\ buf' = << >>
  /\ UNCHANGED <<env, version, name, said, taken, askerVars>>

RefuseUpstream ==
  /\ LineRead /\ ~IsProtocol(buf)
  /\ Go("upstream", "over")
  /\ UNCHANGED <<env, buf, version, name, streamVars, askerVars>>

\* From here on relay only copies (Duplex.tla); no deadline is left.
Copy(p) ==
  /\ pc = "copying" /\ InFlight(p) # << >>
  /\ taken' = [taken EXCEPT ![p] = @ + 1]
  /\ Write(CHOOSE q \in Peers : q # p, <<Head(InFlight(p))>>)
  /\ UNCHANGED <<env, pc, buf, version, name, said, askerVars>>

\* Any read, write or dial may fail.  The client's connection is closed.
Fail ==
  /\ pc \in {"version", "request", "listing", "routing", "upstream"}
  /\ (pc \in {"listing", "routing"} => Unlocked)
  /\ pc' = "over"
  /\ UNCHANGED <<env, buf, version, name, streamVars, askerVars>>

Relay ==
  \/ GreetClient \/ RefuseStranger \/ RequestList \/ RequestModule
  \/ RefuseModule \/ ListAllModules \/ Dial \/ GreetUpstream \/ RefuseUpstream

---------------------------------------------------------------------------
(* Those relay talks to *)

Say(p, what) == said' = [said EXCEPT ![p] = @ \o what]

Speak(p, what) ==
  /\ Say(p, what)
  /\ UNCHANGED <<env, pc, buf, version, name, taken, heard, askerVars>>

\* An rsync asks for a module once it knows the server's version, and sends
\* its arguments once the daemon has agreed.
ClientTurn ==
  CASE said["down"] = << >> -> <<Version, NL>>
    [] said["down"] = <<Version, NL>> /\ HasLine(heard["down"]) -> env.request
    [] said["down"] = <<Version, NL>> \o env.request /\ "OK" \in ToSet(heard["down"])
         -> <<"arguments">>
    [] OTHER -> << >>

ClientSpeaks ==
  /\ env.client = "rsync" /\ ClientTurn # << >>
  /\ Speak("down", ClientTurn)

\* An rsyncd says its opening at once, and agrees when a module was named.
UpstreamTurn ==
  CASE said["up"] = << >> -> env.opening
    [] said["up"] = env.opening /\ heard["up"] = Header \o version \o name \o <<NL>>
         -> <<"OK", NL>>
    [] OTHER -> << >>

UpstreamSpeaks ==
  /\ pc \in {"upstream", "copying"} /\ UpstreamTurn # << >>
  /\ Speak("up", UpstreamTurn)

\* An rsyncd that a discovery talks to: its opening, then its list.
RsyncdOpens ==
  /\ Go("accepted", "opened")
  /\ Write("down", env.opening)
  /\ UNCHANGED <<env, buf, version, name, said, taken, askerVars>>

RsyncdLists ==
  /\ said["down"] = Header \o <<Version, NL, NL>>
  /\ Go("opened", "over")
  /\ Write("down", Listing(<<"comment">>))
  /\ UNCHANGED <<env, buf, version, name, said, taken, askerVars>>

AskerActs ==
  /\ env.client = "discovery"
  /\ \/ Ask /\ Say("down", Header \o <<Version, NL>>)
     \/ HearVersion(heard["down"]) /\ Say("down", <<NL>>)
     \/ Hear(heard["down"]) /\ UNCHANGED said
  /\ UNCHANGED <<env, pc, buf, version, name, taken, heard>>

\* A dial, write or read of the discovery fails.
AskerFails ==
  /\ env.client = "discovery" /\ AskFails
  /\ UNCHANGED <<env, pc, buf, version, name, streamVars>>

Next ==
  \/ Relay \/ Fail \/ ClientSpeaks \/ UpstreamSpeaks \/ RsyncdOpens \/ RsyncdLists
  \/ AskerActs \/ AskerFails
  \/ \E p \in Peers : Read(p) \/ Copy(p)

\* The proxy's own code goes on when it can, and deadlines pass; nobody else
\* need ever say a word.
Spec ==
  /\ Init /\ [][Next]_vars
  /\ WF_vars(Relay) /\ WF_vars(AskerActs)
  /\ \A p \in Peers : WF_vars(Read(p)) /\ WF_vars(TimesOut(p) /\ Fail)
  /\ WF_vars(~HasLine(Unheard(heard["down"])) /\ Asking /\ AskerFails)

---------------------------------------------------------------------------
(* Properties *)

\* Nothing is lost, repeated or reordered where the line protocol ends and the
\* copying begins, however TCP cuts the streams: the upstream has got all that
\* was read from the client, after the PROXY header it wants, and the module is
\* the one that was asked for, in a line that is complete; the client has got
\* one version, the proxy's motd, and all the upstream sent after its own.
StreamsIntact ==
  pc = "copying" =>
    /\ name \o <<NL>> = env.request
    /\ heard["up"] = Header \o Taken("down")
    /\ heard["down"] = <<Version, NL>> \o MotdLine \o AfterLine(Taken("up"))

\* Relay never waits for a peer that waits for relay: when a line is wanted and
\* nothing is under way, the peer has a turn of its own, or has gone.
NoMutualWait ==
  /\ TimesOut("down") =>
       IF env.client = "rsync" THEN ClientTurn # << >>
       ELSE ~Asking \/ (asker = "greeted" /\ HasLine(Unheard(heard["down"])))
  /\ TimesOut("up") => UpstreamTurn # << >>

\* A discovery that succeeds has found the modules that are served, each once,
\* and nothing else: no line of a motd, and no comment.
DiscoveryFindsModules ==
  asker = "done" => ToSet(found) = Served /\ Len(found) = Cardinality(Served)

\* The talk before the copying ends, whatever the others do, and a discovery
\* that has begun ends too, even if the proxy asks itself: its own deadline
\* gives back the lock that its own answer waits for.
TalkEnds ==
  /\ env.by = "proxy" => <>(pc \in {"copying", "over"})
  /\ Asking ~> ~Asking
=============================================================================
