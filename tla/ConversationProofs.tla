------------------------- MODULE ConversationProofs -------------------------
(***************************************************************************)
(* Proofs about Conversation.tla, for any modules, motds, requests and     *)
(* openings of the assumed shape, any buffer of three pieces or more and   *)
(* any cutting of the streams.                                             *)
(***************************************************************************)
EXTENDS Conversation, FiniteSetTheorems, SequenceTheorems, WellFoundedInduction, TLAPS

(* ---------------------------- The invariant ---------------------------- *)

\* Streams are sequences of pieces.  (The provers do not know that what is
\* named beside STRING is in it.)
Piece == STRING \cup {NL, Version, Exit, ProxyHeader, "OK", "@ERROR", "arguments", "comment"}

Greeting == <<Version, NL>>

\* What a client says before its version, and what it asks for.
ClientHeader == IF env.client = "rsync" THEN << >> ELSE Header
Wanted == IF env.client = "rsync" THEN env.request ELSE <<NL>>

Stages == {"version", "request", "listing", "routing", "upstream", "copying", "over"}

TypeOK ==
  /\ env \in Serving \cup Answering \cup AskingRsyncd
  /\ pc \in IF env.by = "proxy" THEN Stages ELSE {"accepted", "opened", "over"}
  /\ {buf, version, name, found} \subseteq Seq(Piece)
  /\ said \in [Peers -> Seq(Piece)] /\ heard \in [Peers -> Seq(Piece)]
  /\ taken \in [Peers -> Nat]
  /\ \A p \in Peers : taken[p] <= Len(said[p])
  /\ asker \in {"idle", "greeted", "listing", "done", "failed"}
  /\ heardSoFar \in Nat

\* At the client's first line relay has said nothing.
AtVersion ==
  pc = "version" =>
    /\ Taken("down") = buf /\ heard["down"] = << >>
    /\ said["down"] \in {<< >>, ClientHeader \o Greeting}

\* Only a client without a header has come further.
AtRequest ==
  pc = "request" =>
    /\ ClientHeader = << >> /\ version = Greeting
    /\ Taken("down") = Greeting \o buf /\ heard["down"] = Greeting
    /\ said["down"] \in {Greeting, Greeting \o Wanted}

AtListing == pc = "listing" => heard["down"] = Greeting \o MotdLine

\* A name that is served was asked for in a line that is complete.
AtRouting ==
  pc = "routing" =>
    /\ buf = << >> /\ version = Greeting
    /\ heard["down"] = Greeting \o MotdLine
    /\ Known(name) => /\ name \o <<NL>> = env.request
                      /\ Taken("down") = Greeting \o env.request

AtUpstream ==
  pc = "upstream" =>
    /\ version = Greeting /\ heard["down"] = Greeting \o MotdLine
    /\ name \o <<NL>> = env.request
    /\ Taken("down") = Greeting \o env.request
    /\ heard["up"] = Header \o Greeting
    /\ Taken("up") = buf /\ said["up"] \in {<< >>, env.opening}

\* The upstream's own line has been read, whatever has been read of the rest.
AtCopying == StreamsIntact /\ (pc = "copying" => HasLine(Taken("up")))

\* An rsyncd that a discovery asks has said its opening, or nothing.
AtRsyncd ==
  /\ pc = "accepted" => heard["down"] = << >>
  /\ pc = "opened" => heard["down"] = env.opening

UpstreamUntouched ==
  pc \notin {"upstream", "copying", "over"} => heard["up"] = << >> /\ said["up"] = << >>

\* No upstream is dialled for a discovery.
OnlyRsyncIsRouted == pc \in {"routing", "upstream", "copying"} => env.client = "rsync"

\* What a discovery has said tells how far it is.
AskerSays ==
  env.client = "discovery" =>
    /\ asker = "idle" => said["down"] = << >>
    /\ asker = "greeted" => said["down"] = Header \o Greeting
    /\ asker = "listing" => said["down"] = Header \o Greeting \o <<NL>>
    /\ asker \in {"idle", "greeted"} => heardSoFar = 0 /\ found = << >>
    /\ asker \in {"listing", "done"} => heard["down"] # << >>
RsyncAsksNot == env.client = "rsync" => asker = "idle"

RelayInv ==
  /\ TypeOK /\ AtVersion /\ AtRequest /\ AtListing /\ AtRouting /\ AtUpstream /\ AtCopying
  /\ AtRsyncd /\ UpstreamUntouched /\ OnlyRsyncIsRouted /\ AskerSays /\ RsyncAsksNot

(* ------------------------------ Discovery ------------------------------ *)

\* What is said to a discovery before the list, the list, and both.
Preface == IF env.by = "proxy" THEN Greeting \o MotdLine ELSE env.opening
Comment == IF env.by = "proxy" THEN << >> ELSE <<"comment">>
Answer == Preface \o Listing(Comment)
Width == Len(Comment) + 2

\* What was said to it so far is the beginning of the whole answer.
HeardOfAnswer ==
  env.client = "discovery" => IsPrefix(heard["down"], Answer)

\* The first i modules, in their order, are what was found.
FoundFirst(i) ==
  Len(found) = i /\ \A j \in 1 .. i : found[j] = SetToSeq(Served)[j]

\* The reader is at the start of a line, in the preface or in the list.
AskerPlace ==
  env.client = "discovery" =>
    /\ heardSoFar <= Len(heard["down"])
    /\ asker = "listing" =>
         \/ heardSoFar \in 2 .. Len(Preface) - 1
         \/ \E i \in 0 .. Cardinality(Served) :
              heardSoFar = Len(Preface) + Width * i /\ FoundFirst(i)
    /\ asker = "done" => FoundFirst(Cardinality(Served))

AskerInv == HeardOfAnswer /\ AskerPlace

\* A motd, or an rsyncd's text after its version line, that ends its last line
\* (so that the NL sent after it leaves a blank one) and looks like no line of
\* the protocol.
Ended(m) ==
  /\ m # << >> => Last(m) = NL
  /\ \A k \in 1 .. Len(m) : m[k] \notin {Version, Exit}

NoticesEnd ==
  /\ \A m \in Motds : Ended(m)
  /\ \A o \in Openings : Ended(SubSeq(o, 3, Len(o) - 1))

(* ------------------------ Lemmas about streams ------------------------- *)

\* The pieces that the code itself speaks.
LEMMA Spoken ==
  /\ NL \in Piece /\ Version \in Piece /\ Exit \in Piece /\ ProxyHeader \in Piece
  /\ "OK" \in Piece /\ "@ERROR" \in Piece /\ "arguments" \in Piece /\ "comment" \in Piece
  /\ NL # Version /\ NL # Exit /\ NL # ProxyHeader /\ NL # "OK" /\ NL # "comment"
  /\ Version # Exit /\ Version # ProxyHeader /\ Exit # ProxyHeader /\ Version # "OK"
<1>1. /\ NL \in Piece /\ Version \in Piece /\ Exit \in Piece /\ ProxyHeader \in Piece
      /\ "OK" \in Piece /\ "@ERROR" \in Piece /\ "arguments" \in Piece /\ "comment" \in Piece
  BY DEF Piece
<1>2. /\ NL # Version /\ NL # Exit /\ NL # ProxyHeader /\ NL # "OK" /\ NL # "comment"
      /\ Version # Exit /\ Version # ProxyHeader /\ Exit # ProxyHeader /\ Version # "OK"
  BY DEF NL, Version, Exit, ProxyHeader
<1> QED BY <1>1, <1>2

\* The shape of what is configured, asked for and answered.
LEMMA Configured ==
  /\ IsFiniteSet(Served) /\ Served \subseteq Piece
  /\ \A m \in Served : m # NL /\ m # Version /\ m # Exit
  /\ Motds \subseteq Seq(Piece)
  /\ \A r \in Requests :
       /\ r \in Seq(Piece) /\ r # << >> /\ Len(r) >= 1 /\ r[Len(r)] = NL
       /\ \A k \in 1 .. Len(r) - 1 : r[k] # NL
  /\ \A o \in Openings :
       /\ o \in Seq(Piece) /\ Len(o) >= 2 /\ o[Len(o)] = NL
       /\ o[1] # NL /\ o[2] = NL
<1>1. STRING \subseteq Piece /\ \A s \in Seq(STRING) : s \in Seq(Piece)
  <2>1. STRING \subseteq Piece
    BY DEF Piece
  <2> QED BY <2>1, SeqMonotonic, Zenon
<1>2. /\ Served \subseteq STRING /\ \A m \in Served : m # NL /\ m # Version /\ m # Exit
      /\ IsFiniteSet(Served) /\ Motds \subseteq Seq(STRING)
  BY WordsAssumption, Zenon
<1>3. ASSUME NEW r \in Requests
      PROVE  /\ r \in Seq(Piece) /\ r # << >> /\ Len(r) >= 1 /\ r[Len(r)] = NL
             /\ \A k \in 1 .. Len(r) - 1 : r[k] # NL
  <2>1. /\ r \in Seq(Piece) /\ r # << >> /\ r[Len(r)] = NL
        /\ \A k \in 1 .. Len(r) - 1 : r[k] # NL
    BY <1>1, WordsAssumption, Zenon DEF Last
  <2>2. Len(r) >= 1
    BY <2>1
  <2> QED BY <2>1, <2>2
<1>4. ASSUME NEW o \in Openings
      PROVE  /\ o \in Seq(Piece) /\ Len(o) >= 2 /\ o[Len(o)] = NL
             /\ o[1] # NL /\ o[2] = NL
  BY <1>1, WordsAssumption, Zenon DEF Last
<1>5. Served \subseteq Piece /\ Motds \subseteq Seq(Piece)
  BY <1>1, <1>2, Zenon
<1> QED BY <1>2, <1>3, <1>4, <1>5

\* Streams of one and of two pieces.
LEMMA ShortStreams ==
  ASSUME NEW x \in Piece, NEW y \in Piece
  PROVE  /\ <<x>> \in Seq(Piece) /\ Len(<<x>>) = 1 /\ <<x>>[1] = x
         /\ <<x, y>> \in Seq(Piece) /\ Len(<<x, y>>) = 2
         /\ <<x, y>>[1] = x /\ <<x, y>>[2] = y
         /\ <<x>> \o <<y>> = <<x, y>>
<1> DEFINE a == <<x>> \o <<y>>
           b == <<x, y>>
<1>1. /\ <<x>> \in Seq(Piece) /\ Len(<<x>>) = 1 /\ <<x>>[1] = x
      /\ <<y>> \in Seq(Piece) /\ b \in Seq(Piece) /\ Len(b) = 2 /\ b[1] = x /\ b[2] = y
  OBVIOUS
<1>2. a \in Seq(Piece) /\ Len(a) = 2 /\ a[1] = x /\ a[2] = y
  BY <1>1
<1> HIDE DEF a, b
<1>3. \A i \in 1 .. 2 : a[i] = b[i]
  BY <1>1, <1>2
<1>4. a = b
  BY <1>1, <1>2, <1>3, SeqEqual
<1> QED BY <1>1, <1>4 DEF a, b

\* A set of naturals that is not empty has a least element.
LEMMA LeastNatural ==
  ASSUME NEW T, T \subseteq Nat, T # {}
  PROVE  Min(T) \in T /\ \A y \in T : Min(T) <= y
<1>1. PICK x \in T : \A y \in T : ~ (<<y, x>> \in OpToRel(<, Nat))
  BY NatLessThanWellFounded, WFMin, Zenon
<1>2. \A y \in T : ~(y < x)
  BY <1>1 DEF OpToRel
<1>3. \E z \in T : \A y \in T : z <= y
  BY <1>2
<1> QED BY <1>3 DEF Min

\* LineLength is the place before the first NL.
LEMMA FirstNL ==
  ASSUME NEW s \in Seq(Piece), HasLine(s)
  PROVE  /\ LineLength(s) \in 0 .. Len(s) - 1
         /\ s[LineLength(s) + 1] = NL
         /\ \A k \in 1 .. LineLength(s) : s[k] # NL
<1> DEFINE I == {i \in 1 .. Len(s) : s[i] = NL}
<1>1. I \subseteq Nat /\ I # {}
  BY DEF HasLine, ToSet
<1>2. LineLength(s) = Min(I) - 1
  BY <1>1 DEF LineLength, SelectInSeq
<1>3. Min(I) \in I /\ \A y \in I : Min(I) <= y
  BY <1>1, LeastNatural
<1> HIDE DEF I
<1>4. Min(I) \in 1 .. Len(s) /\ s[Min(I)] = NL
  BY <1>3 DEF I
<1>5. \A k \in 1 .. Min(I) - 1 : s[k] # NL
  BY <1>3, <1>4 DEF I
<1> QED BY <1>2, <1>4, <1>5

\* The first NL is where one is and none before.
LEMMA LineLengthIs ==
  ASSUME NEW s \in Seq(Piece), NEW n \in 1 .. Len(s), s[n] = NL,
         \A k \in 1 .. n - 1 : s[k] # NL
  PROVE  HasLine(s) /\ LineLength(s) = n - 1
<1>1. HasLine(s)
  BY DEF HasLine, ToSet
<1>2. /\ LineLength(s) \in 0 .. Len(s) - 1 /\ s[LineLength(s) + 1] = NL
      /\ \A k \in 1 .. LineLength(s) : s[k] # NL
  BY <1>1, FirstNL
<1>3. ~(LineLength(s) + 1 < n) /\ ~(n < LineLength(s) + 1)
  BY <1>2
<1> QED BY <1>1, <1>2, <1>3

LEMMA Joined ==
  ASSUME NEW a \in Seq(Piece), NEW b \in Seq(Piece), NEW c \in Seq(Piece)
  PROVE  a \o b \in Seq(Piece) /\ (a \o b) \o c = a \o (b \o c)
  BY ConcatAssociative

\* Four streams one after the other.  (Cat keeps the provers from rewriting.)
Cat(s, t) == s \o t

LEMMA Joined4 ==
  ASSUME NEW a \in Seq(Piece), NEW b \in Seq(Piece), NEW c \in Seq(Piece), NEW d \in Seq(Piece)
  PROVE  Cat(Cat(Cat(a, b), c), d) = Cat(a, Cat(b, Cat(c, d)))
<1>1. \A u, v, w \in Seq(Piece) :
        Cat(u, v) \in Seq(Piece) /\ Cat(Cat(u, v), w) = Cat(u, Cat(v, w))
  BY Joined DEF Cat
<1> QED BY <1>1

\* What comes after two pieces.
LEMMA AfterTwo ==
  ASSUME NEW g \in Seq(Piece), NEW u \in Seq(Piece), Len(g) = 2
  PROVE  /\ Len(g \o u) = Len(u) + 2
         /\ \A i \in 1 .. Len(u) : (g \o u)[i + 2] = u[i]
<1> DEFINE x == g \o u
<1>1. Len(x) = Len(u) + 2 /\ Len(u) \in Nat
      /\ \A i \in 1 .. Len(u) + 2 : x[i] = IF i <= 2 THEN g[i] ELSE u[i - 2]
  <2>1. Len(x) = Len(g) + Len(u)
        /\ \A i \in 1 .. Len(g) + Len(u) : x[i] = IF i <= Len(g) THEN g[i] ELSE u[i - Len(g)]
    BY ConcatProperties, Zenon
  <2>2. Len(u) \in Nat /\ 2 + Len(u) = Len(u) + 2
    OBVIOUS
  <2> QED BY <2>1, <2>2, Zenon
<1> HIDE DEF x
<1>2. ASSUME NEW i \in 1 .. Len(u) PROVE x[i + 2] = u[i]
  <2>1. i + 2 \in 1 .. Len(u) + 2 /\ ~(i + 2 <= 2) /\ (i + 2) - 2 = i
    BY <1>1
  <2> QED BY <1>1, <2>1
<1> QED BY <1>1, <1>2 DEF x

\* What has been read once is the same when more has been sent.
LEMMA PrefixKept ==
  ASSUME NEW s \in Seq(Piece), NEW t \in Seq(Piece), NEW k \in 0 .. Len(s)
  PROVE  SubSeq(s \o t, 1, k) = SubSeq(s, 1, k)
<1>1. /\ SubSeq(s \o t, 1, k) \in Seq(Piece) /\ Len(SubSeq(s \o t, 1, k)) = k
      /\ SubSeq(s, 1, k) \in Seq(Piece) /\ Len(SubSeq(s, 1, k)) = k
  OBVIOUS
<1>2. \A i \in 1 .. k : SubSeq(s \o t, 1, k)[i] = SubSeq(s, 1, k)[i]
  OBVIOUS
<1> QED BY <1>1, <1>2, SeqEqual

\* A read takes the next n pieces.
LEMMA ReadsOn ==
  ASSUME NEW s \in Seq(Piece), NEW k \in 0 .. Len(s),
         NEW n \in 0 .. Len(SubSeq(s, k + 1, Len(s)))
  PROVE  /\ k + n \in 0 .. Len(s)
         /\ SubSeq(SubSeq(s, k + 1, Len(s)), 1, n) \in Seq(Piece)
         /\ SubSeq(s, 1, k + n) = SubSeq(s, 1, k) \o SubSeq(SubSeq(s, k + 1, Len(s)), 1, n)
<1> DEFINE a == SubSeq(s, 1, k)
           r == SubSeq(s, k + 1, Len(s))
           b == SubSeq(r, 1, n)
           c == SubSeq(s, 1, k + n)
<1>1. r \in Seq(Piece) /\ Len(r) = Len(s) - k /\ \A i \in 1 .. Len(s) - k : r[i] = s[k + i]
  OBVIOUS
<1>2. a \in Seq(Piece) /\ Len(a) = k /\ \A i \in 1 .. k : a[i] = s[i]
  OBVIOUS
<1>3. k + n \in 0 .. Len(s)
  BY <1>1
<1>4. c \in Seq(Piece) /\ Len(c) = k + n /\ \A i \in 1 .. k + n : c[i] = s[i]
  BY <1>3
<1> HIDE DEF r
<1>5. b \in Seq(Piece) /\ Len(b) = n /\ \A i \in 1 .. n : b[i] = r[i]
  BY <1>1 DEF r
<1> HIDE DEF a, b, c
<1>6. a \o b \in Seq(Piece) /\ Len(a \o b) = k + n
      /\ \A i \in 1 .. k + n : (a \o b)[i] = IF i <= k THEN a[i] ELSE b[i - k]
  BY <1>2, <1>5, ConcatProperties
<1>7. \A i \in 1 .. k + n : (a \o b)[i] = c[i]
  <2> SUFFICES ASSUME NEW i \in 1 .. k + n PROVE (a \o b)[i] = c[i]
    OBVIOUS
  <2>1. CASE i <= k
    BY <2>1, <1>2, <1>4, <1>6
  <2>2. CASE i > k
    <3>1. i - k \in 1 .. n /\ i - k \in 1 .. Len(s) - k
      BY <2>2, <1>3
    <3>2. (a \o b)[i] = b[i - k]
      BY <2>2, <1>6
    <3>3. b[i - k] = r[i - k] /\ r[i - k] = s[k + (i - k)]
      BY <3>1, <1>1, <1>5
    <3> QED BY <3>2, <3>3, <1>4
  <2>3. i <= k \/ i > k
    BY <1>1
  <2> QED BY <2>1, <2>2, <2>3, Zenon
<1>8. c = a \o b
  BY <1>4, <1>6, <1>7, SeqEqual
<1> QED BY <1>3, <1>5, <1>8 DEF a, b, c, r

\* What follows a line grows with the stream.
LEMMA AfterLineGrows ==
  ASSUME NEW s \in Seq(Piece), NEW t \in Seq(Piece), HasLine(s)
  PROVE  /\ HasLine(s \o t) /\ AfterLine(s) \in Seq(Piece)
         /\ AfterLine(s \o t) = AfterLine(s) \o t
<1> DEFINE n == LineLength(s) + 1
           u == s \o t
<1>1. n \in 1 .. Len(s) /\ s[n] = NL /\ \A k \in 1 .. n - 1 : s[k] # NL
  BY FirstNL
<1> HIDE DEF n
<1>2. u \in Seq(Piece) /\ Len(u) = Len(s) + Len(t)
      /\ \A i \in 1 .. Len(s) + Len(t) : u[i] = IF i <= Len(s) THEN s[i] ELSE t[i - Len(s)]
  BY ConcatProperties
<1> HIDE DEF u
<1>3. HasLine(u) /\ LineLength(u) = n - 1
  <2>1. n \in 1 .. Len(u) /\ u[n] = NL /\ \A k \in 1 .. n - 1 : u[k] # NL
    BY <1>1, <1>2
  <2> QED BY <2>1, <1>2, LineLengthIs
<1>4. AfterLine(s) = SubSeq(s, n + 1, Len(s)) /\ AfterLine(u) = SubSeq(u, n + 1, Len(u))
  <2>1. LineLength(s) \in Int /\ n = LineLength(s) + 1
    BY FirstNL DEF n
  <2>2. LineLength(s) + 2 = n + 1 /\ LineLength(u) + 2 = n + 1
    BY <2>1, <1>1, <1>3
  <2> QED BY <2>2 DEF AfterLine
<1> DEFINE x == SubSeq(s, n + 1, Len(s))
           y == SubSeq(u, n + 1, Len(u))
<1>5. x \in Seq(Piece) /\ Len(x) = Len(s) - n /\ \A i \in 1 .. Len(s) - n : x[i] = s[n + i]
  BY <1>1
<1>6. y \in Seq(Piece) /\ Len(y) = Len(u) - n /\ \A i \in 1 .. Len(u) - n : y[i] = u[n + i]
  BY <1>1, <1>2
<1> HIDE DEF x, y
<1>7. x \o t \in Seq(Piece) /\ Len(x \o t) = Len(x) + Len(t)
      /\ \A i \in 1 .. Len(x) + Len(t) : (x \o t)[i] = IF i <= Len(x) THEN x[i] ELSE t[i - Len(x)]
  BY <1>5, ConcatProperties
<1>8. \A i \in 1 .. Len(y) : y[i] = (x \o t)[i]
  <2> SUFFICES ASSUME NEW i \in 1 .. Len(y) PROVE y[i] = (x \o t)[i]
    OBVIOUS
  <2>1. y[i] = u[n + i] /\ n + i \in 1 .. Len(s) + Len(t)
    BY <1>1, <1>2, <1>6
  <2>2. CASE i <= Len(s) - n
    BY <2>1, <2>2, <1>1, <1>2, <1>5, <1>7
  <2>3. CASE i > Len(s) - n
    <3>1. i \in 1 .. Len(x) + Len(t) /\ i - Len(x) = n + i - Len(s)
      BY <2>1, <1>1, <1>2, <1>5, <1>6
    <3>2. (x \o t)[i] = t[i - Len(x)]
      BY <3>1, <2>3, <1>5, <1>7
    <3>3. u[n + i] = t[n + i - Len(s)]
      BY <2>1, <2>3, <1>1, <1>2
    <3> QED BY <2>1, <3>1, <3>2, <3>3
  <2>4. i <= Len(s) - n \/ i > Len(s) - n
    BY <1>1, <1>6
  <2> QED BY <2>2, <2>3, <2>4, Zenon
<1>9. y = x \o t
  <2>1. Len(y) = Len(x \o t)
    BY <1>1, <1>2, <1>5, <1>6, <1>7
  <2> QED BY <2>1, <1>6, <1>7, <1>8, SeqEqual
<1> QED BY <1>3, <1>4, <1>5, <1>9 DEF u, x, y

(* ------------------------- Lemmas about a list ------------------------- *)

\* The list names every module that is served, each once.
LEMMA ServedInOrder ==
  /\ Cardinality(Served) \in Nat
  /\ SetToSeq(Served) \in [1 .. Cardinality(Served) -> Served]
  /\ IsInjective(SetToSeq(Served))
  /\ \A m \in Served : \E i \in 1 .. Cardinality(Served) : SetToSeq(Served)[i] = m
<1> DEFINE n == Cardinality(Served)
           q == SetToSeq(Served)
<1>1. n \in Nat /\ ExistsBijection(1 .. n, Served)
  BY Configured, FS_CardinalityType
<1>2. q \in [1 .. n -> Served] /\ IsInjective(q)
  <2>1. \E f \in [1 .. n -> Served] : IsInjective(f)
    BY <1>1 DEF ExistsBijection, Bijection, Injection
  <2> QED BY <2>1 DEF SetToSeq
<1>3. q \in Surjection(1 .. n, Served)
  <2>1. q \in Injection(1 .. n, Served)
    BY <1>2 DEF Injection
  <2>2. Cardinality(1 .. n) = n
    BY <1>1, FS_Interval
  <2> QED BY <2>1, <2>2, Configured, FS_Injection
<1> QED BY <1>1, <1>2, <1>3 DEF Surjection

\* Which line of the list a piece belongs to, and where in it.
LEMMA LineOfPiece ==
  ASSUME NEW w \in {2, 3}, NEW i \in Nat, NEW c \in 1 .. w
  PROVE  /\ (w * i + c - 1) \div w = i
         /\ (w * i + c - 1) % w = c - 1
<1>1. CASE w = 2
  BY <1>1
<1>2. CASE w = 3
  BY <1>2
<1> QED BY <1>1, <1>2

Comments == {<< >>, <<"comment">>}

LEMMA ListingFacts ==
  ASSUME NEW comment \in Comments
  PROVE  LET w == Len(comment) + 2
             n == Cardinality(Served)
             l == Listing(comment)
         IN  /\ w \in {2, 3} /\ n \in Nat
             /\ l \in Seq(Piece) /\ Len(l) = w * n + 2
             /\ \A i \in 0 .. n - 1 :
                  /\ l[w * i + 1] = SetToSeq(Served)[i + 1]
                  /\ \A c \in 2 .. w - 1 : l[w * i + c] = "comment"
                  /\ l[w * i + w] = NL
             /\ l[w * n + 1] = Exit /\ l[w * n + 2] = NL
<1> DEFINE w == Len(comment) + 2
           n == Cardinality(Served)
           q == SetToSeq(Served)
           body == [k \in 1 .. w * n |->
                      ListLine(comment, (k - 1) \div w + 1)[((k - 1) % w) + 1]]
           l == Listing(comment)
<1>1. w \in {2, 3} /\ comment \in Seq(Piece)
  <2>1. CASE comment = << >>
    BY <2>1
  <2>2. CASE comment = <<"comment">>
    BY <2>2, Spoken
  <2> QED BY <2>1, <2>2 DEF Comments
<1>2. n \in Nat /\ q \in [1 .. n -> Served]
  BY ServedInOrder
<1>3. w * n \in Nat
  BY <1>1, <1>2
<1>4. ASSUME NEW i \in 0 .. n - 1
      PROVE  /\ ListLine(comment, i + 1) \in Seq(Piece)
             /\ Len(ListLine(comment, i + 1)) = w
             /\ ListLine(comment, i + 1)[1] = q[i + 1]
             /\ \A c \in 2 .. w - 1 : ListLine(comment, i + 1)[c] = "comment"
             /\ ListLine(comment, i + 1)[w] = NL
  <2>1. q[i + 1] \in Piece
    BY <1>2, Configured
  <2> DEFINE x == q[i + 1]
  <2>2. ListLine(comment, i + 1) = <<x>> \o comment \o <<NL>>
    BY DEF ListLine
  <2> HIDE DEF x
  <2>3. CASE comment = << >>
    <3>1. w = 2
      BY <2>3
    <3>2. <<x>> \o << >> = <<x>> /\ <<x>> \o <<NL>> = <<x, NL>>
      BY <2>1, ShortStreams, Spoken DEF x
    <3>3. ListLine(comment, i + 1) = <<x, NL>>
      BY <2>2, <2>3, <3>2, Zenon
    <3>4. /\ <<x, NL>> \in Seq(Piece) /\ Len(<<x, NL>>) = 2
          /\ <<x, NL>>[1] = x /\ <<x, NL>>[2] = NL
      BY <2>1, ShortStreams, Spoken DEF x
    <3>5. \A c \in 2 .. w - 1 : FALSE
      BY <3>1
    <3> HIDE DEF w
    <3>6. \A c \in 2 .. w - 1 : ListLine(comment, i + 1)[c] = "comment"
      BY <3>5
    <3> QED BY <3>1, <3>3, <3>4, <3>6 DEF x
  <2>4. CASE comment = <<"comment">>
    <3>1. /\ <<x, "comment">> \in Seq(Piece) /\ Len(<<x, "comment">>) = 2
          /\ <<x, "comment">>[1] = x /\ <<x, "comment">>[2] = "comment"
          /\ <<NL>> \in Seq(Piece) /\ Len(<<NL>>) = 1 /\ <<NL>>[1] = NL
      BY <2>1, ShortStreams, Spoken DEF x
    <3>0. <<x>> \o <<"comment">> = <<x, "comment">>
      BY <2>1, ShortStreams, Spoken DEF x
    <3>2. ListLine(comment, i + 1) = <<x, "comment">> \o <<NL>>
      BY <2>2, <2>4, <3>0, Zenon
    <3>4. w = 3
      BY <2>4, Spoken, ShortStreams
    <3> HIDE DEF w
    <3>3. /\ ListLine(comment, i + 1) \in Seq(Piece) /\ Len(ListLine(comment, i + 1)) = 3
          /\ ListLine(comment, i + 1)[1] = x /\ ListLine(comment, i + 1)[2] = "comment"
          /\ ListLine(comment, i + 1)[3] = NL
      BY <3>1, <3>2, ConcatProperties
    <3> QED BY <3>3, <3>4 DEF x
  <2> QED BY <2>3, <2>4 DEF Comments
<1>5. l = body \o <<Exit, NL>>
  BY DEF Listing
<1> HIDE DEF w, n, q, body, l
<1>6. ASSUME NEW i \in 0 .. n - 1, NEW c \in 1 .. w
      PROVE  w * i + c \in 1 .. w * n /\ body[w * i + c] = ListLine(comment, i + 1)[c]
  <2> DEFINE k == w * i + c
  <2>1. k \in 1 .. w * n
    <3>1. CASE w = 2
      BY <3>1, <1>2
    <3>2. CASE w = 3
      BY <3>2, <1>2
    <3> QED BY <3>1, <3>2, <1>1
  <2>2. (k - 1) \div w = i /\ (k - 1) % w = c - 1
    <3>1. i \in Nat
      BY <1>2
    <3> QED BY <3>1, <1>1, LineOfPiece
  <2>3. (c - 1) + 1 = c
    BY <1>1
  <2> HIDE DEF k
  <2>4. body[k] = ListLine(comment, (k - 1) \div w + 1)[((k - 1) % w) + 1]
    BY <2>1, Zenon DEF body
  <2>5. body[k] = ListLine(comment, i + 1)[c]
    BY <2>2, <2>3, <2>4, Zenon
  <2> QED BY <2>1, <2>5 DEF k
<1>7. \A k \in 1 .. w * n : \E i \in 0 .. n - 1 : \E c \in 1 .. w : k = w * i + c
  <2> SUFFICES ASSUME NEW k \in 1 .. w * n
               PROVE  \E i \in 0 .. n - 1 : \E c \in 1 .. w : k = w * i + c
    OBVIOUS
  <2>1. CASE w = 2
    <3>1. (k - 1) \div 2 \in 0 .. n - 1 /\ ((k - 1) % 2) + 1 \in 1 .. 2
      BY <2>1, <1>2
    <3>2. k = 2 * ((k - 1) \div 2) + (((k - 1) % 2) + 1)
      BY <2>1, <1>2
    <3> QED BY <3>1, <3>2, <2>1
  <2>2. CASE w = 3
    <3>1. (k - 1) \div 3 \in 0 .. n - 1 /\ ((k - 1) % 3) + 1 \in 1 .. 3
      BY <2>2, <1>2
    <3>2. k = 3 * ((k - 1) \div 3) + (((k - 1) % 3) + 1)
      BY <2>2, <1>2
    <3> QED BY <3>1, <3>2, <2>2
  <2> QED BY <2>1, <2>2, <1>1
<1>8. body \in Seq(Piece) /\ Len(body) = w * n
  <2>1. \A k \in 1 .. w * n : body[k] \in Piece
    <3> SUFFICES ASSUME NEW k \in 1 .. w * n PROVE body[k] \in Piece
      OBVIOUS
    <3>1. PICK i \in 0 .. n - 1 : \E c \in 1 .. w : k = w * i + c
      BY <1>7
    <3>2. PICK c \in 1 .. w : k = w * i + c
      BY <3>1
    <3>3. body[k] = ListLine(comment, i + 1)[c]
      BY <3>2, <1>6
    <3>4. ListLine(comment, i + 1) \in Seq(Piece) /\ Len(ListLine(comment, i + 1)) = w
      BY <1>4 DEF w, n, q
    <3> QED BY <3>3, <3>4, ElementOfSeq
  <2>2. body \in [1 .. w * n -> Piece]
    BY <2>1 DEF body
  <2> QED BY <2>2, <1>3
<1>9. /\ l \in Seq(Piece) /\ Len(l) = w * n + 2
      /\ \A k \in 1 .. w * n : l[k] = body[k]
      /\ l[w * n + 1] = Exit /\ l[w * n + 2] = NL
  <2> DEFINE e == <<Exit, NL>>
             m == Len(body)
  <2>1. e \in Seq(Piece) /\ Len(e) = 2 /\ e[1] = Exit /\ e[2] = NL
    BY Spoken, ShortStreams
  <2>3. m \in Nat /\ m = w * n
    BY <1>3, <1>8
  <2>2. /\ l \in Seq(Piece) /\ Len(l) = Len(body) + 2
        /\ \A k \in 1 .. Len(body) + 2 :
             l[k] = IF k <= Len(body) THEN body[k] ELSE e[k - Len(body)]
    BY <1>5, <1>8, <2>1, ConcatProperties
  <2> HIDE DEF m, e
  <2>4. /\ Len(l) = m + 2
        /\ \A k \in 1 .. m + 2 : l[k] = IF k <= m THEN body[k] ELSE e[k - m]
    BY <2>2 DEF m
  <2>5. /\ \A k \in 1 .. m : l[k] = body[k]
        /\ l[m + 1] = e[1] /\ l[m + 2] = e[2]
    BY <2>3, <2>4
  <2> QED BY <2>1, <2>2, <2>3, <2>4, <2>5
<1>10. ASSUME NEW i \in 0 .. n - 1, NEW c \in 1 .. w
       PROVE  l[w * i + c] = ListLine(comment, i + 1)[c]
  BY <1>6, <1>9
<1>11. ASSUME NEW i \in 0 .. n - 1
       PROVE  /\ l[w * i + 1] = q[i + 1]
              /\ \A c \in 2 .. w - 1 : l[w * i + c] = "comment"
              /\ l[w * i + w] = NL
  <2>1. 1 \in 1 .. w /\ w \in 1 .. w /\ \A c \in 2 .. w - 1 : c \in 1 .. w
    BY <1>1
  <2>2. /\ ListLine(comment, i + 1)[1] = q[i + 1]
        /\ \A c \in 2 .. w - 1 : ListLine(comment, i + 1)[c] = "comment"
        /\ ListLine(comment, i + 1)[w] = NL
    BY <1>4 DEF w, n, q
  <2> QED BY <2>1, <2>2, <1>10
<1> QED BY <1>1, <1>2, <1>9, <1>11 DEF w, n, q, l

(* ----------------------- Lemmas about the state ------------------------ *)

\* Who talks, and what they have to say.
LEMMA EnvFacts ==
  ASSUME TypeOK
  PROVE  /\ env.client \in {"rsync", "discovery"} /\ env.by \in {"proxy", "rsyncd"}
         /\ env.header \in BOOLEAN /\ env.self \in BOOLEAN
         /\ env.motd \in Seq(Piece)
         /\ env.client = "rsync" => /\ env.by = "proxy" /\ env.self = FALSE
                                    /\ env.request \in Requests
                                    /\ env.opening \in Openings
         /\ env.by = "rsyncd" => env.client = "discovery" /\ env.opening \in Openings
         /\ env.by = "proxy" => env.motd \in Motds
         /\ env.by = "rsyncd" => env.motd = << >>
<1>1. << >> \in Seq(Piece) /\ \A m \in Motds : m \in Seq(Piece)
  BY Configured
<1>2. CASE env \in Serving
  BY <1>1, <1>2 DEF Serving
<1>3. CASE env \in Answering
  BY <1>1, <1>3 DEF Answering
<1>4. CASE env \in AskingRsyncd
  BY <1>1, <1>4 DEF AskingRsyncd
<1> QED BY <1>2, <1>3, <1>4, Zenon DEF TypeOK

LEMMA StreamFacts ==
  ASSUME TypeOK
  PROVE  /\ Greeting \in Seq(Piece) /\ Len(Greeting) = 2
         /\ Greeting[1] = Version /\ Greeting[2] = NL
         /\ Header \in Seq(Piece) /\ ClientHeader \in Seq(Piece) /\ MotdLine \in Seq(Piece)
         /\ Header # << >> => Len(Header) = 2 /\ Header[1] = ProxyHeader /\ Header[2] = NL
         /\ ClientHeader \in {<< >>, Header}
         /\ env.client = "discovery" => ClientHeader = Header
         /\ Wanted \in Seq(Piece) /\ Len(Wanted) \in Nat /\ Len(Wanted) >= 1
         /\ Wanted[Len(Wanted)] = NL
         /\ \A k \in 1 .. Len(Wanted) - 1 : Wanted[k] # NL
         /\ Len(Wanted) > 1 => env.client = "rsync"
         /\ env.client = "rsync" => Wanted = env.request
         /\ env.client = "discovery" => Wanted = <<NL>>
<1>1. /\ Greeting \in Seq(Piece) /\ Len(Greeting) = 2
      /\ Greeting[1] = Version /\ Greeting[2] = NL
  BY ShortStreams, Spoken DEF Greeting
<1>2. << >> \in Seq(Piece)
  OBVIOUS
<1>3. /\ Header \in Seq(Piece)
      /\ Header # << >> => Len(Header) = 2 /\ Header[1] = ProxyHeader /\ Header[2] = NL
  BY <1>2, ShortStreams, Spoken DEF Header
<1>4. MotdLine \in Seq(Piece)
  <2>1. env.motd \in Seq(Piece) /\ <<NL>> \in Seq(Piece)
    BY EnvFacts, ShortStreams, Spoken
  <2>2. env.motd \o <<NL>> \in Seq(Piece)
    BY <2>1
  <2> QED BY <2>2, <1>2 DEF MotdLine
<1>5. /\ ClientHeader \in {<< >>, Header} /\ ClientHeader \in Seq(Piece)
      /\ env.client = "discovery" => ClientHeader = Header
  BY <1>2, <1>3, EnvFacts DEF ClientHeader
<1>6. CASE env.client = "rsync"
  <2>1. Wanted = env.request /\ env.request \in Requests
    BY <1>6, EnvFacts DEF Wanted
  <2>2. /\ Wanted \in Seq(Piece) /\ Len(Wanted) >= 1 /\ Wanted[Len(Wanted)] = NL
        /\ \A k \in 1 .. Len(Wanted) - 1 : Wanted[k] # NL
    BY <2>1, Configured, Zenon
  <2> QED BY <1>1, <1>3, <1>4, <1>5, <1>6, <2>1, <2>2
<1>7. CASE env.client = "discovery"
  <2>1. /\ Wanted = <<NL>> /\ Wanted \in Seq(Piece) /\ Len(Wanted) = 1 /\ Wanted[1] = NL
    BY <1>7, ShortStreams, Spoken DEF Wanted
  <2> QED BY <1>1, <1>3, <1>4, <1>5, <1>7, <2>1
<1> QED BY <1>6, <1>7, EnvFacts

\* The parties and what they have to say stay the same.
LEMMA EnvKept ==
  ASSUME env' = env
  PROVE  /\ Header' = Header /\ ClientHeader' = ClientHeader /\ Wanted' = Wanted
         /\ MotdLine' = MotdLine /\ Answer' = Answer /\ Preface' = Preface
         /\ Comment' = Comment /\ Width' = Width
<1>1. Header' = Header
  BY DEF Header
<1>2. ClientHeader' = ClientHeader /\ Wanted' = Wanted /\ MotdLine' = MotdLine /\ Comment' = Comment
  BY <1>1 DEF ClientHeader, Wanted, MotdLine, Comment
<1>3. Preface' = Preface /\ Width' = Width
  BY <1>2 DEF Preface, Width
<1> QED BY <1>1, <1>2, <1>3 DEF Answer

LEMMA TakenFacts ==
  ASSUME TypeOK, NEW p \in Peers
  PROVE  /\ said[p] \in Seq(Piece) /\ taken[p] \in 0 .. Len(said[p])
         /\ Taken(p) \in Seq(Piece) /\ Len(Taken(p)) = taken[p]
         /\ \A i \in 1 .. taken[p] : Taken(p)[i] = said[p][i]
         /\ InFlight(p) \in Seq(Piece) /\ Len(InFlight(p)) = Len(said[p]) - taken[p]
         /\ InFlight(p) = << >> => Taken(p) = said[p]
<1> DEFINE s == said[p]
           k == taken[p]
<1>1. s \in Seq(Piece) /\ k \in 0 .. Len(s)
  BY DEF TypeOK
<1> HIDE DEF s, k
<1>2. /\ SubSeq(s, 1, k) \in Seq(Piece) /\ Len(SubSeq(s, 1, k)) = k
      /\ \A i \in 1 .. k : SubSeq(s, 1, k)[i] = s[i]
      /\ SubSeq(s, k + 1, Len(s)) \in Seq(Piece) /\ Len(SubSeq(s, k + 1, Len(s))) = Len(s) - k
  BY <1>1
<1>3. SubSeq(s, k + 1, Len(s)) = << >> => k = Len(s)
  <2>1. Len(<< >>) = 0 /\ Len(s) \in Nat /\ k \in Nat
    BY <1>1
  <2>2. SubSeq(s, k + 1, Len(s)) = << >> => Len(s) - k = 0
    BY <1>2, <2>1, Zenon
  <2> QED BY <2>1, <2>2
<1>4. SubSeq(s, 1, Len(s)) = s
  BY <1>1, SubSeqFull
<1> QED BY <1>1, <1>2, <1>3, <1>4 DEF s, k, Taken, InFlight

\* What has been read stays the same while a peer speaks, or nobody does.
LEMMA TakenKept ==
  ASSUME TypeOK, taken' = taken, NEW p \in Peers, NEW w \in Seq(Piece),
         said' = said \/ said' = [said EXCEPT ![p] = @ \o w]
  PROVE  \A q \in Peers : Taken(q)' = Taken(q)
<1> SUFFICES ASSUME NEW q \in Peers PROVE Taken(q)' = Taken(q)
  OBVIOUS
<1>1. said[q] \in Seq(Piece) /\ taken[q] \in 0 .. Len(said[q])
  BY TakenFacts
<1>2. SubSeq(said[q] \o w, 1, taken[q]) = SubSeq(said[q], 1, taken[q])
  BY <1>1, PrefixKept
<1>3. said'[q] = said[q] \/ said'[q] = said[q] \o w
  BY DEF TypeOK
<1> QED BY <1>2, <1>3 DEF Taken

\* A read of n pieces from p.
LEMMA TakenReads ==
  ASSUME TypeOK, NEW p \in Peers, NEW n \in 0 .. Len(InFlight(p)),
         said' = said, taken' = [taken EXCEPT ![p] = @ + n]
  PROVE  /\ taken' \in [Peers -> Nat]
         /\ \A q \in Peers : taken'[q] <= Len(said'[q])
         /\ SubSeq(InFlight(p), 1, n) \in Seq(Piece)
         /\ Taken(p)' = Taken(p) \o SubSeq(InFlight(p), 1, n)
         /\ \A q \in Peers \ {p} : Taken(q)' = Taken(q)
<1>1. said[p] \in Seq(Piece) /\ taken[p] \in 0 .. Len(said[p])
  BY TakenFacts
<1>2. /\ taken[p] + n \in 0 .. Len(said[p])
      /\ SubSeq(InFlight(p), 1, n) \in Seq(Piece)
      /\ SubSeq(said[p], 1, taken[p] + n) = Taken(p) \o SubSeq(InFlight(p), 1, n)
  BY <1>1, ReadsOn DEF InFlight, Taken
<1>3. taken \in [Peers -> Nat] /\ taken'[p] = taken[p] + n
      /\ \A q \in Peers \ {p} : taken'[q] = taken[q]
  BY DEF TypeOK
<1>4. taken' \in [Peers -> Nat]
  BY <1>2, <1>3
<1>5. \A q \in Peers : taken'[q] <= Len(said'[q])
  BY <1>2, <1>3 DEF TypeOK
<1>6. Taken(p)' = Taken(p) \o SubSeq(InFlight(p), 1, n)
  BY <1>2, <1>3, Zenon DEF Taken
<1>7. \A q \in Peers \ {p} : Taken(q)' = Taken(q)
  BY <1>3, Zenon DEF Taken
<1> QED BY <1>2, <1>4, <1>5, <1>6, <1>7

(* ---------------- The relay's invariant, step by step ------------------ *)

LEMMA InitRelayInv == Init => RelayInv
<1> SUFFICES ASSUME Init PROVE RelayInv
  OBVIOUS
<1> USE DEF Init, AskerInit
<1>1. TypeOK
  <2>1. << >> \in Seq(Piece)
    OBVIOUS
  <2>2. env.by \in {"proxy", "rsyncd"}
    BY DEF Serving, Answering, AskingRsyncd
  <2>3. Len(<< >>) = 0
    OBVIOUS
  <2> QED BY <2>1, <2>2, <2>3 DEF TypeOK, Stages
<1>2. Taken("down") = << >> /\ heard["down"] = << >> /\ heard["up"] = << >>
      /\ said["down"] = << >> /\ said["up"] = << >>
  BY SubSeqEmpty DEF Taken, Peers
<1>3. AtVersion /\ UpstreamUntouched /\ AskerSays /\ RsyncAsksNot /\ AtRsyncd
  BY <1>2 DEF AtVersion, UpstreamUntouched, AskerSays, RsyncAsksNot, AtRsyncd
<1>4. AtRequest /\ AtListing /\ AtRouting /\ AtUpstream /\ AtCopying /\ OnlyRsyncIsRouted
  BY DEF AtRequest, AtListing, AtRouting, AtUpstream, AtCopying, StreamsIntact, OnlyRsyncIsRouted
<1> QED BY <1>1, <1>3, <1>4 DEF RelayInv

\* The end of a talk, with or without a last word.
LEMMA EndsOver ==
  ASSUME RelayInv, NEW w \in Seq(Piece), pc' = "over",
         UNCHANGED <<env, buf, version, name, said, taken, askerVars>>,
         heard' = heard \/ heard' = [heard EXCEPT !["down"] = @ \o w]
  PROVE  RelayInv'
<1> USE DEF RelayInv, askerVars
<1>1. heard' \in [Peers -> Seq(Piece)]
        /\ (heard["down"] # << >> => heard'["down"] # << >>)
  <2>1. heard["down"] \in Seq(Piece) /\ heard \in [Peers -> Seq(Piece)]
    BY DEF TypeOK, Peers
  <2>2. heard["down"] \o w \in Seq(Piece)
        /\ (heard["down"] # << >> => heard["down"] \o w # << >>)
    BY <2>1, ConcatEqualIffEmpty
  <2> QED BY <2>1, <2>2 DEF Peers
<1>2. TypeOK'
  BY <1>1 DEF TypeOK, Stages
<1>3. AtVersion' /\ AtRequest' /\ AtListing' /\ AtRouting' /\ AtUpstream' /\ AtCopying'
      /\ AtRsyncd' /\ UpstreamUntouched' /\ OnlyRsyncIsRouted'
  BY DEF AtVersion, AtRequest, AtListing, AtRouting, AtUpstream, AtCopying, StreamsIntact,
         AtRsyncd, UpstreamUntouched, OnlyRsyncIsRouted
<1>4. AskerSays' /\ RsyncAsksNot'
  BY <1>1, EnvKept DEF AskerSays, RsyncAsksNot
<1> QED BY <1>2, <1>3, <1>4

\* A version line that relay accepts is all the client has said.
LEMMA VersionRead ==
  ASSUME RelayInv, pc = "version", LineRead, IsProtocol(buf)
  PROVE  ClientHeader = << >> /\ buf = Greeting /\ said["down"] = Greeting
<1> DEFINE s == said["down"]
           k == Len(buf)
<1>1. /\ Taken("down") = buf /\ s \in {<< >>, ClientHeader \o Greeting}
  BY DEF RelayInv, AtVersion
<1>2. /\ buf \in Seq(Piece) /\ s \in Seq(Piece) /\ k \in 1 .. Len(s)
      /\ \A i \in 1 .. k : buf[i] = s[i]
  <2>1. TypeOK /\ buf # << >>
    BY DEF RelayInv, LineRead
  <2>2. buf \in Seq(Piece) /\ k \in Nat /\ k # 0
    BY <2>1 DEF TypeOK
  <2> QED BY <1>1, <2>1, <2>2, TakenFacts DEF Peers
<1>3. s = ClientHeader \o Greeting
  BY <1>1, <1>2
<1>4. /\ Greeting \in Seq(Piece) /\ Len(Greeting) = 2 /\ ClientHeader \in Seq(Piece)
      /\ Greeting[1] = Version /\ Greeting[2] = NL
      /\ ClientHeader # << >> => Len(ClientHeader) = 2 /\ ClientHeader[1] = ProxyHeader
  BY StreamFacts DEF RelayInv
<1>5. buf[1] \in {Version, Exit}
  BY <1>2 DEF IsProtocol
<1> HIDE DEF s, k
<1>6. ClientHeader = << >>
  <2> SUFFICES ASSUME ClientHeader # << >> PROVE FALSE
    OBVIOUS
  <2>1. s[1] = ProxyHeader
    BY <1>3, <1>4, ConcatProperties
  <2> QED BY <2>1, <1>2, <1>5, Spoken
<1>7. s = Greeting
  BY <1>3, <1>4, <1>6
<1>8. buf[k] = NL \/ k = Size
  BY DEF LineRead, Last, k
<1>9. k = 2
  <2>1. k \in 1 .. 2
    BY <1>2, <1>4, <1>7
  <2>2. ASSUME k = 1 PROVE FALSE
    <3>1. buf[1] = Version
      BY <2>2, <1>2, <1>4, <1>7
    <3>2. k # Size
      BY <2>2, SizeAssumption
    <3> QED BY <2>2, <3>1, <3>2, <1>8, Spoken
  <2> QED BY <2>1, <2>2
<1>10. buf = Greeting
  <2>1. Len(buf) = Len(Greeting)
    BY <1>4, <1>9 DEF k
  <2> QED BY <2>1, <1>2, <1>4, <1>7, <1>9, SeqEqual
<1> QED BY <1>6, <1>7, <1>10 DEF s

\* What relay reads of a request is the beginning of it, and a line is all.
LEMMA RequestRead ==
  ASSUME RelayInv, pc = "request", buf # << >>
  PROVE  /\ said["down"] = Greeting \o Wanted
         /\ Len(buf) \in 1 .. Len(Wanted)
         /\ buf[Len(buf)] = NL => buf = Wanted
<1> DEFINE s == said["down"]
           t == Taken("down")
           k == Len(buf)
<1>1. t = Greeting \o buf /\ s \in {Greeting, Greeting \o Wanted}
  BY DEF RelayInv, AtRequest
<1>2. buf \in Seq(Piece) /\ k \in Nat /\ k >= 1
  BY DEF RelayInv, TypeOK
<1>3. /\ s \in Seq(Piece) /\ t \in Seq(Piece) /\ Len(t) <= Len(s)
      /\ \A i \in 1 .. Len(t) : t[i] = s[i]
  BY TakenFacts DEF RelayInv, Peers
<1>4. /\ Greeting \in Seq(Piece) /\ Len(Greeting) = 2 /\ Wanted \in Seq(Piece)
      /\ Wanted[Len(Wanted)] = NL /\ \A i \in 1 .. Len(Wanted) - 1 : Wanted[i] # NL
  BY StreamFacts DEF RelayInv
<1> HIDE DEF s, t, k
<1>5. Len(t) = k + 2 /\ \A i \in 1 .. k : t[i + 2] = buf[i]
  BY <1>1, <1>2, <1>4, AfterTwo DEF k
<1>6. s = Greeting \o Wanted
  BY <1>1, <1>2, <1>3, <1>4, <1>5
<1>7. Len(s) = Len(Wanted) + 2 /\ \A i \in 1 .. Len(Wanted) : s[i + 2] = Wanted[i]
  BY <1>4, <1>6, AfterTwo
<1>8. k \in 1 .. Len(Wanted) /\ \A i \in 1 .. k : buf[i] = Wanted[i]
  <2>1. Len(Wanted) \in Nat /\ k + 2 <= Len(Wanted) + 2
    BY <1>2, <1>3, <1>4, <1>5, <1>7
  <2>2. k \in 1 .. Len(Wanted)
    BY <2>1, <1>2
  <2>3. ASSUME NEW i \in 1 .. k PROVE buf[i] = Wanted[i]
    <3>1. i \in 1 .. Len(Wanted) /\ i + 2 \in 1 .. Len(t)
      BY <2>1, <1>2, <1>5
    <3> QED BY <3>1, <1>3, <1>5, <1>7
  <2> QED BY <2>2, <2>3
<1>9. ASSUME buf[k] = NL PROVE buf = Wanted
  <2>1. k = Len(Wanted)
    BY <1>4, <1>8, <1>9
  <2> QED BY <2>1, <1>2, <1>4, <1>8, SeqEqual DEF k
<1> QED BY <1>6, <1>8, <1>9 DEF s, k

\* What relay reads of an upstream is the beginning of what that opens with.
LEMMA OpeningRead ==
  ASSUME RelayInv, pc = "upstream", buf # << >>
  PROVE  /\ said["up"] = env.opening /\ Taken("up") = buf
         /\ Len(buf) \in 1 .. Len(env.opening)
         /\ \A i \in 1 .. Len(buf) : buf[i] = env.opening[i]
<1>1. Taken("up") = buf /\ said["up"] \in {<< >>, env.opening}
  BY DEF RelayInv, AtUpstream
<1>2. buf \in Seq(Piece) /\ Len(buf) \in Nat /\ Len(buf) # 0
  BY DEF RelayInv, TypeOK
<1>3. said["up"] \in Seq(Piece) /\ Len(buf) <= Len(said["up"])
      /\ \A i \in 1 .. Len(buf) : buf[i] = said["up"][i]
  BY <1>1, TakenFacts DEF RelayInv, Peers
<1>4. said["up"] # << >>
  BY <1>2, <1>3
<1> QED BY <1>1, <1>2, <1>3, <1>4

LEMMA GreetClientStep == RelayInv /\ GreetClient => RelayInv'
<1> SUFFICES ASSUME RelayInv, GreetClient PROVE RelayInv'
  OBVIOUS
<1> USE DEF RelayInv, GreetClient, Go, Write, askerVars
<1>1. ClientHeader = << >> /\ buf = Greeting /\ said["down"] = Greeting
  BY VersionRead
<1>2. /\ Taken("down") = buf /\ heard["down"] = << >>
      /\ heard["up"] = << >> /\ said["up"] = << >>
  BY DEF AtVersion, UpstreamUntouched
<1>3. Taken("down")' = Greeting /\ Greeting \in Seq(Piece) /\ Greeting # << >>
  <2>1. Greeting \in Seq(Piece) /\ Len(Greeting) = 2
    BY StreamFacts
  <2>2. Taken("down")' = Taken("down")
    BY <2>1, TakenKept DEF Peers
  <2>3. Greeting # << >>
    BY <2>1
  <2> QED BY <2>1, <2>2, <2>3, <1>1, <1>2, Zenon
<1>4. heard' = [heard EXCEPT !["down"] = Greeting]
  <2>1. << >> \o <<Version, NL>> = Greeting
    BY <1>3 DEF Greeting
  <2> QED BY <2>1, <1>2
<1>5. TypeOK'
  <2>1. << >> \in Seq(Piece) /\ env.by = "proxy"
    BY DEF TypeOK
  <2>2. heard' \in [Peers -> Seq(Piece)]
    BY <1>3, <1>4 DEF TypeOK, Peers
  <2> QED BY <2>1, <2>2, <1>1, <1>3 DEF TypeOK, Stages
<1>6. AtRequest'
  <2>1. Greeting \o << >> = Greeting
    BY <1>3
  <2>2. heard'["down"] = Greeting
    BY <1>4 DEF TypeOK, Peers
  <2> QED BY <1>1, <1>3, <2>1, <2>2, EnvKept DEF AtRequest
<1>7. UpstreamUntouched'
  BY <1>2, <1>4 DEF UpstreamUntouched, TypeOK, Peers
<1>8. AskerSays' /\ RsyncAsksNot'
  BY <1>3, <1>4, EnvKept DEF AskerSays, RsyncAsksNot, TypeOK, Peers
<1>9. AtVersion' /\ AtListing' /\ AtRouting' /\ AtUpstream' /\ AtCopying' /\ AtRsyncd'
      /\ OnlyRsyncIsRouted'
  BY DEF AtVersion, AtListing, AtRouting, AtUpstream, AtCopying, StreamsIntact, AtRsyncd,
         OnlyRsyncIsRouted
<1> QED BY <1>5, <1>6, <1>7, <1>8, <1>9

LEMMA RequestListStep == RelayInv /\ RequestList => RelayInv'
<1> SUFFICES ASSUME RelayInv, RequestList PROVE RelayInv'
  OBVIOUS
<1> USE DEF RelayInv, RequestList, Go, Write, askerVars
<1>1. heard["down"] = Greeting /\ heard["up"] = << >> /\ said["up"] = << >>
  BY DEF AtRequest, UpstreamUntouched
<1>2. Greeting \o MotdLine \in Seq(Piece) /\ Greeting \o MotdLine # << >>
  <2>1. Greeting \in Seq(Piece) /\ Len(Greeting) = 2 /\ MotdLine \in Seq(Piece)
    BY StreamFacts
  <2> QED BY <2>1, ConcatEqualIffEmpty
<1>3. heard' = [heard EXCEPT !["down"] = Greeting \o MotdLine]
  BY <1>1
<1>4. TypeOK'
  BY <1>2, <1>3 DEF TypeOK, Peers, Stages
<1>5. AtListing' /\ UpstreamUntouched'
  BY <1>1, <1>3, EnvKept DEF AtListing, UpstreamUntouched, TypeOK, Peers
<1>6. AskerSays' /\ RsyncAsksNot'
  BY <1>2, <1>3, EnvKept DEF AskerSays, RsyncAsksNot, TypeOK, Peers
<1>7. AtVersion' /\ AtRequest' /\ AtRouting' /\ AtUpstream' /\ AtCopying' /\ AtRsyncd'
      /\ OnlyRsyncIsRouted'
  BY DEF AtVersion, AtRequest, AtRouting, AtUpstream, AtCopying, StreamsIntact, AtRsyncd,
         OnlyRsyncIsRouted
<1> QED BY <1>4, <1>5, <1>6, <1>7

\* A line without its last piece, and that piece.
LEMMA FrontAndLast ==
  ASSUME NEW s \in Seq(Piece), s # << >>
  PROVE  /\ Front(s) \in Seq(Piece) /\ Len(Front(s)) = Len(s) - 1
         /\ Front(s) \o <<s[Len(s)]>> = s
<1>1. Len(s) \in Nat \ {0} /\ s[Len(s)] \in Piece
  BY EmptySeq, ElementOfSeq
<1>2. SubSeq(s, 1, Len(s)) = SubSeq(s, 1, Len(s) - 1) \o <<s[Len(s)]>>
  <2>1. 1 \in 1 .. Len(s) /\ Len(s) \in 1 .. Len(s)
    BY <1>1
  <2> QED BY <2>1, SubSeqRecursiveSecond
<1>3. SubSeq(s, 1, Len(s)) = s
  BY SubSeqFull
<1>4. Front(s) \in Seq(Piece) /\ Len(Front(s)) = Len(s) - 1
  <2>1. \A i \in 1 .. Len(s) - 1 : s[i] \in Piece
    BY <1>1, ElementOfSeq
  <2>2. /\ SubSeq(s, 1, Len(s) - 1) \in Seq(Piece)
        /\ Len(SubSeq(s, 1, Len(s) - 1)) = IF 1 <= Len(s) - 1 THEN Len(s) - 1 - 1 + 1 ELSE 0
    BY <1>1, <2>1, SubSeqProperties
  <2> DEFINE f == SubSeq(s, 1, Len(s) - 1)
             k == Len(s)
  <2>3. k \in Nat \ {0} /\ Len(f) = IF 1 <= k - 1 THEN k - 1 - 1 + 1 ELSE 0
    BY <1>1, <2>2
  <2> HIDE DEF f, k
  <2>4. Len(f) = k - 1
    BY <2>3
  <2> QED BY <2>2, <2>4 DEF Front, f, k
<1> QED BY <1>2, <1>3, <1>4 DEF Front

\* The name of a module that is served is the whole line that was read.
LEMMA NameRead ==
  ASSUME RelayInv, pc = "request", LineRead, Known(Front(buf))
  PROVE  buf = Wanted /\ Front(buf) \o <<NL>> = Wanted
<1>1. buf \in Seq(Piece) /\ buf # << >> /\ (buf[Len(buf)] = NL \/ Len(buf) = Size)
  BY DEF RelayInv, TypeOK, LineRead, Last
<1>2. Len(Front(buf)) = Len(buf) - 1 /\ Front(buf) \o <<buf[Len(buf)]>> = buf
  BY <1>1, FrontAndLast
<1>3. Len(Front(buf)) = 1 /\ Len(buf) \in Nat
  BY <1>1 DEF Known
<1>4. Len(buf) # Size
  <2> DEFINE k == Len(buf)
             l == Len(Front(buf))
  <2>1. k \in Nat /\ l = k - 1 /\ l = 1
    BY <1>2, <1>3
  <2> HIDE DEF k, l
  <2> QED BY <2>1, SizeAssumption DEF k
<1>5. buf = Wanted
  BY <1>1, <1>4, RequestRead
<1> QED BY <1>1, <1>2, <1>4, <1>5, Zenon

LEMMA RequestModuleStep == RelayInv /\ RequestModule => RelayInv'
<1> SUFFICES ASSUME RelayInv, RequestModule PROVE RelayInv'
  OBVIOUS
<1> USE DEF RelayInv, RequestModule, Go, Write, askerVars
<1>1. /\ heard["down"] = Greeting /\ heard["up"] = << >> /\ said["up"] = << >>
      /\ version = Greeting /\ Taken("down") = Greeting \o buf
  BY DEF AtRequest, UpstreamUntouched
<1>2. buf \in Seq(Piece) /\ buf # << >>
  BY DEF TypeOK, LineRead
<1>3. env.client = "rsync" /\ Wanted = env.request
  <2>1. Len(Wanted) > 1
    BY <1>2, RequestRead, StreamFacts
  <2> QED BY <2>1, StreamFacts
<1>4. Front(buf) \in Seq(Piece)
  BY <1>2, FrontAndLast
<1>5. ASSUME Known(Front(buf))
      PROVE  Front(buf) \o <<NL>> = env.request /\ Taken("down") = Greeting \o env.request
  BY <1>1, <1>3, <1>5, NameRead, Zenon
<1>6. Greeting \o MotdLine \in Seq(Piece) /\ << >> \in Seq(Piece)
  <2>1. Greeting \in Seq(Piece) /\ MotdLine \in Seq(Piece)
    BY StreamFacts
  <2> QED BY <2>1
<1>7. heard' = [heard EXCEPT !["down"] = Greeting \o MotdLine]
  BY <1>1
<1>8. TypeOK'
  BY <1>4, <1>6, <1>7 DEF TypeOK, Peers, Stages
<1>9. AtRouting'
  <2>1. Taken("down")' = Taken("down")
    BY <1>6, TakenKept DEF Peers
  <2>2. heard'["down"] = Greeting \o MotdLine /\ Known(name)' = Known(Front(buf))
    BY <1>7 DEF TypeOK, Peers, Known
  <2> QED BY <1>1, <1>5, <2>1, <2>2, EnvKept DEF AtRouting
<1>10. UpstreamUntouched' /\ OnlyRsyncIsRouted'
  BY <1>1, <1>3, <1>7 DEF UpstreamUntouched, OnlyRsyncIsRouted, TypeOK, Peers
<1>11. AskerSays' /\ RsyncAsksNot'
  BY <1>3 DEF AskerSays, RsyncAsksNot
<1>12. AtVersion' /\ AtRequest' /\ AtListing' /\ AtUpstream' /\ AtCopying' /\ AtRsyncd'
  BY DEF AtVersion, AtRequest, AtListing, AtUpstream, AtCopying, StreamsIntact, AtRsyncd
<1> QED BY <1>8, <1>9, <1>10, <1>11, <1>12

LEMMA DialStep == RelayInv /\ Dial => RelayInv'
<1> SUFFICES ASSUME RelayInv, Dial PROVE RelayInv'
  OBVIOUS
<1> USE DEF RelayInv, Dial, Go, Write, askerVars
<1>1. /\ heard["down"] = Greeting \o MotdLine /\ version = Greeting
      /\ name \o <<NL>> = env.request /\ Taken("down") = Greeting \o env.request
      /\ heard["up"] = << >> /\ said["up"] = << >> /\ env.client = "rsync" /\ buf = << >>
  BY DEF AtRouting, UpstreamUntouched, OnlyRsyncIsRouted
<1>2. Header \o Greeting \in Seq(Piece) /\ << >> \o (Header \o Greeting) = Header \o Greeting
  <2>1. Header \in Seq(Piece) /\ Greeting \in Seq(Piece)
    BY StreamFacts
  <2> QED BY <2>1
<1>3. heard' = [heard EXCEPT !["up"] = Header \o Greeting]
  BY <1>1, <1>2
<1>4. TypeOK'
  BY <1>2, <1>3 DEF TypeOK, Peers, Stages
<1>5. AtUpstream'
  <2>1. Taken("down")' = Taken("down") /\ Taken("up")' = Taken("up")
    BY <1>2, TakenKept DEF Peers
  <2>2. Taken("up") = buf
    <3>1. taken["up"] \in 0 .. Len(said["up"]) /\ Len(Taken("up")) = taken["up"]
          /\ Taken("up") \in Seq(Piece)
      BY TakenFacts DEF Peers
    <3>2. Len(said["up"]) = 0
      BY <1>1
    <3> QED BY <3>1, <3>2, <1>1
  <2>3. heard'["down"] = heard["down"] /\ heard'["up"] = Header \o Greeting
    BY <1>3 DEF TypeOK, Peers
  <2> QED BY <1>1, <2>1, <2>2, <2>3, EnvKept DEF AtUpstream
<1>6. OnlyRsyncIsRouted' /\ AskerSays' /\ RsyncAsksNot' /\ UpstreamUntouched'
  BY <1>1 DEF OnlyRsyncIsRouted, AskerSays, RsyncAsksNot, UpstreamUntouched
<1>7. AtVersion' /\ AtRequest' /\ AtListing' /\ AtRouting' /\ AtCopying' /\ AtRsyncd'
  BY DEF AtVersion, AtRequest, AtListing, AtRouting, AtCopying, StreamsIntact, AtRsyncd
<1> QED BY <1>4, <1>5, <1>6, <1>7

\* The upstream's first line is in what was read of it.
LEMMA UpstreamLineRead ==
  ASSUME RelayInv, pc = "upstream", LineRead
  PROVE  HasLine(buf)
<1>1. /\ buf \in Seq(Piece) /\ buf # << >> /\ env.client = "rsync"
      /\ buf[Len(buf)] = NL \/ Len(buf) = Size
  BY DEF RelayInv, TypeOK, LineRead, Last, OnlyRsyncIsRouted
<1>2. /\ env.opening[1] # NL /\ env.opening[2] = NL
  BY <1>1, EnvFacts, Configured DEF RelayInv
<1> DEFINE k == Len(buf)
<1>3. k \in Nat /\ k >= 1 /\ \A i \in 1 .. k : buf[i] = env.opening[i]
  BY <1>1, OpeningRead
<1>4. buf[k] = NL \/ k = Size
  BY <1>1
<1> HIDE DEF k
<1>5. k # 1
  <2> SUFFICES ASSUME k = 1 PROVE FALSE
    OBVIOUS
  <2>1. buf[1] # NL
    BY <1>2, <1>3
  <2> QED BY <2>1, <1>4, SizeAssumption
<1>6. 2 \in 1 .. k /\ buf[2] = NL
  BY <1>2, <1>3, <1>5
<1>7. DOMAIN buf = 1 .. k
  BY <1>1 DEF k
<1> QED BY <1>6, <1>7 DEF HasLine, ToSet

LEMMA GreetUpstreamStep == RelayInv /\ GreetUpstream => RelayInv'
<1> SUFFICES ASSUME RelayInv, GreetUpstream PROVE RelayInv'
  OBVIOUS
<1>0. /\ pc = "upstream" /\ pc' = "copying" /\ LineRead /\ buf' = << >>
      /\ heard' = [down |-> heard["down"] \o Rest, up |-> heard["up"] \o name \o <<NL>>]
      /\ UNCHANGED <<env, version, name, said, taken, asker, heardSoFar, found>>
  BY DEF GreetUpstream, Go, askerVars
<1>1. /\ TypeOK /\ version = Greeting /\ heard["down"] = Greeting \o MotdLine
      /\ name \o <<NL>> = env.request
      /\ Taken("down") = Greeting \o env.request
      /\ heard["up"] = Header \o Greeting
      /\ Taken("up") = buf /\ env.client = "rsync"
  BY <1>0 DEF RelayInv, AtUpstream, OnlyRsyncIsRouted
<1>2. /\ Greeting \in Seq(Piece) /\ Header \in Seq(Piece) /\ MotdLine \in Seq(Piece)
      /\ name \in Seq(Piece) /\ <<NL>> \in Seq(Piece) /\ << >> \in Seq(Piece)
      /\ buf \in Seq(Piece)
  BY <1>1, StreamFacts, ShortStreams, Spoken DEF TypeOK
<1>3. HasLine(buf)
  BY <1>0, UpstreamLineRead
<1>4. Rest = AfterLine(Taken("up")) /\ Rest \in Seq(Piece)
  <2>1. AfterLine(buf) \in Seq(Piece)
    BY <1>2, <1>3, AfterLineGrows
  <2> QED BY <2>1, <1>1, <1>3 DEF Rest
<1>5. heard["up"] \o name \o <<NL>> = Header \o Taken("down")
  <2> DEFINE v == <<NL>>
  <2>1. v \in Seq(Piece)
    BY <1>2
  <2> HIDE DEF v
  <2>2. Cat(Cat(Cat(Header, Greeting), name), v) = Cat(Header, Cat(Greeting, Cat(name, v)))
    BY <1>2, <2>1, Joined4
  <2>3. Header \o Greeting \o name \o v = Header \o (Greeting \o (name \o v))
    BY <2>2, Zenon DEF Cat
  <2> QED BY <2>3, <1>1, Zenon DEF v
<1>6. heard' = [down |-> Greeting \o MotdLine \o AfterLine(Taken("up")),
                up |-> Header \o Taken("down")]
  BY <1>0, <1>1, <1>4, <1>5, Zenon
<1>7. heard' \in [Peers -> Seq(Piece)]
  <2>1. Taken("down") \in Seq(Piece)
    BY <1>1, TakenFacts DEF Peers
  <2>2. Greeting \o MotdLine \o Rest \in Seq(Piece) /\ Header \o Taken("down") \in Seq(Piece)
    BY <1>2, <1>4, <2>1
  <2> DEFINE d == Greeting \o MotdLine \o Rest
             u == Header \o Taken("down")
  <2>3. heard' = [down |-> d, up |-> u]
    BY <1>4, <1>6, Zenon
  <2>4. d \in Seq(Piece) /\ u \in Seq(Piece)
    BY <2>2
  <2> HIDE DEF d, u
  <2> QED BY <2>3, <2>4 DEF Peers
<1>8. TypeOK'
  BY <1>0, <1>1, <1>2, <1>7 DEF TypeOK, Stages
<1>9. Taken("down")' = Taken("down") /\ Taken("up")' = Taken("up")
  BY <1>0, <1>1, <1>2, TakenKept DEF Peers
<1>10. AtCopying'
  <2>1. /\ heard'["up"] = Header \o Taken("down")
        /\ heard'["down"] = Greeting \o MotdLine \o AfterLine(Taken("up"))
    <3> DEFINE d == Greeting \o MotdLine \o AfterLine(Taken("up"))
               u == Header \o Taken("down")
    <3>1. heard' = [down |-> d, up |-> u]
      BY <1>6
    <3> HIDE DEF d, u
    <3>2. heard'["up"] = u /\ heard'["down"] = d
      BY <3>1
    <3> QED BY <3>2 DEF d, u
  <2>2. HasLine(Taken("up"))' /\ AfterLine(Taken("up"))' = AfterLine(Taken("up"))
    BY <1>1, <1>3, <1>9, Zenon DEF HasLine, AfterLine, LineLength, ToSet, SelectInSeq
  <2>3. name' \o <<NL>> = env.request
    BY <1>0, <1>1
  <2> QED BY <1>0, <1>9, <2>1, <2>2, <2>3, EnvKept DEF AtCopying, StreamsIntact, Greeting
<1>11. /\ AtVersion' /\ AtRequest' /\ AtListing' /\ AtRouting' /\ AtUpstream' /\ AtRsyncd'
       /\ UpstreamUntouched' /\ OnlyRsyncIsRouted' /\ AskerSays' /\ RsyncAsksNot'
  BY <1>0, <1>1 DEF RelayInv, AtVersion, AtRequest, AtListing, AtRouting, AtUpstream, AtRsyncd,
              UpstreamUntouched, OnlyRsyncIsRouted, AskerSays, RsyncAsksNot
<1> QED BY <1>8, <1>10, <1>11 DEF RelayInv

\* One piece is copied from p to the other.
LEMMA CopyStep == ASSUME RelayInv, NEW p \in Peers, Copy(p) PROVE RelayInv'
<1>0. /\ pc = "copying" /\ InFlight(p) # << >>
      /\ taken' = [taken EXCEPT ![p] = @ + 1]
      /\ heard' = [heard EXCEPT ![CHOOSE q \in Peers : q # p] = @ \o <<Head(InFlight(p))>>]
      /\ UNCHANGED <<env, pc, buf, version, name, said, asker, heardSoFar, found>>
  BY DEF Copy, Write, askerVars
<1>1. /\ TypeOK /\ env.client = "rsync" /\ name \o <<NL>> = env.request
      /\ heard["up"] = Header \o Taken("down")
      /\ heard["down"] = Greeting \o MotdLine \o AfterLine(Taken("up"))
      /\ HasLine(Taken("up"))
  BY <1>0 DEF RelayInv, AtCopying, StreamsIntact, OnlyRsyncIsRouted, Greeting
<1> DEFINE x == <<Head(InFlight(p))>>
           q == CHOOSE r \in Peers : r # p
<1>2. /\ InFlight(p) \in Seq(Piece) /\ InFlight(p) # << >>
      /\ Len(InFlight(p)) \in Nat /\ Len(InFlight(p)) >= 1
  BY <1>0, <1>1, TakenFacts
<1>3. x \in Seq(Piece) /\ SubSeq(InFlight(p), 1, 1) = x
  <2>1. Head(InFlight(p)) = InFlight(p)[1] /\ InFlight(p)[1] \in Piece
    BY <1>2
  <2>2. \A i \in 1 .. 1 : InFlight(p)[i] \in Piece
    BY <2>1
  <2>3. /\ SubSeq(InFlight(p), 1, 1) \in Seq(Piece) /\ Len(SubSeq(InFlight(p), 1, 1)) = 1
        /\ SubSeq(InFlight(p), 1, 1)[1] = InFlight(p)[1]
    BY <1>2, <2>1
  <2>4. x \in Seq(Piece) /\ Len(x) = 1 /\ x[1] = InFlight(p)[1]
    BY <2>1, ShortStreams
  <2>5. \A i \in 1 .. 1 : x[i] = SubSeq(InFlight(p), 1, 1)[i]
    BY <2>3, <2>4
  <2> HIDE DEF x
  <2> QED BY <2>3, <2>4, <2>5, SeqEqual
<1> HIDE DEF x
<1>4. q \in Peers /\ q # p
  <2>1. \E r \in Peers : r # p
    BY DEF Peers
  <2> QED BY <2>1
<1> HIDE DEF q
<1>5. heard' = [heard EXCEPT ![q] = @ \o x]
  BY <1>0 DEF q, x
<1>6. /\ taken' \in [Peers -> Nat]
      /\ \A r \in Peers : taken'[r] <= Len(said'[r])
      /\ Taken(p)' = Taken(p) \o x /\ Taken(q)' = Taken(q)
  <2>1. 1 \in 0 .. Len(InFlight(p))
    BY <1>2
  <2> QED BY <1>0, <1>1, <1>3, <1>4, <2>1, TakenReads
<1>7. heard'[q] = heard[q] \o x /\ heard'[p] = heard[p] /\ heard' \in [Peers -> Seq(Piece)]
  <2>1. heard \in [Peers -> Seq(Piece)] /\ heard[q] \o x \in Seq(Piece)
    BY <1>1, <1>3, <1>4 DEF TypeOK
  <2> QED BY <1>4, <1>5, <2>1
<1>8. TypeOK'
  BY <1>0, <1>1, <1>6, <1>7 DEF TypeOK
<1>9. /\ Taken("down") \in Seq(Piece) /\ Taken("up") \in Seq(Piece) /\ Header \in Seq(Piece)
      /\ Greeting \in Seq(Piece) /\ MotdLine \in Seq(Piece)
  BY <1>1, TakenFacts, StreamFacts DEF Peers
<1>10. AtCopying'
  <2>1. CASE p = "down"
    <3>1. q = "up"
      BY <1>4, <2>1 DEF Peers
    <3>2. heard'["up"] = (Header \o Taken("down")) \o x /\ heard'["down"] = heard["down"]
      BY <1>1, <1>7, <2>1, <3>1
    <3>3. (Header \o Taken("down")) \o x = Header \o (Taken("down") \o x)
      <4> DEFINE t == Taken("down")
      <4>1. t \in Seq(Piece) /\ Header \in Seq(Piece) /\ x \in Seq(Piece)
        BY <1>3, <1>9
      <4> HIDE DEF t
      <4>2. (Header \o t) \o x = Header \o (t \o x)
        BY <4>1, ConcatAssociative
      <4> QED BY <4>2 DEF t
    <3>4. Taken("down")' = Taken("down") \o x /\ Taken("up")' = Taken("up")
      BY <1>6, <2>1, <3>1
    <3>5. HasLine(Taken("up"))' /\ AfterLine(Taken("up"))' = AfterLine(Taken("up"))
      BY <1>1, <3>4, Zenon DEF HasLine, AfterLine, LineLength, ToSet, SelectInSeq
    <3> QED BY <1>0, <1>1, <3>2, <3>3, <3>4, <3>5, EnvKept DEF AtCopying, StreamsIntact, Greeting
  <2>2. CASE p = "up"
    <3>1. q = "down"
      BY <1>4, <2>2 DEF Peers
    <3>2. heard'["down"] = (Greeting \o MotdLine \o AfterLine(Taken("up"))) \o x
          /\ heard'["up"] = heard["up"]
      BY <1>1, <1>7, <2>2, <3>1
    <3>3. /\ HasLine(Taken("up") \o x) /\ AfterLine(Taken("up")) \in Seq(Piece)
          /\ AfterLine(Taken("up") \o x) = AfterLine(Taken("up")) \o x
      BY <1>1, <1>3, <1>9, AfterLineGrows
    <3>4. (Greeting \o MotdLine \o AfterLine(Taken("up"))) \o x
            = Greeting \o MotdLine \o (AfterLine(Taken("up")) \o x)
      <4>1. Greeting \o MotdLine \in Seq(Piece)
        BY <1>9
      <4> QED BY <1>3, <3>3, <4>1, Joined
    <3>5. Taken("up")' = Taken("up") \o x /\ Taken("down")' = Taken("down")
      BY <1>6, <2>2, <3>1
    <3>6. HasLine(Taken("up"))' /\ AfterLine(Taken("up"))' = AfterLine(Taken("up")) \o x
      BY <3>3, <3>5, Zenon DEF HasLine, AfterLine, LineLength, ToSet, SelectInSeq
    <3> QED BY <1>0, <1>1, <3>2, <3>4, <3>5, <3>6, EnvKept DEF AtCopying, StreamsIntact, Greeting
  <2> QED BY <2>1, <2>2 DEF Peers
<1>11. /\ AtVersion' /\ AtRequest' /\ AtListing' /\ AtRouting' /\ AtUpstream' /\ AtRsyncd'
       /\ UpstreamUntouched' /\ OnlyRsyncIsRouted' /\ AskerSays' /\ RsyncAsksNot'
  BY <1>0, <1>1 DEF RelayInv, AtVersion, AtRequest, AtListing, AtRouting, AtUpstream, AtRsyncd,
              UpstreamUntouched, OnlyRsyncIsRouted, AskerSays, RsyncAsksNot
<1> QED BY <1>8, <1>10, <1>11 DEF RelayInv

LEMMA ClientSpeaksStep == RelayInv /\ ClientSpeaks => RelayInv'
<1> SUFFICES ASSUME RelayInv, ClientSpeaks PROVE RelayInv'
  OBVIOUS
<1> DEFINE w == ClientTurn
<1>0. /\ env.client = "rsync" /\ w # << >> /\ said' = [said EXCEPT !["down"] = @ \o w]
      /\ UNCHANGED <<env, pc, buf, version, name, taken, heard, asker, heardSoFar, found>>
  BY DEF ClientSpeaks, Speak, Say, askerVars
<1>1. /\ TypeOK /\ said["down"] \in Seq(Piece) /\ said \in [Peers -> Seq(Piece)]
  BY DEF RelayInv, TypeOK, Peers
<1>2. /\ Greeting \in Seq(Piece) /\ Len(Greeting) = 2 /\ Greeting # << >>
      /\ ClientHeader = << >> /\ Wanted = env.request
      /\ Wanted \in Seq(Piece) /\ Wanted # << >> /\ << >> \in Seq(Piece)
      /\ <<"arguments">> \in Seq(Piece)
  <2>1. /\ Greeting \in Seq(Piece) /\ Len(Greeting) = 2
        /\ Wanted = env.request /\ Wanted \in Seq(Piece) /\ Len(Wanted) >= 1
    BY <1>0, <1>1, StreamFacts
  <2>2. ClientHeader = << >>
    BY <1>0 DEF ClientHeader
  <2>3. <<"arguments">> \in Seq(Piece)
    BY ShortStreams, Spoken
  <2>4. Greeting # << >>
    <3>1. Len(Greeting) # Len(<< >>)
      BY <2>1
    <3> QED BY <3>1, Zenon
  <2>5. Wanted # << >>
    <3>1. Len(Wanted) # Len(<< >>)
      BY <2>1
    <3> QED BY <3>1, Zenon
  <2> QED BY <2>1, <2>2, <2>3, <2>4, <2>5
<1>3. w = CASE said["down"] = << >> -> Greeting
            [] said["down"] = Greeting /\ HasLine(heard["down"]) -> Wanted
            [] said["down"] = Greeting \o Wanted /\ "OK" \in ToSet(heard["down"])
                 -> <<"arguments">>
            [] OTHER -> << >>
  BY <1>2 DEF ClientTurn, Greeting
<1> HIDE DEF w
<1>4. Greeting \o Wanted # << >> /\ Greeting \o Wanted # Greeting
  <2>1. Len(Greeting \o Wanted) = Len(Wanted) + 2 /\ Len(Wanted) \in Nat /\ Len(Wanted) # 0
    BY <1>2, AfterTwo
  <2>2. Len(Greeting \o Wanted) # Len(<< >>) /\ Len(Greeting \o Wanted) # Len(Greeting)
    BY <1>2, <2>1
  <2> QED BY <2>2, Zenon
<1>5. \/ said["down"] = << >> /\ w = Greeting
      \/ said["down"] = Greeting /\ HasLine(heard["down"]) /\ w = Wanted
      \/ said["down"] = Greeting \o Wanted /\ "OK" \in ToSet(heard["down"]) /\ w = <<"arguments">>
  BY <1>0, <1>2, <1>3, <1>4
<1>6. w \in Seq(Piece) /\ said["down"] \o w \in Seq(Piece)
      /\ Len(said["down"] \o w) >= Len(said["down"])
  <2>1. w \in Seq(Piece)
    BY <1>2, <1>5
  <2>2. Len(w) \in Nat /\ Len(said["down"]) \in Nat
        /\ Len(said["down"] \o w) = Len(said["down"]) + Len(w)
    BY <1>1, <2>1
  <2> QED BY <1>1, <2>1, <2>2
<1>7. said'["down"] = said["down"] \o w /\ said'["up"] = said["up"]
      /\ said' \in [Peers -> Seq(Piece)]
  BY <1>0, <1>1, <1>6 DEF Peers
<1>8. TypeOK'
  <2>1. \A p \in Peers : taken'[p] <= Len(said'[p])
    <3>1. taken["down"] \in Nat /\ taken["down"] <= Len(said["down"])
          /\ taken["up"] <= Len(said["up"])
          /\ Len(said["down"]) \in Nat
      BY <1>1 DEF TypeOK, Peers
    <3>2. taken["down"] <= Len(said["down"] \o w)
      <4>1. Len(said["down"] \o w) \in Nat
        BY <1>6
      <4> QED BY <3>1, <4>1, <1>6
    <3> QED BY <1>0, <1>7, <3>1, <3>2 DEF Peers
  <2> QED BY <1>0, <1>1, <1>7, <2>1 DEF TypeOK
<1>9. Taken("down")' = Taken("down") /\ Taken("up")' = Taken("up")
  BY <1>0, <1>1, <1>6, TakenKept DEF Peers
<1>10. AtVersion'
  <2> SUFFICES ASSUME pc = "version" PROVE AtVersion'
    BY <1>0 DEF AtVersion
  <2>1. /\ Taken("down") = buf /\ heard["down"] = << >>
        /\ said["down"] \in {<< >>, ClientHeader \o Greeting}
    BY DEF RelayInv, AtVersion
  <2>2. ~HasLine(heard["down"]) /\ "OK" \notin ToSet(heard["down"])
    BY <2>1 DEF HasLine, ToSet
  <2>3. said'["down"] = ClientHeader \o Greeting
    <3>1. said["down"] = << >> /\ w = Greeting
      BY <1>5, <2>2
    <3> QED BY <3>1, <1>2, <1>7
  <2> QED BY <1>0, <1>9, <2>1, <2>3, EnvKept DEF AtVersion
<1>11. AtRequest'
  <2> SUFFICES ASSUME pc = "request" PROVE AtRequest'
    BY <1>0 DEF AtRequest
  <2>1. /\ version = Greeting /\ Taken("down") = Greeting \o buf /\ heard["down"] = Greeting
        /\ said["down"] \in {Greeting, Greeting \o Wanted}
    BY DEF RelayInv, AtRequest
  <2>2. "OK" \notin ToSet(heard["down"])
    <3>1. DOMAIN Greeting = 1 .. 2 /\ Greeting[1] = Version /\ Greeting[2] = NL
      BY <1>1, StreamFacts
    <3>2. ASSUME NEW i \in 1 .. 2 PROVE Greeting[i] # "OK"
      <4>1. i = 1 \/ i = 2
        OBVIOUS
      <4> QED BY <3>1, <4>1, Spoken
    <3> QED BY <2>1, <3>1, <3>2 DEF ToSet
  <2>3. said'["down"] = Greeting \o Wanted
    <3>1. said["down"] = Greeting /\ w = Wanted
      BY <1>2, <1>5, <2>1, <2>2
    <3> QED BY <3>1, <1>7
  <2> QED BY <1>0, <1>2, <1>9, <2>1, <2>3, EnvKept DEF AtRequest
<1>12. AtListing' /\ AtRouting' /\ AtUpstream' /\ AtRsyncd'
  <2>1. Known(name)' = Known(name)
    BY <1>0 DEF Known
  <2> QED BY <1>0, <1>7, <1>9, <2>1, EnvKept
          DEF RelayInv, AtListing, AtRouting, AtUpstream, AtRsyncd
<1>13. AtCopying'
  <2>1. HasLine(Taken("up"))' = HasLine(Taken("up"))
        /\ AfterLine(Taken("up"))' = AfterLine(Taken("up"))
    BY <1>9, Zenon DEF HasLine, AfterLine, LineLength, ToSet, SelectInSeq
  <2> QED BY <1>0, <1>9, <2>1, EnvKept DEF RelayInv, AtCopying, StreamsIntact
<1>14. UpstreamUntouched' /\ OnlyRsyncIsRouted' /\ AskerSays' /\ RsyncAsksNot'
  BY <1>0, <1>7 DEF RelayInv, UpstreamUntouched, OnlyRsyncIsRouted, AskerSays, RsyncAsksNot
<1> QED BY <1>8, <1>10, <1>11, <1>12, <1>13, <1>14 DEF RelayInv

LEMMA UpstreamSpeaksStep == RelayInv /\ UpstreamSpeaks => RelayInv'
<1> SUFFICES ASSUME RelayInv, UpstreamSpeaks PROVE RelayInv'
  OBVIOUS
<1> DEFINE w == UpstreamTurn
<1>0. /\ pc \in {"upstream", "copying"} /\ w # << >>
      /\ said' = [said EXCEPT !["up"] = @ \o w]
      /\ UNCHANGED <<env, pc, buf, version, name, taken, heard, asker, heardSoFar, found>>
  BY DEF UpstreamSpeaks, Speak, Say, askerVars
<1>1. /\ TypeOK /\ said["up"] \in Seq(Piece) /\ said \in [Peers -> Seq(Piece)]
      /\ env.client = "rsync"
  BY <1>0 DEF RelayInv, TypeOK, Peers, OnlyRsyncIsRouted
<1>2. env.opening \in Seq(Piece) /\ Len(env.opening) >= 2 /\ <<"OK", NL>> \in Seq(Piece)
  BY <1>1, EnvFacts, Configured, ShortStreams, Spoken
<1>3. w \in Seq(Piece) /\ (said["up"] = << >> => w = env.opening)
      /\ (w # << >> /\ said["up"] # << >>
            => heard["up"] = Header \o version \o name \o <<NL>>)
  BY <1>2 DEF UpstreamTurn
<1> HIDE DEF w
<1>6. said["up"] \o w \in Seq(Piece) /\ Len(said["up"] \o w) >= Len(said["up"])
  <2>2. Len(w) \in Nat /\ Len(said["up"]) \in Nat
        /\ Len(said["up"] \o w) = Len(said["up"]) + Len(w)
    BY <1>1, <1>3
  <2> QED BY <1>1, <1>3, <2>2
<1>7. said'["up"] = said["up"] \o w /\ said'["down"] = said["down"]
      /\ said' \in [Peers -> Seq(Piece)]
  BY <1>0, <1>1, <1>6 DEF Peers
<1>8. TypeOK'
  <2>1. \A p \in Peers : taken'[p] <= Len(said'[p])
    <3>1. taken["up"] \in Nat /\ taken["up"] <= Len(said["up"])
          /\ taken["down"] <= Len(said["down"])
          /\ Len(said["up"]) \in Nat
      BY <1>1 DEF TypeOK, Peers
    <3>2. taken["up"] <= Len(said["up"] \o w)
      <4>1. Len(said["up"] \o w) \in Nat
        BY <1>6
      <4> QED BY <3>1, <4>1, <1>6
    <3> QED BY <1>0, <1>7, <3>1, <3>2 DEF Peers
  <2> QED BY <1>0, <1>1, <1>7, <2>1 DEF TypeOK
<1>9. Taken("down")' = Taken("down") /\ Taken("up")' = Taken("up")
  BY <1>0, <1>1, <1>3, TakenKept DEF Peers
<1>10. AtUpstream'
  <2> SUFFICES ASSUME pc = "upstream" PROVE AtUpstream'
    BY <1>0 DEF AtUpstream
  <2>1. /\ version = Greeting /\ heard["down"] = Greeting \o MotdLine
        /\ name \o <<NL>> = env.request
        /\ Taken("down") = Greeting \o env.request
        /\ heard["up"] = Header \o Greeting
        /\ Taken("up") = buf /\ said["up"] \in {<< >>, env.opening}
    BY DEF RelayInv, AtUpstream
  <2>2. heard["up"] # Header \o version \o name \o <<NL>>
    <3>1. /\ Header \in Seq(Piece) /\ Greeting \in Seq(Piece) /\ name \in Seq(Piece)
          /\ <<NL>> \in Seq(Piece) /\ Len(<<NL>>) = 1
      BY <1>1, StreamFacts, ShortStreams, Spoken DEF TypeOK
    <3>2. /\ Header \o Greeting \in Seq(Piece) /\ Header \o Greeting \o name \in Seq(Piece)
          /\ Len(Header \o Greeting \o name) >= Len(Header \o Greeting)
          /\ Len(Header \o Greeting) \in Nat /\ Len(Header \o Greeting \o name) \in Nat
      BY <3>1
    <3> DEFINE v == Header \o Greeting \o name
    <3>3. Len(v \o <<NL>>) = Len(v) + 1
      <4>1. v \in Seq(Piece)
        BY <3>2
      <4> HIDE DEF v
      <4> QED BY <3>1, <4>1
    <3>4. v \o <<NL>> # Header \o Greeting
      <4>1. Len(v) >= Len(Header \o Greeting) /\ Len(v) \in Nat /\ Len(Header \o Greeting) \in Nat
        BY <3>2
      <4> HIDE DEF v
      <4> QED BY <3>3, <4>1
    <3> QED BY <3>4, <2>1
  <2>3. said'["up"] = env.opening
    <3>1. said["up"] = << >> /\ w = env.opening
      BY <1>0, <1>3, <2>2
    <3> QED BY <3>1, <1>2, <1>7
  <2> QED BY <1>0, <1>9, <2>1, <2>3, EnvKept DEF AtUpstream
<1>11. AtCopying'
  <2>1. HasLine(Taken("up"))' = HasLine(Taken("up"))
        /\ AfterLine(Taken("up"))' = AfterLine(Taken("up"))
    BY <1>9, Zenon DEF HasLine, AfterLine, LineLength, ToSet, SelectInSeq
  <2> QED BY <1>0, <1>9, <2>1, EnvKept DEF RelayInv, AtCopying, StreamsIntact
<1>12. /\ AtVersion' /\ AtRequest' /\ AtListing' /\ AtRouting' /\ AtRsyncd'
       /\ UpstreamUntouched' /\ OnlyRsyncIsRouted' /\ AskerSays' /\ RsyncAsksNot'
  BY <1>0, <1>1 DEF RelayInv, AtVersion, AtRequest, AtListing, AtRouting, AtRsyncd,
              UpstreamUntouched, OnlyRsyncIsRouted, AskerSays, RsyncAsksNot
<1> QED BY <1>8, <1>10, <1>11, <1>12 DEF RelayInv

LEMMA RsyncdOpensStep == RelayInv /\ RsyncdOpens => RelayInv'
<1> SUFFICES ASSUME RelayInv, RsyncdOpens PROVE RelayInv'
  OBVIOUS
<1>0. /\ pc = "accepted" /\ pc' = "opened"
      /\ heard' = [heard EXCEPT !["down"] = @ \o env.opening]
      /\ UNCHANGED <<env, buf, version, name, said, taken, asker, heardSoFar, found>>
  BY DEF RsyncdOpens, Go, Write, askerVars
<1>1. /\ TypeOK /\ heard["down"] = << >> /\ env.by = "rsyncd" /\ env.client = "discovery"
      /\ heard["up"] = << >> /\ said["up"] = << >>
  <2>1. TypeOK /\ heard["down"] = << >> /\ heard["up"] = << >> /\ said["up"] = << >>
    BY <1>0 DEF RelayInv, AtRsyncd, UpstreamUntouched
  <2>2. env.by = "rsyncd"
    BY <1>0, <2>1, EnvFacts DEF TypeOK, Stages
  <2> QED BY <2>1, <2>2, EnvFacts
<1>2. env.opening \in Seq(Piece) /\ env.opening # << >>
  <2>1. env.opening \in Seq(Piece) /\ Len(env.opening) >= 2
    BY <1>1, EnvFacts, Configured
  <2> QED BY <2>1
<1>3. /\ heard' \in [Peers -> Seq(Piece)] /\ heard'["down"] = env.opening
      /\ heard'["up"] = heard["up"]
  <2>1. << >> \o env.opening = env.opening
    BY <1>2
  <2> QED BY <1>0, <1>1, <1>2, <2>1 DEF TypeOK, Peers
<1>4. TypeOK'
  BY <1>0, <1>1, <1>3 DEF TypeOK
<1>5. /\ AtVersion' /\ AtRequest' /\ AtListing' /\ AtRouting' /\ AtUpstream' /\ AtCopying'
      /\ UpstreamUntouched' /\ OnlyRsyncIsRouted' /\ AtRsyncd'
  BY <1>0, <1>1, <1>3 DEF AtVersion, AtRequest, AtListing, AtRouting, AtUpstream, AtCopying,
         StreamsIntact, AtRsyncd, UpstreamUntouched, OnlyRsyncIsRouted
<1>6. AskerSays' /\ RsyncAsksNot'
  BY <1>0, <1>1, <1>2, <1>3, EnvKept DEF RelayInv, AskerSays, RsyncAsksNot
<1> QED BY <1>4, <1>5, <1>6 DEF RelayInv

\* The line that a discovery reads next.
LEMMA LineHeard ==
  ASSUME TypeOK, NEW h \in Seq(Piece), ReadString(h)
  PROVE  /\ h # << >> /\ heardSoFar' \in heardSoFar + 1 .. Len(h)
         /\ h[heardSoFar'] = NL /\ \A k \in heardSoFar + 1 .. heardSoFar' - 1 : h[k] # NL
         /\ NextLine(h) \in Seq(Piece) /\ Len(NextLine(h)) = heardSoFar' - heardSoFar - 1
         /\ \A k \in 1 .. Len(NextLine(h)) : NextLine(h)[k] = h[heardSoFar + k]
<1> DEFINE f == heardSoFar
           g == heardSoFar'
           u == Unheard(h)
           n == LineLength(u)
           x == SubSeq(u, 1, n)
<1>1. f \in Nat /\ HasLine(u) /\ g = f + Len(NextLine(h)) + 1
  BY DEF TypeOK, ReadString
<1>2. NextLine(h) = x
  BY DEF NextLine, FirstLine
<1> HIDE DEF f, g
<1>3. f < Len(h) /\ u \in Seq(Piece) /\ Len(u) = Len(h) - f
      /\ \A k \in 1 .. Len(h) - f : u[k] = h[f + k]
  <2>1. u = SubSeq(h, f + 1, Len(h))
    BY DEF Unheard, f
  <2>2. f < Len(h)
    <3> SUFFICES ASSUME f >= Len(h) PROVE FALSE
      BY <1>1
    <3>1. SubSeq(h, f + 1, Len(h)) = << >>
      BY <1>1
    <3> QED BY <1>1, <2>1, <3>1 DEF HasLine, ToSet
  <2> QED BY <1>1, <2>1, <2>2
<1>4. n \in 0 .. Len(u) - 1 /\ u[n + 1] = NL /\ \A k \in 1 .. n : u[k] # NL
  BY <1>1, <1>3, FirstNL
<1> HIDE DEF u, n
<1>5. x \in Seq(Piece) /\ Len(x) = n /\ \A k \in 1 .. n : x[k] = u[k]
  BY <1>3, <1>4
<1> HIDE DEF x
<1>6. /\ g = f + n + 1 /\ f \in Nat /\ Len(h) \in Nat
      /\ n \in Nat /\ f + n + 1 <= Len(h)
  BY <1>1, <1>2, <1>3, <1>4, <1>5
<1>7. h # << >> /\ g \in f + 1 .. Len(h)
  BY <1>1, <1>3, <1>6
<1>8. h[g] = NL
  <2>1. n + 1 \in 1 .. Len(h) - f /\ f + (n + 1) = g
    BY <1>6
  <2> QED BY <2>1, <1>3, <1>4
<1>9. ASSUME NEW k \in f + 1 .. g - 1 PROVE h[k] # NL
  <2>1. k - f \in 1 .. n /\ k - f \in 1 .. Len(h) - f /\ f + (k - f) = k
    BY <1>6
  <2> QED BY <2>1, <1>3, <1>4
<1>10. Len(x) = g - f - 1 /\ \A k \in 1 .. Len(x) : x[k] = h[f + k]
  <2>1. \A k \in 1 .. n : k \in 1 .. Len(h) - f
    BY <1>1, <1>3, <1>4
  <2>2. n = g - f - 1
    BY <1>6
  <2> QED BY <2>1, <2>2, <1>3, <1>5
<1> QED BY <1>2, <1>5, <1>7, <1>8, <1>9, <1>10 DEF f, g

\* The discovery speaks w, or nothing; what it says fits where relay is.
LEMMA AskerSpeaks ==
  ASSUME RelayInv, env.client = "discovery", NEW w \in Seq(Piece),
         said' = [said EXCEPT !["down"] = @ \o w],
         UNCHANGED <<env, pc, buf, version, name, taken, heard>>,
         asker' \in {"idle", "greeted", "listing", "done", "failed"},
         heardSoFar' \in Nat, found' \in Seq(Piece),
         pc = "version" => said'["down"] \in {<< >>, ClientHeader \o Greeting},
         pc = "request" => said'["down"] \in {Greeting, Greeting \o Wanted},
         AskerSays'
  PROVE  RelayInv'
<1>1. /\ TypeOK /\ said["down"] \in Seq(Piece) /\ said \in [Peers -> Seq(Piece)]
  BY DEF RelayInv, TypeOK, Peers
<1>2. said["down"] \o w \in Seq(Piece) /\ Len(said["down"] \o w) >= Len(said["down"])
  <2>1. Len(w) \in Nat /\ Len(said["down"]) \in Nat
        /\ Len(said["down"] \o w) = Len(said["down"]) + Len(w)
    BY <1>1
  <2> QED BY <1>1, <2>1
<1>3. said'["down"] = said["down"] \o w /\ said'["up"] = said["up"]
      /\ said' \in [Peers -> Seq(Piece)]
  BY <1>1, <1>2 DEF Peers
<1>4. TypeOK'
  <2>1. \A p \in Peers : taken'[p] <= Len(said'[p])
    <3>1. taken["down"] \in Nat /\ taken["down"] <= Len(said["down"])
          /\ taken["up"] <= Len(said["up"])
          /\ Len(said["down"]) \in Nat
      BY <1>1 DEF TypeOK, Peers
    <3>2. taken["down"] <= Len(said["down"] \o w)
      <4>1. Len(said["down"] \o w) \in Nat
        BY <1>2
      <4> QED BY <3>1, <4>1, <1>2
    <3> QED BY <1>3, <3>1, <3>2 DEF Peers
  <2> QED BY <1>1, <1>3, <2>1 DEF TypeOK
<1>5. Taken("down")' = Taken("down")
  BY <1>1, TakenKept DEF Peers
<1>6. AtVersion' /\ AtRequest'
  BY <1>5, EnvKept DEF RelayInv, AtVersion, AtRequest
<1>7. AtListing' /\ AtRsyncd'
  BY EnvKept DEF RelayInv, AtListing, AtRsyncd
<1>8. AtRouting' /\ AtUpstream' /\ AtCopying' /\ OnlyRsyncIsRouted' /\ RsyncAsksNot'
  BY DEF RelayInv, AtRouting, AtUpstream, AtCopying, StreamsIntact, OnlyRsyncIsRouted,
         RsyncAsksNot
<1>9. UpstreamUntouched'
  BY <1>3 DEF RelayInv, UpstreamUntouched
<1> QED BY <1>4, <1>6, <1>7, <1>8, <1>9 DEF RelayInv

LEMMA AskerActsStep == RelayInv /\ AskerActs => RelayInv'
<1> SUFFICES ASSUME RelayInv, AskerActs PROVE RelayInv'
  OBVIOUS
<1>0. /\ env.client = "discovery"
      /\ UNCHANGED <<env, pc, buf, version, name, taken, heard>>
      /\ \/ Ask /\ Say("down", Header \o <<Version, NL>>)
         \/ HearVersion(heard["down"]) /\ Say("down", <<NL>>)
         \/ Hear(heard["down"]) /\ UNCHANGED said
  BY DEF AskerActs
<1>1. /\ TypeOK /\ heard["down"] \in Seq(Piece) /\ said \in [Peers -> Seq(Piece)]
      /\ said["down"] \in Seq(Piece)
  BY DEF RelayInv, TypeOK, Peers
<1>2. /\ Header \in Seq(Piece) /\ Greeting \in Seq(Piece) /\ Len(Greeting) = 2
      /\ ClientHeader = Header /\ Wanted = <<NL>> /\ <<NL>> \in Seq(Piece) /\ << >> \in Seq(Piece)
      /\ Header \o Greeting \in Seq(Piece)
  <2>1. /\ Header \in Seq(Piece) /\ Greeting \in Seq(Piece) /\ Len(Greeting) = 2
        /\ ClientHeader = Header /\ Wanted = <<NL>>
    BY <1>0, <1>1, StreamFacts
  <2> QED BY <2>1, ShortStreams, Spoken
<1>3. CASE Ask /\ Say("down", Header \o <<Version, NL>>)
  <2>1. /\ asker = "idle" /\ asker' = "greeted" /\ UNCHANGED <<heardSoFar, found>>
        /\ said' = [said EXCEPT !["down"] = @ \o (Header \o Greeting)]
    BY <1>3 DEF Ask, Say, Greeting
  <2>2. said["down"] = << >> /\ heardSoFar = 0 /\ found = << >>
    BY <1>0, <2>1 DEF RelayInv, AskerSays
  <2>3. said'["down"] = Header \o Greeting
    <3>1. << >> \o (Header \o Greeting) = Header \o Greeting
      BY <1>2
    <3> QED BY <1>1, <2>1, <2>2, <3>1 DEF Peers
  <2>4. pc # "request"
    <3>1. Greeting # << >> /\ Greeting \o Wanted # << >>
      <4>1. Len(Greeting \o Wanted) = Len(Wanted) + 2 /\ Len(Wanted) \in Nat
        BY <1>2, AfterTwo
      <4>2. Len(Greeting \o Wanted) # Len(<< >>) /\ Len(Greeting) # Len(<< >>)
        BY <1>2, <4>1
      <4> QED BY <4>2, Zenon
    <3> QED BY <2>2, <3>1 DEF RelayInv, AtRequest
  <2>5. AskerSays'
    BY <1>0, <2>1, <2>2, <2>3, EnvKept DEF AskerSays
  <2>6. heardSoFar' \in Nat /\ found' \in Seq(Piece)
    BY <1>2, <2>1, <2>2
  <2> QED BY <1>0, <1>2, <2>1, <2>3, <2>4, <2>5, <2>6, AskerSpeaks
<1>4. CASE HearVersion(heard["down"]) /\ Say("down", <<NL>>)
  <2>1. /\ asker = "greeted" /\ asker' = "listing" /\ found' = found
        /\ ReadString(heard["down"])
        /\ said' = [said EXCEPT !["down"] = @ \o <<NL>>]
    BY <1>4 DEF HearVersion, Say
  <2>2. said["down"] = Header \o Greeting /\ found = << >>
    BY <1>0, <2>1 DEF RelayInv, AskerSays
  <2>3. heard["down"] # << >> /\ heardSoFar' \in Nat
    <3>1. heardSoFar \in Nat
      BY <1>1 DEF TypeOK
    <3> QED BY <1>1, <2>1, <3>1, LineHeard
  <2>4. said'["down"] = Header \o Greeting \o <<NL>>
    BY <1>1, <2>1, <2>2 DEF Peers
  <2>5. pc # "version"
    BY <2>3 DEF RelayInv, AtVersion
  <2>6. pc = "request" => said'["down"] = Greeting \o Wanted
    <3>1. pc = "request" => Header = << >>
      BY <1>2 DEF RelayInv, AtRequest
    <3>2. << >> \o Greeting = Greeting
      BY <1>2
    <3> QED BY <1>2, <2>4, <3>1, <3>2, Zenon
  <2>7. AskerSays'
    BY <1>0, <2>1, <2>3, <2>4, EnvKept DEF AskerSays
  <2> QED BY <1>0, <1>2, <2>1, <2>2, <2>3, <2>5, <2>6, <2>7, AskerSpeaks
<1>5. CASE Hear(heard["down"]) /\ UNCHANGED said
  <2>1. /\ ReadString(heard["down"]) /\ said' = said
        /\ \/ asker = "greeted" /\ asker' = "failed"
           \/ asker = "listing" /\ asker' \in {"listing", "done"}
        /\ \/ found' = found
           \/ found' = << >>
           \/ NextLine(heard["down"]) # << >> /\ found' = Append(found, Head(NextLine(heard["down"])))
    BY <1>5 DEF Hear, HearStranger, HearModule, HearBlank, HearEnd
  <2>2. heard["down"] # << >> /\ heardSoFar' \in Nat
    <3>1. heardSoFar \in Nat
      BY <1>1 DEF TypeOK
    <3> QED BY <1>1, <2>1, <3>1, LineHeard
  <2>3. found' \in Seq(Piece)
    <3>1. NextLine(heard["down"]) \in Seq(Piece) /\ found \in Seq(Piece)
      BY <1>1, <2>1, LineHeard DEF TypeOK
    <3> DEFINE x == Head(NextLine(heard["down"]))
    <3>2. NextLine(heard["down"]) # << >> => x \in Piece
      BY <3>1
    <3> HIDE DEF x
    <3>3. x \in Piece => Append(found, x) \in Seq(Piece)
      BY <3>1
    <3> QED BY <1>2, <2>1, <3>1, <3>2, <3>3, Zenon DEF x
  <2>4. said' = [said EXCEPT !["down"] = @ \o << >>]
    <3>1. said["down"] \o << >> = said["down"]
      BY <1>1
    <3> QED BY <1>1, <2>1, <3>1
  <2>5. /\ pc = "version" => said'["down"] \in {<< >>, ClientHeader \o Greeting}
        /\ pc = "request" => said'["down"] \in {Greeting, Greeting \o Wanted}
    BY <2>1 DEF RelayInv, AtVersion, AtRequest
  <2>6. AskerSays'
    BY <1>0, <2>1, <2>2, EnvKept DEF RelayInv, AskerSays
  <2>7. asker' \in {"idle", "greeted", "listing", "done", "failed"}
    BY <2>1
  <2> QED BY <1>0, <1>2, <2>2, <2>3, <2>4, <2>5, <2>6, <2>7, AskerSpeaks
<1> QED BY <1>0, <1>3, <1>4, <1>5

LEMMA AskerFailsStep == RelayInv /\ AskerFails => RelayInv'
<1> SUFFICES ASSUME RelayInv, AskerFails PROVE RelayInv'
  OBVIOUS
<1>0. /\ env.client = "discovery" /\ asker' = "failed" /\ UNCHANGED <<heardSoFar, found>>
      /\ UNCHANGED <<env, pc, buf, version, name, said, taken, heard>>
  BY DEF AskerFails, AskFails, streamVars
<1>1. TypeOK /\ said \in [Peers -> Seq(Piece)] /\ said["down"] \in Seq(Piece)
  BY DEF RelayInv, TypeOK, Peers
<1>2. said' = [said EXCEPT !["down"] = @ \o << >>] /\ << >> \in Seq(Piece)
  <2>1. said["down"] \o << >> = said["down"]
    BY <1>1
  <2> QED BY <1>0, <1>1, <2>1
<1>3. /\ pc = "version" => said'["down"] \in {<< >>, ClientHeader \o Greeting}
      /\ pc = "request" => said'["down"] \in {Greeting, Greeting \o Wanted}
  BY <1>0 DEF RelayInv, AtVersion, AtRequest
<1>4. AskerSays'
  BY <1>0, EnvKept DEF RelayInv, AskerSays
<1>5. heardSoFar' \in Nat /\ found' \in Seq(Piece)
  BY <1>0, <1>1 DEF TypeOK
<1> QED BY <1>0, <1>2, <1>3, <1>4, <1>5, AskerSpeaks

\* A read of some pieces from p, the rest staying in flight.
LEMMA ReadStep == ASSUME RelayInv, NEW p \in Peers, Read(p) PROVE RelayInv'
<1>0. /\ Reading(p)
      /\ UNCHANGED <<env, pc, version, name, said, heard, asker, heardSoFar, found>>
  BY DEF Read, askerVars
<1>1. PICK n \in 1 .. Size - Len(buf) :
        /\ n <= Len(InFlight(p))
        /\ buf' = buf \o SubSeq(InFlight(p), 1, n)
        /\ taken' = [taken EXCEPT ![p] = @ + n]
  BY DEF Read
<1>2. TypeOK /\ buf \in Seq(Piece)
  BY DEF RelayInv, TypeOK
<1> DEFINE x == SubSeq(InFlight(p), 1, n)
<1>3. /\ taken' \in [Peers -> Nat]
      /\ \A q \in Peers : taken'[q] <= Len(said'[q])
      /\ x \in Seq(Piece)
      /\ Taken(p)' = Taken(p) \o x
      /\ \A q \in Peers \ {p} : Taken(q)' = Taken(q)
  <2>1. n \in 0 .. Len(InFlight(p))
    <3>1. Len(InFlight(p)) \in Nat
      BY <1>2, TakenFacts
    <3> QED BY <1>1, <3>1
  <2> QED BY <1>0, <1>1, <1>2, <2>1, TakenReads
<1> HIDE DEF x
<1>4. buf' = buf \o x /\ buf \o x \in Seq(Piece)
  BY <1>1, <1>2, <1>3 DEF x
<1>5. TypeOK'
  BY <1>0, <1>2, <1>3, <1>4 DEF TypeOK
<1>6. CASE p = "down"
  <2>1. /\ pc \in {"version", "request"} /\ Taken("down")' = Taken("down") \o x
    BY <1>0, <1>3, <1>6 DEF Reading
  <2>2. AtVersion'
    BY <1>0, <1>4, <2>1, EnvKept DEF RelayInv, AtVersion
  <2>3. AtRequest'
    <3> SUFFICES ASSUME pc = "request" PROVE AtRequest'
      BY <1>0 DEF AtRequest
    <3>1. /\ ClientHeader = << >> /\ version = Greeting
          /\ Taken("down") = Greeting \o buf /\ heard["down"] = Greeting
          /\ said["down"] \in {Greeting, Greeting \o Wanted}
      BY DEF RelayInv, AtRequest
    <3>2. (Greeting \o buf) \o x = Greeting \o (buf \o x)
      <4>1. Greeting \in Seq(Piece)
        BY <1>2, StreamFacts
      <4> QED BY <4>1, <1>2, <1>3, Joined
    <3>3. Taken("down")' = Greeting \o buf'
      BY <1>4, <2>1, <3>1, <3>2, Zenon
    <3> QED BY <1>0, <3>1, <3>3, EnvKept DEF AtRequest
  <2>4. AtRsyncd' /\ UpstreamUntouched'
    BY <1>0, <2>1 DEF RelayInv, AtRsyncd, UpstreamUntouched
  <2>5. AtListing' /\ AtRouting' /\ AtUpstream' /\ AtCopying' /\ OnlyRsyncIsRouted'
    BY <1>0, <2>1 DEF AtListing, AtRouting, AtUpstream, AtCopying, StreamsIntact, OnlyRsyncIsRouted
  <2>6. AskerSays' /\ RsyncAsksNot'
    BY <1>0, EnvKept DEF RelayInv, AskerSays, RsyncAsksNot
  <2> QED BY <1>5, <2>2, <2>3, <2>4, <2>5, <2>6 DEF RelayInv
<1>7. CASE p = "up"
  <2>1. /\ pc = "upstream" /\ Taken("up")' = Taken("up") \o x /\ Taken("down")' = Taken("down")
    BY <1>0, <1>3, <1>7 DEF Reading, Peers
  <2>2. AtUpstream'
    BY <1>0, <1>4, <2>1, EnvKept DEF RelayInv, AtUpstream
  <2>3. AtVersion' /\ AtRequest' /\ AtListing' /\ AtRouting' /\ AtCopying' /\ AtRsyncd'
    BY <1>0, <2>1 DEF AtVersion, AtRequest, AtListing, AtRouting, AtCopying, StreamsIntact, AtRsyncd
  <2>4. UpstreamUntouched' /\ OnlyRsyncIsRouted' /\ AskerSays' /\ RsyncAsksNot'
    BY <1>0, <2>1, EnvKept DEF RelayInv, UpstreamUntouched, OnlyRsyncIsRouted, AskerSays, RsyncAsksNot
  <2> QED BY <1>5, <2>2, <2>3, <2>4 DEF RelayInv
<1> QED BY <1>6, <1>7 DEF Peers

\* The steps that end the talk.
LEMMA EndingStep ==
  ASSUME RelayInv, RefuseStranger \/ RefuseModule \/ ListAllModules \/ RefuseUpstream
                     \/ RsyncdLists \/ Fail
  PROVE  RelayInv'
<1>1. << >> \in Seq(Piece) /\ <<"@ERROR", NL>> \in Seq(Piece)
  BY ShortStreams, Spoken
<1>2. Listing(<< >>) \in Seq(Piece) /\ Listing(<<"comment">>) \in Seq(Piece)
  BY ListingFacts DEF Comments
<1>3. CASE RefuseStranger \/ RefuseUpstream \/ Fail
  <2>1. /\ pc' = "over" /\ heard' = heard
        /\ UNCHANGED <<env, buf, version, name, said, taken, askerVars>>
    BY <1>3 DEF RefuseStranger, RefuseUpstream, Fail, Go, streamVars
  <2> QED BY <1>1, <2>1, EndsOver
<1>4. CASE RefuseModule \/ ListAllModules \/ RsyncdLists
  <2>1. /\ pc' = "over"
        /\ UNCHANGED <<env, buf, version, name, said, taken, askerVars>>
        /\ \/ heard' = [heard EXCEPT !["down"] = @ \o <<"@ERROR", NL>>]
           \/ heard' = [heard EXCEPT !["down"] = @ \o Listing(<< >>)]
           \/ heard' = [heard EXCEPT !["down"] = @ \o Listing(<<"comment">>)]
    BY <1>4 DEF RefuseModule, ListAllModules, RsyncdLists, Go, Write
  <2> QED BY <1>1, <1>2, <2>1, EndsOver
<1> QED BY <1>3, <1>4

\* Nobody does anything.
LEMMA StutteringStep == RelayInv /\ UNCHANGED vars => RelayInv'
<1> SUFFICES ASSUME RelayInv, UNCHANGED vars PROVE RelayInv'
  OBVIOUS
<1>1. UNCHANGED <<env, pc, buf, version, name, said, taken, heard, asker, heardSoFar, found>>
  BY DEF vars, streamVars, askerVars
<1>2. Taken("down")' = Taken("down") /\ Taken("up")' = Taken("up") /\ Known(name)' = Known(name)
  BY <1>1 DEF Taken, Known
<1>3. TypeOK'
  BY <1>1 DEF RelayInv, TypeOK
<1>4. AtVersion' /\ AtRequest' /\ AtListing' /\ AtRouting' /\ AtUpstream' /\ AtRsyncd'
  BY <1>1, <1>2, EnvKept DEF RelayInv, AtVersion, AtRequest, AtListing, AtRouting, AtUpstream, AtRsyncd
<1>5. AtCopying'
  <2>1. HasLine(Taken("up"))' = HasLine(Taken("up"))
        /\ AfterLine(Taken("up"))' = AfterLine(Taken("up"))
    BY <1>2, Zenon DEF HasLine, AfterLine, LineLength, ToSet, SelectInSeq
  <2> QED BY <1>1, <1>2, <2>1, EnvKept DEF RelayInv, AtCopying, StreamsIntact
<1>6. UpstreamUntouched' /\ OnlyRsyncIsRouted' /\ AskerSays' /\ RsyncAsksNot'
  BY <1>1, EnvKept DEF RelayInv, UpstreamUntouched, OnlyRsyncIsRouted, AskerSays, RsyncAsksNot
<1> QED BY <1>3, <1>4, <1>5, <1>6 DEF RelayInv

LEMMA NextRelayInv == RelayInv /\ [Next]_vars => RelayInv'
<1> SUFFICES ASSUME RelayInv, [Next]_vars PROVE RelayInv'
  OBVIOUS
<1>1. CASE GreetClient
  BY <1>1, GreetClientStep
<1>2. CASE RequestList
  BY <1>2, RequestListStep
<1>3. CASE RequestModule
  BY <1>3, RequestModuleStep
<1>4. CASE Dial
  BY <1>4, DialStep
<1>5. CASE GreetUpstream
  BY <1>5, GreetUpstreamStep
<1>6. CASE RefuseStranger \/ RefuseModule \/ ListAllModules \/ RefuseUpstream \/ RsyncdLists \/ Fail
  BY <1>6, EndingStep
<1>7. CASE ClientSpeaks
  BY <1>7, ClientSpeaksStep
<1>8. CASE UpstreamSpeaks
  BY <1>8, UpstreamSpeaksStep
<1>9. CASE RsyncdOpens
  BY <1>9, RsyncdOpensStep
<1>10. CASE AskerActs
  BY <1>10, AskerActsStep
<1>11. CASE AskerFails
  BY <1>11, AskerFailsStep
<1>12. ASSUME NEW p \in Peers, Read(p) PROVE RelayInv'
  BY <1>12, ReadStep
<1>13. ASSUME NEW p \in Peers, Copy(p) PROVE RelayInv'
  BY <1>13, CopyStep
<1>14. CASE UNCHANGED vars
  BY <1>14, StutteringStep
<1> QED BY <1>1, <1>2, <1>3, <1>4, <1>5, <1>6, <1>7, <1>8, <1>9, <1>10, <1>11, <1>12, <1>13,
           <1>14, Zenon DEF Next, Relay

\* Whatever is configured, asked for and opened with, and however the streams
\* are cut, what each peer has said and heard fits where relay is.
THEOREM RelayInvariance == Spec => []RelayInv
<1>1. Init => RelayInv
  BY InitRelayInv
<1>2. RelayInv /\ [Next]_vars => RelayInv'
  BY NextRelayInv
<1> QED BY <1>1, <1>2, PTL DEF Spec

\* What is said, read and heard are streams of pieces, and nothing is read
\* that was not said.
THEOREM TypeCorrect == Spec => []TypeOK
<1>1. RelayInv => TypeOK
  BY DEF RelayInv
<1> QED BY <1>1, RelayInvariance, PTL

\* Where the line protocol ends and the copying begins, nothing is lost,
\* repeated or reordered.
THEOREM StreamsAreIntact == Spec => []StreamsIntact
<1>1. RelayInv => StreamsIntact
  BY DEF RelayInv, AtCopying
<1> QED BY <1>1, RelayInvariance, PTL

\* A stream that ends in NL is a line that was read.
LEMMA EndsInLine ==
  ASSUME buf \in Seq(Piece), NEW g \in Seq(Piece), g # << >>, g[Len(g)] = NL, buf = g
  PROVE  LineRead
BY DEF LineRead, Last

\* When all of the client's request has been read, it is a line.
LEMMA WholeRequestRead ==
  ASSUME RelayInv, pc = "request", InFlight("down") = << >>, said["down"] = Greeting \o Wanted
  PROVE  LineRead
<1>1. TypeOK /\ buf \in Seq(Piece) /\ Taken("down") = Greeting \o buf
  BY DEF RelayInv, TypeOK, AtRequest
<1>2. /\ Greeting \in Seq(Piece) /\ Len(Greeting) = 2
      /\ Wanted \in Seq(Piece) /\ Len(Wanted) \in Nat /\ Len(Wanted) >= 1
      /\ Wanted[Len(Wanted)] = NL
  BY <1>1, StreamFacts
<1>3. Greeting \o buf = Greeting \o Wanted
  BY <1>1, TakenFacts DEF Peers
<1>4. /\ Len(Greeting \o buf) = Len(buf) + 2
      /\ \A i \in 1 .. Len(buf) : (Greeting \o buf)[i + 2] = buf[i]
      /\ Len(Greeting \o Wanted) = Len(Wanted) + 2
      /\ \A i \in 1 .. Len(Wanted) : (Greeting \o Wanted)[i + 2] = Wanted[i]
  BY <1>1, <1>2, AfterTwo
<1>5. Len(buf) = Len(Wanted)
  <2>1. Len(buf) \in Nat /\ Len(buf) + 2 = Len(Wanted) + 2
    BY <1>1, <1>3, <1>4
  <2> QED BY <2>1, <1>2
<1>6. buf = Wanted
  <2>1. \A i \in 1 .. Len(buf) : buf[i] = Wanted[i]
    BY <1>3, <1>4, <1>5, Zenon
  <2> QED BY <1>1, <1>2, <1>5, <2>1, SeqEqual
<1>7. Wanted # << >>
  <2>1. Len(Wanted) # Len(<< >>)
    BY <1>2
  <2> QED BY <2>1, Zenon
<1> QED BY <1>1, <1>2, <1>6, <1>7, EndsInLine

\* A greeting is a line.
LEMMA GreetingIsLine ==
  ASSUME TypeOK
  PROVE  /\ Greeting \in Seq(Piece) /\ Greeting # << >> /\ HasLine(Greeting)
         /\ Greeting[Len(Greeting)] = NL
         /\ << >> \o Greeting = Greeting
<1>1. /\ Greeting \in Seq(Piece) /\ Len(Greeting) = 2 /\ Greeting[2] = NL
  BY StreamFacts
<1>2. Greeting # << >>
  <2>1. Len(Greeting) # Len(<< >>)
    BY <1>1
  <2> QED BY <2>1, Zenon
<1>3. HasLine(Greeting)
  <2>1. DOMAIN Greeting = 1 .. 2 /\ 2 \in 1 .. 2
    BY <1>1
  <2> QED BY <1>1, <2>1 DEF HasLine, ToSet
<1> QED BY <1>1, <1>2, <1>3

LEMMA ClientHasTurn ==
  ASSUME RelayInv, TimesOut("down"), env.client = "rsync"
  PROVE  ClientTurn # << >>
<1>1. /\ TypeOK /\ buf \in Seq(Piece) /\ pc \in {"version", "request"} /\ ~LineRead
      /\ Taken("down") = said["down"] /\ InFlight("down") = << >>
  <2>1. /\ TypeOK /\ pc \in {"version", "request"} /\ ~LineRead
        /\ InFlight("down") = << >>
    BY DEF RelayInv, TimesOut, Reading
  <2> QED BY <2>1, TakenFacts DEF Peers, TypeOK
<1>2. /\ Greeting \in Seq(Piece) /\ Greeting # << >> /\ HasLine(Greeting)
      /\ Greeting[Len(Greeting)] = NL /\ << >> \o Greeting = Greeting
      /\ Wanted = env.request /\ Wanted # << >> /\ ClientHeader = << >>
  <2>1. Wanted = env.request /\ Wanted \in Seq(Piece) /\ Len(Wanted) >= 1
    BY <1>1, StreamFacts
  <2>2. Wanted # << >>
    <3>1. Len(Wanted) # Len(<< >>)
      BY <2>1
    <3> QED BY <3>1, Zenon
  <2>3. ClientHeader = << >>
    BY DEF ClientHeader
  <2> QED BY <1>1, <2>1, <2>2, <2>3, GreetingIsLine
<1>3. CASE pc = "version"
  <2>1. Taken("down") = buf /\ said["down"] \in {<< >>, Greeting}
    BY <1>2, <1>3 DEF RelayInv, AtVersion
  <2>2. said["down"] = << >>
    BY <1>1, <1>2, <2>1, EndsInLine
  <2> QED BY <1>2, <2>2 DEF ClientTurn, Greeting
<1>4. CASE pc = "request"
  <2>1. heard["down"] = Greeting /\ said["down"] \in {Greeting, Greeting \o Wanted}
    BY <1>4 DEF RelayInv, AtRequest
  <2>2. said["down"] = Greeting
    BY <1>1, <1>4, <2>1, WholeRequestRead
  <2> QED BY <1>2, <2>1, <2>2 DEF ClientTurn, Greeting
<1> QED BY <1>1, <1>3, <1>4

LEMMA DiscoveryHasTurn ==
  ASSUME RelayInv, TimesOut("down"), env.client = "discovery", Asking
  PROVE  asker = "greeted" /\ HasLine(Unheard(heard["down"]))
<1>1. /\ TypeOK /\ buf \in Seq(Piece) /\ pc \in {"version", "request"} /\ ~LineRead
      /\ Taken("down") = said["down"] /\ InFlight("down") = << >>
  <2>1. /\ TypeOK /\ pc \in {"version", "request"} /\ ~LineRead
        /\ InFlight("down") = << >>
    BY DEF RelayInv, TimesOut, Reading
  <2> QED BY <2>1, TakenFacts DEF Peers, TypeOK
<1>2. /\ Greeting \in Seq(Piece) /\ Greeting # << >> /\ HasLine(Greeting)
      /\ Greeting[Len(Greeting)] = NL /\ << >> \o Greeting = Greeting
      /\ Wanted = <<NL>> /\ ClientHeader = Header
  BY <1>1, StreamFacts, GreetingIsLine
<1>3. /\ asker = "greeted" => said["down"] = Header \o Greeting /\ heardSoFar = 0
      /\ asker = "listing" => said["down"] = Header \o Greeting \o <<NL>>
                              /\ heard["down"] # << >>
      /\ asker \in {"greeted", "listing"}
  BY DEF RelayInv, AskerSays, Asking
<1>4. CASE pc = "version"
  <2>1. Taken("down") = buf /\ heard["down"] = << >>
    BY <1>4 DEF RelayInv, AtVersion
  <2>2. buf = Header \o Greeting
    BY <1>1, <1>3, <2>1
  <2>3. Header = << >> => LineRead
    BY <1>1, <1>2, <2>2, EndsInLine
  <2>4. ASSUME Header # << >> PROVE LineRead
    <3>1. Header \in Seq(Piece) /\ Len(Header) = 2 /\ Len(Greeting) = 2 /\ Greeting[2] = NL
      BY <1>1, <2>4, StreamFacts
    <3> DEFINE b == Header \o Greeting
    <3>2. /\ Len(b) = Len(Greeting) + 2
          /\ \A i \in 1 .. Len(Greeting) : b[i + 2] = Greeting[i]
      BY <1>2, <3>1, AfterTwo
    <3>3. b \in Seq(Piece)
      BY <1>2, <3>1
    <3> HIDE DEF b
    <3>4. Len(b) = 4 /\ b[4] = NL
      <4>1. 2 \in 1 .. Len(Greeting) /\ 2 + 2 = 4
        BY <3>1
      <4>2. b[2 + 2] = Greeting[2]
        BY <3>2, <4>1, Zenon
      <4> QED BY <3>1, <3>2, <4>1, <4>2
    <3>5. b # << >> /\ b[Len(b)] = NL
      <4>1. Len(b) # Len(<< >>)
        BY <3>4
      <4> QED BY <3>4, <4>1, Zenon
    <3> QED BY <1>1, <2>2, <3>3, <3>5, EndsInLine DEF b
  <2> QED BY <1>1, <2>3, <2>4
<1>5. CASE pc = "request"
  <2>1. Header = << >> /\ heard["down"] = Greeting
    BY <1>2, <1>5 DEF RelayInv, AtRequest
  <2>2. ASSUME asker = "listing" PROVE FALSE
    <3>1. said["down"] = Greeting \o Wanted
      BY <1>2, <1>3, <2>1, <2>2, Zenon
    <3> QED BY <1>1, <1>5, <3>1, WholeRequestRead
  <2>3. asker = "greeted"
    BY <1>3, <2>2
  <2>4. Unheard(heard["down"]) = Greeting
    <3>1. 0 + 1 = 1
      OBVIOUS
    <3>2. Unheard(heard["down"]) = SubSeq(Greeting, 1, Len(Greeting))
      BY <1>3, <2>1, <2>3, <3>1, Zenon DEF Unheard
    <3> QED BY <1>2, <3>2, SubSeqFull
  <2> QED BY <1>2, <2>3, <2>4, Zenon
<1> QED BY <1>1, <1>4, <1>5

LEMMA UpstreamHasTurn ==
  ASSUME RelayInv, TimesOut("up")
  PROVE  UpstreamTurn # << >>
<1>1. /\ TypeOK /\ buf \in Seq(Piece) /\ pc = "upstream" /\ ~LineRead
      /\ Taken("up") = said["up"] /\ InFlight("up") = << >>
  <2>1. /\ TypeOK /\ pc = "upstream" /\ ~LineRead /\ InFlight("up") = << >>
    BY DEF RelayInv, TimesOut, Reading
  <2> QED BY <2>1, TakenFacts DEF Peers, TypeOK
<1>2. Taken("up") = buf /\ said["up"] \in {<< >>, env.opening}
  BY <1>1 DEF RelayInv, AtUpstream
<1>3. env.opening \in Seq(Piece) /\ env.opening # << >> /\ env.opening[Len(env.opening)] = NL
  <2>1. env.client = "rsync"
    BY <1>1 DEF RelayInv, OnlyRsyncIsRouted
  <2>2. env.opening \in Seq(Piece) /\ Len(env.opening) >= 2 /\ env.opening[Len(env.opening)] = NL
    BY <1>1, <2>1, EnvFacts, Configured
  <2> QED BY <2>2
<1>4. said["up"] = << >>
  BY <1>1, <1>2, <1>3, EndsInLine
<1> QED BY <1>3, <1>4 DEF UpstreamTurn

\* Relay and a peer never wait for each other, in any talk.
THEOREM NobodyWaitsMutually == Spec => []NoMutualWait
<1>1. RelayInv => NoMutualWait
  <2> SUFFICES ASSUME RelayInv PROVE NoMutualWait
    OBVIOUS
  <2>1. TypeOK
    BY DEF RelayInv
  <2>2. env.client \in {"rsync", "discovery"}
    BY <2>1, EnvFacts
  <2> QED BY <2>2, ClientHasTurn, DiscoveryHasTurn, UpstreamHasTurn DEF NoMutualWait
<1> QED BY <1>1, RelayInvariance, PTL

(* ----------------- The discovery's invariant, step by step -------------- *)

\* What is said first is the beginning of the whole.
LEMMA BeginsWith ==
  ASSUME NEW s \in Seq(Piece), NEW t \in Seq(Piece)
  PROVE  IsPrefix(s, s \o t)
<1>1. Len(s) \in 0 .. Len(s) /\ Len(s \o t) = Len(s) + Len(t) /\ s \o t \in Seq(Piece)
      /\ Len(t) \in Nat /\ Len(s) \in Nat
  OBVIOUS
<1>2. SubSeq(s \o t, 1, Len(s)) = SubSeq(s, 1, Len(s))
  BY <1>1, PrefixKept
<1> DEFINE k == Len(s)
           l == Len(s \o t)
<1>3. k <= l
  <2>1. k \in Nat /\ l = k + Len(t) /\ Len(t) \in Nat
    BY <1>1
  <2> HIDE DEF k, l
  <2> QED BY <2>1
<1> QED BY <1>2, <1>3, Zenon DEF IsPrefix

LEMMA AnswerFacts ==
  ASSUME TypeOK, env.client = "discovery"
  PROVE  /\ Comment \in Comments /\ Preface \in Seq(Piece) /\ Listing(Comment) \in Seq(Piece)
         /\ Answer \in Seq(Piece) /\ Len(Preface) >= 2
         /\ Preface[1] # NL /\ Preface[2] = NL
         /\ env.by = "proxy" => Preface = Greeting \o MotdLine /\ Comment = << >>
         /\ env.by = "rsyncd" => /\ Preface = env.opening /\ Comment = <<"comment">>
                                 /\ env.opening \in Openings
<1>1. env.by \in {"proxy", "rsyncd"}
  BY EnvFacts
<1>2. CASE env.by = "proxy"
  <2>1. Preface = Greeting \o MotdLine /\ Comment = << >> /\ Comment \in Comments
    BY <1>2 DEF Preface, Comment, Comments
  <2>2. /\ Greeting \in Seq(Piece) /\ MotdLine \in Seq(Piece) /\ Len(Greeting) = 2
        /\ Greeting[1] = Version /\ Greeting[2] = NL
    BY StreamFacts
  <2>3. /\ Preface \in Seq(Piece) /\ Len(Preface) >= 2
        /\ Preface[1] = Version /\ Preface[2] = NL
    <3> DEFINE m == MotdLine
               g == Greeting
    <3>1. g \in Seq(Piece) /\ m \in Seq(Piece) /\ Len(g) = 2 /\ Len(m) \in Nat
          /\ g[1] = Version /\ g[2] = NL
      BY <2>2
    <3> HIDE DEF m, g
    <3>2. /\ g \o m \in Seq(Piece) /\ Len(g \o m) = Len(g) + Len(m)
          /\ \A i \in 1 .. Len(g) + Len(m) :
               (g \o m)[i] = IF i <= Len(g) THEN g[i] ELSE m[i - Len(g)]
      BY <3>1, ConcatProperties
    <3>3. Len(g \o m) >= 2 /\ (g \o m)[1] = Version /\ (g \o m)[2] = NL
      BY <3>1, <3>2
    <3> QED BY <2>1, <3>2, <3>3 DEF m, g
  <2>4. Listing(Comment) \in Seq(Piece)
    BY <2>1, ListingFacts
  <2>5. Answer \in Seq(Piece)
    BY <2>3, <2>4 DEF Answer
  <2> QED BY <1>2, <2>1, <2>3, <2>4, <2>5, Spoken
<1>3. CASE env.by = "rsyncd"
  <2>1. Preface = env.opening /\ Comment = <<"comment">> /\ Comment \in Comments
        /\ env.opening \in Openings
    BY <1>3, EnvFacts DEF Preface, Comment, Comments
  <2>2. /\ Preface \in Seq(Piece) /\ Len(Preface) >= 2 /\ Preface[1] # NL /\ Preface[2] = NL
    BY <2>1, Configured
  <2>4. Listing(Comment) \in Seq(Piece)
    BY <2>1, ListingFacts
  <2>5. Answer \in Seq(Piece)
    BY <2>2, <2>4 DEF Answer
  <2> QED BY <1>3, <2>1, <2>2, <2>4, <2>5
<1> QED BY <1>1, <1>2, <1>3

\* Under the assumption on motds, what comes before the list is whole lines, the
\* last of them blank if there is more than one, and none of the protocol.
LEMMA PrefaceEnds ==
  ASSUME TypeOK, env.client = "discovery", NoticesEnd
  PROVE  /\ Len(Preface) > 2 => Preface[Len(Preface) - 1] = NL /\ Preface[Len(Preface)] = NL
         /\ \A k \in 3 .. Len(Preface) : Preface[k] # Version /\ Preface[k] # Exit
<1>1. env.by \in {"proxy", "rsyncd"}
  BY EnvFacts
<1>2. CASE env.by = "proxy"
  <2> DEFINE m == env.motd
             t == MotdLine
             p == Preface
  <2>1. m \in Motds /\ m \in Seq(Piece) /\ Ended(m)
    BY <1>2, EnvFacts DEF NoticesEnd
  <2>2. Preface = Greeting \o MotdLine
    BY <1>2, AnswerFacts
  <2>3. /\ Greeting \in Seq(Piece) /\ t \in Seq(Piece) /\ Len(Greeting) = 2
    BY StreamFacts
  <2>4. Len(p) = Len(t) + 2 /\ \A i \in 1 .. Len(t) : p[i + 2] = t[i]
    BY <2>2, <2>3, AfterTwo
  <2>5. CASE m = << >>
    <3>1. Len(t) = 0
      BY <2>5 DEF MotdLine
    <3> HIDE DEF p, t
    <3>2. Len(p) = 2
      BY <2>4, <3>1
    <3> QED BY <3>2 DEF p
  <2>6. CASE m # << >>
    <3> HIDE DEF m
    <3>1. t = m \o <<NL>> /\ <<NL>> \in Seq(Piece) /\ Len(<<NL>>) = 1 /\ <<NL>>[1] = NL
      BY <2>6, ShortStreams, Spoken DEF MotdLine, m
    <3>2. Len(m) \in Nat /\ Len(m) # 0 /\ m[Len(m)] = NL
          /\ \A k \in 1 .. Len(m) : m[k] # Version /\ m[k] # Exit
      BY <2>1, <2>6 DEF Ended, Last
    <3>3. Len(t) = Len(m) + 1
          /\ \A i \in 1 .. Len(m) + 1 : t[i] = IF i <= Len(m) THEN m[i] ELSE NL
      <4> DEFINE e == <<NL>>
      <4>1. e \in Seq(Piece) /\ Len(e) = 1 /\ e[1] = NL
        BY <3>1
      <4> HIDE DEF e
      <4>2. Len(m \o e) = Len(m) + Len(e)
            /\ \A i \in 1 .. Len(m) + Len(e) :
                 (m \o e)[i] = IF i <= Len(m) THEN m[i] ELSE e[i - Len(m)]
        BY <4>1, <2>1, ConcatProperties
      <4>3. t = m \o e
        BY <3>1 DEF e
      <4> HIDE DEF t
      <4> QED BY <3>2, <4>1, <4>2, <4>3
    <3> HIDE DEF t, p
    <3> DEFINE k == Len(m)
    <3>4. k \in Nat \ {0} /\ Len(t) = k + 1 /\ Len(p) = k + 3
          /\ \A i \in 1 .. k + 1 : t[i] = IF i <= k THEN m[i] ELSE NL
      BY <2>4, <3>2, <3>3
    <3> HIDE DEF k
    <3>5. \A i \in 1 .. k + 1 : p[i + 2] = IF i <= k THEN m[i] ELSE NL
      BY <2>4, <3>4
    <3>6. p[k + 2] = NL /\ p[k + 3] = NL
      <4>1. k \in 1 .. k + 1 /\ k + 1 \in 1 .. k + 1 /\ ~(k + 1 <= k) /\ k <= k
            /\ (k + 1) + 2 = k + 3
        BY <3>4
      <4>2. m[k] = NL
        BY <3>2 DEF k
      <4> QED BY <3>5, <4>1, <4>2
    <3>7. ASSUME NEW j \in 3 .. Len(p) PROVE p[j] # Version /\ p[j] # Exit
      <4>1. j - 2 \in 1 .. k + 1 /\ (j - 2) + 2 = j
        BY <3>4
      <4>2. p[j] = IF j - 2 <= k THEN m[j - 2] ELSE NL
        BY <3>5, <4>1
      <4>3. j - 2 <= k => j - 2 \in 1 .. k
        BY <4>1, <3>4
      <4>4. \A i \in 1 .. k : m[i] # Version /\ m[i] # Exit
        BY <3>2 DEF k
      <4> QED BY <4>2, <4>3, <4>4, Spoken
    <3>8. Len(p) - 1 = k + 2 /\ Len(p) = k + 3
      BY <3>4
    <3> QED BY <3>6, <3>7, <3>8 DEF p
  <2> QED BY <2>5, <2>6
<1>3. CASE env.by = "rsyncd"
  <2> DEFINE p == Preface
             k == Len(p)
             r == SubSeq(p, 3, k - 1)
  <2>1. p = env.opening /\ env.opening \in Openings
    BY <1>3, AnswerFacts
  <2>2. p \in Seq(Piece) /\ k \in Nat /\ k >= 2 /\ p[k] = NL /\ p[2] = NL /\ Ended(r)
    BY <2>1, Configured DEF NoticesEnd
  <2> HIDE DEF p
  <2>3. k > 3 => /\ r \in Seq(Piece) /\ Len(r) = k - 3
                 /\ \A i \in 1 .. k - 3 : r[i] = p[i + 2]
    BY <2>2
  <2> HIDE DEF k, r
  <2>4. k > 2 => p[k - 1] = NL
    <3>1. CASE k = 3
      BY <2>2, <3>1
    <3>2. CASE k > 3
      <4>1. k - 3 \in 1 .. k - 3 /\ (k - 3) + 2 = k - 1
        BY <2>2, <3>2
      <4>2. r # << >>
        <5>1. Len(r) # Len(<< >>)
          BY <2>3, <3>2, <2>2
        <5> QED BY <5>1, Zenon
      <4>3. r[k - 3] = NL
        BY <2>2, <2>3, <3>2, <4>2 DEF Ended, Last
      <4> QED BY <2>3, <3>2, <4>1, <4>3
    <3> QED BY <2>2, <3>1, <3>2
  <2>5. ASSUME NEW j \in 3 .. k PROVE p[j] # Version /\ p[j] # Exit
    <3>1. CASE j = k
      BY <3>1, <2>2, Spoken
    <3>2. CASE j # k
      <4>1. k > 3 /\ j - 2 \in 1 .. k - 3 /\ (j - 2) + 2 = j
        BY <2>2, <3>2
      <4>2. r[j - 2] \notin {Version, Exit}
        BY <2>2, <2>3, <4>1 DEF Ended
      <4> QED BY <2>3, <4>1, <4>2
    <3> QED BY <3>1, <3>2
  <2> QED BY <2>2, <2>4, <2>5 DEF p, k
<1> QED BY <1>1, <1>2, <1>3

\* A piece of the whole answer: of what comes before the list, or of the list.
LEMMA AnswerPieces ==
  ASSUME TypeOK, env.client = "discovery", NoticesEnd
  PROVE  LET p == Len(Preface)
             w == Width
             n == Cardinality(Served)
         IN  /\ p \in Nat /\ p >= 2 /\ w \in {2, 3} /\ n \in Nat
             /\ Answer[1] # NL /\ Answer[2] = NL
             /\ p > 2 => Answer[p - 1] = NL /\ Answer[p] = NL
             /\ \A k \in 3 .. p : Answer[k] # Version /\ Answer[k] # Exit
             /\ \A i \in 0 .. n - 1 :
                  /\ Answer[p + w * i + 1] = SetToSeq(Served)[i + 1]
                  /\ \A c \in 2 .. w - 1 : Answer[p + w * i + c] # NL
                  /\ Answer[p + w * i + w] = NL
             /\ Answer[p + w * n + 1] = Exit /\ Answer[p + w * n + 2] = NL
<1> DEFINE p == Len(Preface)
           w == Width
           n == Cardinality(Served)
           q == SetToSeq(Served)
           l == Listing(Comment)
           a == Answer
           f == Preface
<1>1. f \in Seq(Piece) /\ p = Len(f) /\ p \in Nat /\ p >= 2 /\ f[1] # NL /\ f[2] = NL
  BY AnswerFacts
<1>2. /\ p > 2 => f[p - 1] = NL /\ f[p] = NL
      /\ \A k \in 3 .. p : f[k] # Version /\ f[k] # Exit
  BY PrefaceEnds
<1>3. /\ w \in {2, 3} /\ n \in Nat /\ l \in Seq(Piece) /\ Len(l) = w * n + 2
      /\ \A i \in 0 .. n - 1 :
           /\ l[w * i + 1] = q[i + 1]
           /\ \A c \in 2 .. w - 1 : l[w * i + c] = "comment"
           /\ l[w * i + w] = NL
      /\ l[w * n + 1] = Exit /\ l[w * n + 2] = NL
  BY AnswerFacts, ListingFacts DEF Width
<1> HIDE DEF w, n, q, l, f
<1>4. a = f \o l
  BY DEF Answer, f, l
<1> HIDE DEF a
<1>5. Len(a) = p + Len(l) /\ \A k \in 1 .. p + Len(l) : a[k] = IF k <= p THEN f[k] ELSE l[k - p]
  <2>1. /\ Len(f \o l) = Len(f) + Len(l)
        /\ \A k \in 1 .. Len(f) + Len(l) :
             (f \o l)[k] = IF k <= Len(f) THEN f[k] ELSE l[k - Len(f)]
    <3>1. f \in Seq(Piece) /\ l \in Seq(Piece)
      BY <1>1, <1>3
    <3> QED BY <3>1, ConcatProperties, Zenon
  <2>2. p = Len(f)
    BY <1>1
  <2> HIDE DEF p
  <2> QED BY <2>1, <2>2, <1>4, Zenon
<1> HIDE DEF p
<1>6. w * n \in Nat /\ Len(l) \in Nat
  <2>1. CASE w = 2
    BY <2>1, <1>3
  <2>2. CASE w = 3
    BY <2>2, <1>3
  <2> QED BY <2>1, <2>2, <1>3
<1>7. \A k \in 1 .. p : a[k] = f[k]
  BY <1>1, <1>5, <1>6
<1>8. \A k \in 1 .. w * n + 2 : a[p + k] = l[k]
  <2> DEFINE m == w * n + 2
  <2>1. m \in Nat /\ Len(l) = m
    BY <1>3, <1>6
  <2> HIDE DEF m
  <2> SUFFICES ASSUME NEW k \in 1 .. m PROVE a[p + k] = l[k]
    BY DEF m
  <2>2. p + k \in 1 .. p + Len(l) /\ ~(p + k <= p) /\ (p + k) - p = k
    BY <2>1, <1>1
  <2> QED BY <2>2, <1>5
<1>9. ASSUME NEW i \in 0 .. n - 1, NEW c \in 1 .. w
      PROVE  w * i + c \in 1 .. w * n + 2 /\ p + w * i + c = p + (w * i + c)
  <2>1. CASE w = 2
    BY <2>1, <1>1, <1>3
  <2>2. CASE w = 3
    BY <2>2, <1>1, <1>3
  <2> QED BY <2>1, <2>2, <1>3
<1>10. ASSUME NEW i \in 0 .. n - 1, NEW c \in 1 .. w
       PROVE  a[p + w * i + c] = l[w * i + c]
  BY <1>8, <1>9
<1>11. /\ p + w * n + 1 = p + (w * n + 1) /\ w * n + 1 \in 1 .. w * n + 2
       /\ p + w * n + 2 = p + (w * n + 2) /\ w * n + 2 \in 1 .. w * n + 2
  BY <1>1, <1>6
<1>12. a[p + w * n + 1] = Exit /\ a[p + w * n + 2] = NL
  BY <1>3, <1>8, <1>11
<1>13. ASSUME NEW i \in 0 .. n - 1
       PROVE  /\ a[p + w * i + 1] = q[i + 1]
              /\ \A c \in 2 .. w - 1 : a[p + w * i + c] # NL
              /\ a[p + w * i + w] = NL
  <2>1. 1 \in 1 .. w /\ w \in 1 .. w /\ \A c \in 2 .. w - 1 : c \in 1 .. w
    BY <1>3
  <2> QED BY <2>1, <1>3, <1>10, Spoken
<1>14. a[1] # NL /\ a[2] = NL
  <2>1. 1 \in 1 .. p /\ 2 \in 1 .. p
    BY <1>1
  <2> QED BY <2>1, <1>1, <1>7
<1>15. p > 2 => a[p - 1] = NL /\ a[p] = NL
  <2>1. p > 2 => p - 1 \in 1 .. p /\ p \in 1 .. p
    BY <1>1
  <2> QED BY <2>1, <1>2, <1>7
<1>16. \A k \in 3 .. p : a[k] # Version /\ a[k] # Exit
  <2>1. \A k \in 3 .. p : k \in 1 .. p
    BY <1>1
  <2> QED BY <2>1, <1>2, <1>7
<1> QED BY <1>1, <1>3, <1>12, <1>13, <1>14, <1>15, <1>16 DEF p, w, n, q, a

\* The line that a discovery reads next is the next line of the answer.
LEMMA AnswerLineHeard ==
  ASSUME TypeOK, env.client = "discovery", HeardOfAnswer, ReadString(heard["down"])
  PROVE  LET h == heard["down"]
         IN  /\ heardSoFar' \in heardSoFar + 1 .. Len(h)
             /\ Answer[heardSoFar'] = NL
             /\ \A k \in heardSoFar + 1 .. heardSoFar' - 1 : Answer[k] # NL
             /\ NextLine(h) = << >> <=> heardSoFar' = heardSoFar + 1
             /\ NextLine(h) # << >> => Head(NextLine(h)) = Answer[heardSoFar + 1]
<1> DEFINE h == heard["down"]
           f == heardSoFar
           g == heardSoFar'
           x == NextLine(h)
           a == Answer
<1>1. h \in Seq(Piece) /\ f \in Nat /\ a \in Seq(Piece)
  BY AnswerFacts DEF TypeOK, Peers
<1>2. /\ g \in f + 1 .. Len(h) /\ h[g] = NL /\ \A k \in f + 1 .. g - 1 : h[k] # NL
      /\ x \in Seq(Piece) /\ Len(x) = g - f - 1
      /\ \A k \in 1 .. Len(x) : x[k] = h[f + k]
  BY <1>1, LineHeard
<1>3. Len(h) <= Len(a) /\ SubSeq(h, 1, Len(h)) = SubSeq(a, 1, Len(h))
  BY DEF HeardOfAnswer, IsPrefix
<1> HIDE DEF h, f, g, x, a
<1>4. \A k \in 1 .. Len(h) : h[k] = a[k]
  <2> SUFFICES ASSUME NEW k \in 1 .. Len(h) PROVE h[k] = a[k]
    OBVIOUS
  <2>1. SubSeq(h, 1, Len(h))[k] = h[k]
    BY <1>1
  <2>2. SubSeq(a, 1, Len(h))[k] = a[k]
    BY <1>1, <1>3
  <2> QED BY <1>3, <2>1, <2>2
<1> DEFINE m == Len(h)
<1>5. m \in Nat
  BY <1>1
<1>6. g \in f + 1 .. m /\ \A k \in f + 1 .. g - 1 : k \in 1 .. m
  <2>1. g \in f + 1 .. m
    BY <1>2
  <2> HIDE DEF m
  <2> QED BY <2>1, <1>1, <1>5
<1>7. a[g] = NL /\ \A k \in f + 1 .. g - 1 : a[k] # NL
  <2>1. g \in 1 .. m
    <3> HIDE DEF m
    <3> QED BY <1>1, <1>5, <1>6
  <2> QED BY <2>1, <1>2, <1>4, <1>6
<1>8. x = << >> <=> g = f + 1
  <2>1. Len(x) = 0 <=> g = f + 1
    <3>1. g \in f + 1 .. m
      BY <1>6
    <3> HIDE DEF m
    <3> QED BY <3>1, <1>1, <1>2, <1>5
  <2>2. x = << >> <=> Len(x) = 0
    BY <1>2, EmptySeq, Zenon
  <2> QED BY <2>1, <2>2
<1>9. x # << >> => Head(x) = a[f + 1]
  <2> SUFFICES ASSUME x # << >> PROVE Head(x) = a[f + 1]
    OBVIOUS
  <2>1. 1 \in 1 .. Len(x) /\ Head(x) = x[1]
    BY <1>2
  <2>2. x[1] = h[f + 1]
    BY <1>2, <2>1
  <2>3. f + 1 \in 1 .. m
    <3> HIDE DEF m
    <3> QED BY <1>1, <1>5, <1>6
  <2> QED BY <1>4, <2>1, <2>2, <2>3
<1> QED BY <1>6, <1>7, <1>8, <1>9 DEF h, f, g, x, a

\* After the server's version the list begins, or what comes before it.
LEMMA HearVersionPlace ==
  ASSUME RelayInv, AskerInv, NoticesEnd, env.client = "discovery",
         UNCHANGED <<env, heard>>, HearVersion(heard["down"])
  PROVE  AskerPlace'
<1> DEFINE f == heardSoFar
           g == heardSoFar'
           p == Len(Preface)
           w == Width
           n == Cardinality(Served)
<1>1. /\ TypeOK /\ HeardOfAnswer
      /\ asker = "greeted" /\ asker' = "listing" /\ found' = found
      /\ ReadString(heard["down"])
  BY DEF RelayInv, AskerInv, HearVersion
<1>2. f = 0 /\ found = << >>
  BY <1>1 DEF RelayInv, AskerSays
<1>3. /\ g \in f + 1 .. Len(heard["down"]) /\ Len(heard["down"]) \in Nat
      /\ Answer[g] = NL /\ \A k \in f + 1 .. g - 1 : Answer[k] # NL
  <2>1. heard["down"] \in Seq(Piece)
    BY <1>1 DEF TypeOK, Peers
  <2> QED BY <1>1, <2>1, AnswerLineHeard
<1>4. /\ p \in Nat /\ p >= 2 /\ w \in {2, 3} /\ n \in Nat
      /\ Answer[1] # NL /\ Answer[2] = NL
  BY <1>1, AnswerPieces
<1> HIDE DEF f, g, p, w, n
<1>5. g = 2
  <2>1. g # 1
    BY <1>3, <1>4
  <2>2. ~(g > 2)
    BY <1>2, <1>3, <1>4
  <2> QED BY <1>2, <1>3, <2>1, <2>2
<1>6. g <= Len(heard["down"])
  BY <1>2, <1>3
<1>7. g \in 2 .. p - 1 \/ (0 \in 0 .. n /\ g = p + w * 0)
  <2>1. w * 0 = 0
    BY <1>4
  <2> QED BY <1>4, <1>5, <2>1
<1>8. FoundFirst(0)'
  <2>1. Len(found') = 0 /\ 1 .. 0 = {}
    BY <1>1, <1>2
  <2> QED BY <2>1 DEF FoundFirst
<1>9. Preface' = Preface /\ Width' = Width
  BY EnvKept
<1>10. p = Len(Preface') /\ w = Width' /\ n = Cardinality(Served) /\ g = heardSoFar'
  BY <1>9 DEF p, w, n, g
<1>11. heardSoFar' \in 2 .. Len(Preface') - 1
         \/ \E i \in 0 .. Cardinality(Served) :
              heardSoFar' = Len(Preface') + Width' * i /\ FoundFirst(i)'
  BY <1>7, <1>8, <1>10
<1> QED BY <1>1, <1>6, <1>10, <1>11 DEF AskerPlace

\* A line before the list is dropped at the blank one that ends it.
LEMMA HearPrefacePlace ==
  ASSUME RelayInv, AskerInv, NoticesEnd, env.client = "discovery",
         UNCHANGED <<env, heard>>, asker = "listing",
         heardSoFar \in 2 .. Len(Preface) - 1, Hear(heard["down"])
  PROVE  AskerPlace'
<1> DEFINE f == heardSoFar
           g == heardSoFar'
           p == Len(Preface)
           w == Width
           n == Cardinality(Served)
           x == NextLine(heard["down"])
<1>1. /\ TypeOK /\ HeardOfAnswer /\ ReadString(heard["down"])
      /\ \/ x # << >> /\ ~IsProtocol(x) /\ asker' = "listing"
         \/ x = << >> /\ found' = << >> /\ asker' = "listing"
         \/ IsProtocol(x)
  BY DEF RelayInv, AskerInv, Hear, HearStranger, HearModule, HearBlank, HearEnd
<1>2. f \in 2 .. p - 1
  OBVIOUS
<1>3. /\ g \in f + 1 .. Len(heard["down"]) /\ Len(heard["down"]) \in Nat
      /\ Answer[g] = NL /\ \A k \in f + 1 .. g - 1 : Answer[k] # NL
      /\ x = << >> <=> g = f + 1
      /\ x # << >> => Head(x) = Answer[f + 1]
  <2>1. heard["down"] \in Seq(Piece)
    BY <1>1 DEF TypeOK, Peers
  <2> QED BY <1>1, <2>1, AnswerLineHeard
<1>4. /\ p \in Nat /\ p >= 2 /\ w \in {2, 3} /\ n \in Nat
      /\ p > 2 => Answer[p - 1] = NL /\ Answer[p] = NL
      /\ \A k \in 3 .. p : Answer[k] # Version /\ Answer[k] # Exit
  BY <1>1, AnswerPieces
<1> HIDE DEF f, g, p, w, n, x
<1>5. g \in f + 1 .. p /\ (f < p - 1 => g <= p - 1)
  <2>1. p > 2
    BY <1>2, <1>4
  <2>2. ~(g > p)
    BY <1>2, <1>3, <1>4, <2>1
  <2>3. f < p - 1 => ~(g > p - 1)
    BY <1>2, <1>3, <1>4, <2>1
  <2> QED BY <1>2, <1>3, <1>4, <2>2, <2>3
<1>6. ~IsProtocol(x)
  <2>1. f + 1 \in 3 .. p
    BY <1>2, <1>4
  <2>2. Answer[f + 1] # Version /\ Answer[f + 1] # Exit
    BY <1>4, <2>1
  <2> QED BY <1>3, <2>2 DEF IsProtocol
<1>7. asker' = "listing" /\ (g \in 2 .. p - 1 \/ (g = p /\ found' = << >>))
  <2>1. CASE x # << >>
    <3>1. f < p - 1
      BY <2>1, <1>2, <1>3, <1>4, <1>5
    <3>2. g \in 2 .. p - 1
      BY <3>1, <1>2, <1>4, <1>5
    <3> QED BY <3>2, <2>1, <1>1, <1>6
  <2>2. CASE x = << >>
    <3>1. g = p \/ g \in 2 .. p - 1
      BY <1>2, <1>4, <1>5
    <3> QED BY <3>1, <2>2, <1>1, <1>6
  <2> QED BY <2>1, <2>2
<1>8. found' = << >> => FoundFirst(0)'
  <2>1. Len(<< >>) = 0 /\ 1 .. 0 = {}
    OBVIOUS
  <2> QED BY <2>1 DEF FoundFirst
<1>9. g <= Len(heard["down"])
  BY <1>3, <1>2, <1>4
<1>10. p = Len(Preface') /\ w = Width' /\ n = Cardinality(Served) /\ g = heardSoFar'
  BY EnvKept DEF p, w, n, g
<1>11. heardSoFar' \in 2 .. Len(Preface') - 1
         \/ \E i \in 0 .. Cardinality(Served) :
              heardSoFar' = Len(Preface') + Width' * i /\ FoundFirst(i)'
  <2>1. w * 0 = 0 /\ 0 \in 0 .. n /\ p + 0 = p
    BY <1>4
  <2> QED BY <2>1, <1>7, <1>8, <1>10
<1> QED BY <1>7, <1>9, <1>10, <1>11 DEF AskerPlace

\* A line of the list names the next module; after the last comes the end.
LEMMA HearListPlace ==
  ASSUME RelayInv, AskerInv, NoticesEnd, env.client = "discovery",
         UNCHANGED <<env, heard>>, asker = "listing", NEW i \in 0 .. Cardinality(Served),
         heardSoFar = Len(Preface) + Width * i, FoundFirst(i), Hear(heard["down"])
  PROVE  AskerPlace'
<1> DEFINE f == heardSoFar
           g == heardSoFar'
           p == Len(Preface)
           w == Width
           n == Cardinality(Served)
           q == SetToSeq(Served)
           x == NextLine(heard["down"])
<1>1. /\ TypeOK /\ HeardOfAnswer /\ ReadString(heard["down"]) /\ found \in Seq(Piece)
      /\ \/ x # << >> /\ ~IsProtocol(x) /\ found' = Append(found, Head(x)) /\ asker' = "listing"
         \/ x = << >>
         \/ IsProtocol(x) /\ found' = found /\ asker' = "done"
  BY DEF RelayInv, TypeOK, AskerInv, Hear, HearStranger, HearModule, HearBlank, HearEnd
<1>2. f = p + w * i /\ i \in 0 .. n
  OBVIOUS
<1>3. /\ g \in f + 1 .. Len(heard["down"]) /\ Len(heard["down"]) \in Nat
      /\ Answer[g] = NL /\ \A k \in f + 1 .. g - 1 : Answer[k] # NL
      /\ x = << >> <=> g = f + 1
      /\ x # << >> => Head(x) = Answer[f + 1]
  <2>1. heard["down"] \in Seq(Piece)
    BY <1>1 DEF TypeOK, Peers
  <2> QED BY <1>1, <2>1, AnswerLineHeard
<1>4. /\ p \in Nat /\ p >= 2 /\ w \in {2, 3} /\ n \in Nat
      /\ \A j \in 0 .. n - 1 :
           /\ Answer[p + w * j + 1] = q[j + 1]
           /\ \A c \in 2 .. w - 1 : Answer[p + w * j + c] # NL
           /\ Answer[p + w * j + w] = NL
      /\ Answer[p + w * n + 1] = Exit /\ Answer[p + w * n + 2] = NL
  BY <1>1, AnswerPieces
<1>5. q \in [1 .. n -> Served] /\ \A m \in Served : m # NL /\ m # Version /\ m # Exit /\ m \in Piece
  BY ServedInOrder, Configured
<1>6. p = Len(Preface') /\ w = Width' /\ n = Cardinality(Served) /\ g = heardSoFar'
  BY EnvKept
<1>7. Len(found) = i /\ \A j \in 1 .. i : found[j] = q[j]
  BY DEF FoundFirst
<1> HIDE DEF f, g, p, w, n, q, x
<1>8. f \in Nat /\ g <= Len(heard["down"])
  <2>1. CASE w = 2
    BY <2>1, <1>2, <1>3, <1>4
  <2>2. CASE w = 3
    BY <2>2, <1>2, <1>3, <1>4
  <2> QED BY <2>1, <2>2, <1>4
<1>9. CASE i < n
  <2>1. i \in 0 .. n - 1 /\ i + 1 \in 1 .. n /\ i + 1 \in 0 .. n
    BY <1>2, <1>4, <1>9
  <2> DEFINE s == q[i + 1]
  <2>2. s \in Served /\ s # NL /\ s # Version /\ s # Exit /\ s \in Piece
    BY <1>5, <2>1
  <2> HIDE DEF s
  <2>3. /\ Answer[f + 1] = s /\ Answer[f + w] = NL
        /\ \A c \in 2 .. w - 1 : Answer[f + c] # NL
    BY <1>2, <1>4, <2>1 DEF s
  <2>4. ASSUME NEW c \in 1 .. w - 1 PROVE g # f + c
    <3>1. CASE c = 1
      BY <3>1, <1>3, <2>2, <2>3
    <3>2. CASE c # 1
      <4>1. c \in 2 .. w - 1
        BY <3>2, <1>4
      <4> QED BY <4>1, <1>3, <2>3
    <3> QED BY <3>1, <3>2
  <2>5. g = f + w
    <3>1. ~(g > f + w)
      <4> SUFFICES ASSUME g > f + w PROVE FALSE
        OBVIOUS
      <4>1. f + w \in f + 1 .. g - 1
        BY <1>3, <1>4, <1>8
      <4> QED BY <4>1, <1>3, <2>3
    <3>2. CASE w = 2
      <4>1. g # f + 1
        BY <2>4, <3>2
      <4> QED BY <3>1, <3>2, <4>1, <1>3, <1>8
    <3>3. CASE w = 3
      <4>1. 1 \in 1 .. w - 1 /\ 2 \in 1 .. w - 1
        BY <3>3
      <4>2. g # f + 1 /\ g # f + 2
        BY <2>4, <4>1
      <4> QED BY <3>1, <3>3, <4>2, <1>3, <1>8
    <3> QED BY <3>2, <3>3, <1>4
  <2>6. x # << >> /\ Head(x) = s /\ ~IsProtocol(x)
    <3>1. g # f + 1
      BY <2>5, <1>4, <1>8
    <3> QED BY <3>1, <1>3, <2>2, <2>3 DEF IsProtocol
  <2>7. asker' = "listing" /\ found' = Append(found, s)
    BY <1>1, <2>6
  <2>8. FoundFirst(i + 1)'
    <3>1. Len(found') = i + 1
          /\ \A j \in 1 .. i + 1 : found'[j] = IF j = i + 1 THEN s ELSE found[j]
      <4>1. /\ Len(Append(found, s)) = Len(found) + 1
            /\ \A j \in 1 .. Len(found) : Append(found, s)[j] = found[j]
            /\ Append(found, s)[Len(found) + 1] = s
        BY <1>1, <2>2, AppendProperties
      <4>2. \A j \in 1 .. i + 1 : j = i + 1 \/ j \in 1 .. i
        BY <1>2, <1>4
      <4> QED BY <4>1, <4>2, <1>7, <2>7, Zenon
    <3>2. \A j \in 1 .. i + 1 : found'[j] = q[j]
      <4> SUFFICES ASSUME NEW j \in 1 .. i + 1 PROVE found'[j] = q[j]
        OBVIOUS
      <4>1. j = i + 1 \/ j \in 1 .. i
        BY <1>2, <1>4
      <4>2. j \in 1 .. i => j # i + 1
        BY <1>2, <1>4
      <4> QED BY <3>1, <4>1, <4>2, <1>7 DEF s
    <3> QED BY <3>1, <3>2 DEF FoundFirst, q
  <2>9. g = p + w * (i + 1)
    <3>1. CASE w = 2
      BY <3>1, <2>5, <1>2, <1>4
    <3>2. CASE w = 3
      BY <3>2, <2>5, <1>2, <1>4
    <3> QED BY <3>1, <3>2, <1>4
  <2>10. \E j \in 0 .. Cardinality(Served) :
           heardSoFar' = Len(Preface') + Width' * j /\ FoundFirst(j)'
    BY <2>1, <2>8, <2>9, <1>6
  <2> QED BY <2>7, <2>10, <1>6, <1>8 DEF AskerPlace
<1>10. CASE i = n
  <2>1. Answer[f + 1] = Exit /\ Answer[f + 2] = NL
    BY <1>2, <1>4, <1>10
  <2>2. g # f + 1
    BY <1>3, <2>1, Spoken
  <2>3. x # << >> /\ Head(x) = Exit /\ IsProtocol(x)
    BY <1>3, <2>1, <2>2 DEF IsProtocol
  <2>4. asker' = "done" /\ found' = found
    BY <1>1, <2>3
  <2>5. FoundFirst(Cardinality(Served))'
    BY <1>6, <1>7, <1>10, <2>4 DEF FoundFirst, q
  <2> QED BY <2>4, <2>5, <1>6, <1>8 DEF AskerPlace
<1>11. i < n \/ i = n
  BY <1>2, <1>4
<1> QED BY <1>9, <1>10, <1>11

\* More of the answer is said, and the discovery does nothing.
LEMMA MoreIsHeard ==
  ASSUME RelayInv, AskerInv, env' = env, UNCHANGED askerVars, env.client = "discovery",
         NEW x \in Seq(Piece), NEW y \in Seq(Piece), Answer = x \o y,
         heard'["down"] = x, Len(heard["down"]) <= Len(x)
  PROVE  AskerInv'
<1>1. HeardOfAnswer'
  <2>1. IsPrefix(x, Answer)
    BY BeginsWith
  <2>2. Answer' = Answer
    BY EnvKept
  <2> QED BY <2>1, <2>2, Zenon DEF HeardOfAnswer
<1>2. AskerPlace'
  <2>1. UNCHANGED <<asker, heardSoFar, found>> /\ Preface' = Preface /\ Width' = Width
    BY EnvKept DEF askerVars
  <2>2. heardSoFar \in Nat /\ heardSoFar <= Len(heard["down"])
        /\ Len(heard["down"]) \in Nat /\ Len(x) \in Nat
    BY DEF RelayInv, TypeOK, Peers, AskerInv, AskerPlace
  <2>3. heardSoFar <= Len(x)
    <3> DEFINE k == Len(x)
               l == Len(heard["down"])
    <3>1. k \in Nat /\ l \in Nat /\ l <= k /\ heardSoFar <= l
      BY <2>2
    <3> HIDE DEF k, l
    <3>2. heardSoFar <= k
      BY <2>2, <3>1
    <3> QED BY <3>2 DEF k
  <2>4. heardSoFar' <= Len(heard'["down"])
    BY <2>1, <2>3
  <2>5. \A i : FoundFirst(i)' <=> FoundFirst(i)
    BY <2>1 DEF FoundFirst
  <2> QED BY <2>1, <2>4, <2>5 DEF AskerInv, AskerPlace
<1> QED BY <1>1, <1>2 DEF AskerInv

\* Nothing more is said to the discovery, and it does nothing or fails.
LEMMA NothingIsHeard ==
  ASSUME AskerInv, env' = env, heard' = heard, UNCHANGED <<heardSoFar, found>>,
         asker' \in {asker, "greeted", "failed"}
  PROVE  AskerInv'
<1>1. Preface' = Preface /\ Width' = Width /\ Answer' = Answer
  BY EnvKept
<1>2. HeardOfAnswer'
  BY <1>1 DEF AskerInv, HeardOfAnswer
<1>3. \A i : FoundFirst(i)' <=> FoundFirst(i)
  BY DEF FoundFirst
<1>4. AskerPlace'
  BY <1>1, <1>3 DEF AskerInv, AskerPlace
<1> QED BY <1>2, <1>4 DEF AskerInv

\* What relay or an rsyncd says to a discovery continues the answer.
LEMMA AnswerGoesOn ==
  ASSUME RelayInv, AskerInv, env.client = "discovery",
         GreetClient \/ RequestList \/ ListAllModules \/ RsyncdOpens \/ RsyncdLists
  PROVE  AskerInv'
<1>1. env' = env /\ UNCHANGED askerVars
  BY DEF GreetClient, RequestList, ListAllModules, RsyncdOpens, RsyncdLists
<1>2. /\ TypeOK /\ heard \in [Peers -> Seq(Piece)] /\ "down" \in Peers
      /\ heard["down"] \in Seq(Piece)
  BY DEF RelayInv, TypeOK, Peers
<1>3. /\ Comment \in Comments /\ Preface \in Seq(Piece) /\ Listing(Comment) \in Seq(Piece)
      /\ Answer \in Seq(Piece) /\ Answer = Preface \o Listing(Comment)
      /\ env.by = "proxy" => Preface = Greeting \o MotdLine /\ Comment = << >>
      /\ env.by = "rsyncd" => Preface = env.opening /\ Comment = <<"comment">>
      /\ << >> \in Seq(Piece) /\ Len(<< >>) = 0
  BY <1>2, AnswerFacts DEF Answer
<1>4. Greeting \in Seq(Piece) /\ MotdLine \in Seq(Piece) /\ Greeting = <<Version, NL>>
  BY <1>2, StreamFacts DEF Greeting
<1>5. /\ pc \in Stages \ {"over"} => env.by = "proxy"
      /\ pc \in {"accepted", "opened"} => env.by = "rsyncd"
  BY <1>2, EnvFacts DEF TypeOK, Stages
<1>6. CASE GreetClient
  <2>1. /\ pc = "version" /\ heard' = [heard EXCEPT !["down"] = @ \o Greeting]
        /\ heard["down"] = << >> /\ env.by = "proxy"
    BY <1>4, <1>5, <1>6 DEF GreetClient, Go, Write, RelayInv, AtVersion, Stages
  <2>2. heard'["down"] = Greeting
    <3>1. << >> \o Greeting = Greeting
      BY <1>4
    <3> QED BY <1>2, <2>1, <3>1
  <2>3. Answer = Greeting \o (MotdLine \o Listing(Comment)) /\ MotdLine \o Listing(Comment) \in Seq(Piece)
    <3> DEFINE l == Listing(Comment)
    <3>1. l \in Seq(Piece) /\ Answer = (Greeting \o MotdLine) \o l
      BY <1>3, <2>1
    <3> HIDE DEF l
    <3>2. (Greeting \o MotdLine) \o l = Greeting \o (MotdLine \o l)
      BY <1>4, <3>1, Joined
    <3>3. MotdLine \o l \in Seq(Piece)
      BY <1>4, <3>1
    <3> QED BY <3>1, <3>2, <3>3 DEF l
  <2>4. Len(heard["down"]) <= Len(Greeting)
    <3>1. Len(Greeting) = 2
      BY <1>2, StreamFacts
    <3> QED BY <1>3, <2>1, <3>1
  <2> QED BY <1>1, <1>4, <2>2, <2>3, <2>4, MoreIsHeard
<1>7. CASE RequestList
  <2>1. /\ pc = "request" /\ heard' = [heard EXCEPT !["down"] = @ \o MotdLine]
        /\ heard["down"] = Greeting /\ env.by = "proxy"
    BY <1>5, <1>7 DEF RequestList, Go, Write, RelayInv, AtRequest, Stages
  <2>2. heard'["down"] = Preface
    BY <1>2, <1>3, <2>1
  <2>3. Len(heard["down"]) <= Len(Preface)
    <3>1. Len(Greeting) = 2 /\ Len(Preface) >= 2
      BY <1>2, StreamFacts, AnswerFacts
    <3> QED BY <2>1, <3>1
  <2> QED BY <1>1, <1>3, <2>2, <2>3, MoreIsHeard
<1>8. Answer = Answer \o << >>
  BY <1>3
<1>9. Len(Preface) <= Len(Answer)
  <2> DEFINE l == Listing(Comment)
  <2>1. l \in Seq(Piece) /\ Answer = Preface \o l
    BY <1>3
  <2> HIDE DEF l
  <2>2. Len(Preface \o l) = Len(Preface) + Len(l) /\ Len(l) \in Nat /\ Len(Preface) \in Nat
    BY <1>3, <2>1
  <2>3. Len(Answer) = Len(Preface) + Len(l)
    BY <2>1, <2>2, Zenon
  <2> QED BY <2>2, <2>3
<1>10. CASE ListAllModules
  <2>1. /\ pc = "listing" /\ heard' = [heard EXCEPT !["down"] = @ \o Listing(<< >>)]
        /\ heard["down"] = Greeting \o MotdLine /\ env.by = "proxy"
    BY <1>5, <1>10 DEF ListAllModules, Go, Write, RelayInv, AtListing, Stages
  <2>2. heard["down"] = Preface /\ Comment = << >>
    BY <1>3, <2>1
  <2>3. heard'["down"] = heard["down"] \o Listing(<< >>)
    BY <1>2, <2>1
  <2>4. heard'["down"] = Answer
    BY <1>3, <2>2, <2>3, Zenon
  <2> QED BY <1>1, <1>3, <1>8, <1>9, <2>2, <2>4, MoreIsHeard
<1>11. CASE RsyncdOpens
  <2>1. /\ pc = "accepted" /\ heard' = [heard EXCEPT !["down"] = @ \o env.opening]
        /\ heard["down"] = << >> /\ env.by = "rsyncd"
    BY <1>5, <1>11 DEF RsyncdOpens, Go, Write, RelayInv, AtRsyncd
  <2>2. heard'["down"] = Preface
    <3>1. << >> \o Preface = Preface
      BY <1>3
    <3> QED BY <1>2, <1>3, <2>1, <3>1
  <2>3. Len(heard["down"]) <= Len(Preface)
    <3>1. Len(Preface) >= 2
      BY <1>2, AnswerFacts
    <3> QED BY <1>3, <2>1, <3>1
  <2> QED BY <1>1, <1>3, <2>2, <2>3, MoreIsHeard
<1>12. CASE RsyncdLists
  <2>1. /\ pc = "opened" /\ heard' = [heard EXCEPT !["down"] = @ \o Listing(<<"comment">>)]
        /\ heard["down"] = env.opening /\ env.by = "rsyncd"
    BY <1>5, <1>12 DEF RsyncdLists, Go, Write, RelayInv, AtRsyncd
  <2>2. heard["down"] = Preface /\ Comment = <<"comment">>
    BY <1>3, <2>1
  <2>3. heard'["down"] = heard["down"] \o Listing(<<"comment">>)
    BY <1>2, <2>1
  <2>4. heard'["down"] = Answer
    BY <1>3, <2>2, <2>3, Zenon
  <2> QED BY <1>1, <1>3, <1>8, <1>9, <2>2, <2>4, MoreIsHeard
<1> QED BY <1>6, <1>7, <1>10, <1>11, <1>12

\* What the discovery does next.
LEMMA AskerGoesOn ==
  ASSUME RelayInv, AskerInv, NoticesEnd, AskerActs
  PROVE  AskerInv'
<1>1. /\ env.client = "discovery" /\ env' = env /\ heard' = heard
      /\ Ask \/ HearVersion(heard["down"]) \/ Hear(heard["down"])
  BY DEF AskerActs
<1>2. HeardOfAnswer'
  <2>1. Answer' = Answer
    BY <1>1, EnvKept
  <2> QED BY <1>1, <2>1 DEF AskerInv, HeardOfAnswer
<1>3. CASE Ask
  BY <1>1, <1>3, NothingIsHeard DEF Ask
<1>4. CASE HearVersion(heard["down"])
  BY <1>1, <1>2, <1>4, HearVersionPlace DEF AskerInv
<1>5. CASE Hear(heard["down"])
  <2>1. CASE asker = "greeted"
    <3>1. asker' = "failed" /\ ReadString(heard["down"])
      BY <1>5, <2>1 DEF Hear, HearStranger, HearModule, HearBlank, HearEnd
    <3>2. heardSoFar' <= Len(heard["down"])
      <4>1. TypeOK /\ heard["down"] \in Seq(Piece) /\ heardSoFar \in Nat
        BY DEF RelayInv, TypeOK, Peers
      <4>2. heardSoFar' \in heardSoFar + 1 .. Len(heard["down"]) /\ Len(heard["down"]) \in Nat
        BY <3>1, <4>1, LineHeard
      <4> QED BY <4>1, <4>2
    <3>3. AskerPlace'
      BY <1>1, <3>1, <3>2 DEF AskerPlace
    <3> QED BY <1>2, <3>3 DEF AskerInv
  <2>2. CASE asker = "listing"
    <3>1. \/ heardSoFar \in 2 .. Len(Preface) - 1
          \/ \E i \in 0 .. Cardinality(Served) :
               heardSoFar = Len(Preface) + Width * i /\ FoundFirst(i)
      BY <1>1, <2>2 DEF AskerInv, AskerPlace
    <3>2. CASE heardSoFar \in 2 .. Len(Preface) - 1
      BY <1>1, <1>2, <1>5, <2>2, <3>2, HearPrefacePlace DEF AskerInv
    <3>3. ASSUME NEW i \in 0 .. Cardinality(Served),
                 heardSoFar = Len(Preface) + Width * i, FoundFirst(i)
          PROVE  AskerInv'
      BY <1>1, <1>2, <1>5, <2>2, <3>3, HearListPlace DEF AskerInv
    <3> QED BY <3>1, <3>2, <3>3
  <2>3. asker \in {"greeted", "listing"}
    BY <1>5 DEF Hear, HearStranger, HearModule, HearBlank, HearEnd
  <2> QED BY <2>1, <2>2, <2>3
<1> QED BY <1>1, <1>3, <1>4, <1>5

LEMMA InitAskerInv == Init => AskerInv
<1> SUFFICES ASSUME Init PROVE AskerInv
  OBVIOUS
<1>1. /\ heard["down"] = << >> /\ asker = "idle" /\ heardSoFar = 0 /\ Len(<< >>) = 0
      /\ TypeOK
  BY InitRelayInv DEF Init, AskerInit, Peers, RelayInv
<1>2. env.client = "discovery" => IsPrefix(<< >>, Answer)
  <2> SUFFICES ASSUME env.client = "discovery" PROVE IsPrefix(<< >>, Answer)
    OBVIOUS
  <2>1. Answer \in Seq(Piece) /\ << >> \in Seq(Piece) /\ << >> \o Answer = Answer
    BY <1>1, AnswerFacts
  <2>2. IsPrefix(<< >>, << >> \o Answer)
    BY <2>1, BeginsWith
  <2> QED BY <2>1, <2>2, Zenon
<1> QED BY <1>1, <1>2 DEF AskerInv, HeardOfAnswer, AskerPlace

LEMMA NextAskerInv ==
  ASSUME NoticesEnd, RelayInv, RelayInv', AskerInv, [Next]_vars
  PROVE  AskerInv'
<1>1. env' = env
  BY DEF Next, vars, Relay, GreetClient, RefuseStranger, RequestList, RequestModule, RefuseModule,
         ListAllModules, Dial, GreetUpstream, RefuseUpstream, Fail, ClientSpeaks, UpstreamSpeaks,
         Speak, RsyncdOpens, RsyncdLists, AskerActs, AskerFails, Read, Copy
<1>2. CASE env.client = "rsync"
  BY <1>1, <1>2 DEF AskerInv, HeardOfAnswer, AskerPlace
<1>3. CASE env.client = "discovery"
  <2>1. pc \notin {"routing", "upstream", "copying"} /\ pc' \notin {"routing", "upstream", "copying"}
    BY <1>1, <1>3 DEF RelayInv, OnlyRsyncIsRouted
  <2>2. CASE GreetClient \/ RequestList \/ ListAllModules \/ RsyncdOpens \/ RsyncdLists
    BY <1>3, <2>2, AnswerGoesOn
  <2>3. CASE RequestModule \/ RefuseModule \/ Dial \/ GreetUpstream \/ RefuseUpstream
    BY <2>1, <2>3 DEF RequestModule, RefuseModule, Dial, GreetUpstream, RefuseUpstream, Go
  <2>4. CASE RefuseStranger \/ Fail \/ ClientSpeaks \/ UpstreamSpeaks \/ UNCHANGED vars
             \/ \E p \in Peers : Read(p)
    <3>1. heard' = heard /\ UNCHANGED <<asker, heardSoFar, found>>
      BY <2>4 DEF RefuseStranger, Fail, ClientSpeaks, UpstreamSpeaks, Speak, Read, vars,
                  streamVars, askerVars
    <3> QED BY <1>1, <3>1, NothingIsHeard
  <2>5. CASE AskerFails
    BY <1>1, <2>5, NothingIsHeard DEF AskerFails, AskFails, streamVars
  <2>6. CASE \E p \in Peers : Copy(p)
    BY <2>1, <2>6 DEF Copy
  <2>7. CASE AskerActs
    BY <2>7, AskerGoesOn
  <2> QED BY <2>2, <2>3, <2>4, <2>5, <2>6, <2>7, Zenon DEF Next, Relay
<1>4. env.client \in {"rsync", "discovery"}
  BY EnvFacts DEF RelayInv
<1> QED BY <1>2, <1>3, <1>4

\* If every motd ends its last line and no line of it looks like one of the
\* protocol, a discovery is told the answer in order and reads it line by line:
\* what it has found are the first modules of the list.
THEOREM AskerInvariance == ASSUME NoticesEnd PROVE Spec => []AskerInv
<1>1. Init => AskerInv
  BY InitAskerInv
<1>2. RelayInv /\ RelayInv' /\ AskerInv /\ [Next]_vars => AskerInv'
  BY NextAskerInv
<1> QED BY <1>1, <1>2, RelayInvariance, PTL DEF Spec

\* Under the same assumption, a discovery that succeeds has found the modules
\* that are served, each once, and nothing else.
THEOREM DiscoveryIsRight == ASSUME NoticesEnd PROVE Spec => []DiscoveryFindsModules
<1>1. RelayInv /\ AskerInv => DiscoveryFindsModules
  <2> SUFFICES ASSUME RelayInv, AskerInv, asker = "done"
               PROVE  ToSet(found) = Served /\ Len(found) = Cardinality(Served)
    BY DEF DiscoveryFindsModules
  <2> DEFINE n == Cardinality(Served)
             q == SetToSeq(Served)
  <2>1. env.client = "discovery"
    <3>1. env.client \in {"rsync", "discovery"}
      BY EnvFacts DEF RelayInv
    <3> QED BY <3>1 DEF RelayInv, RsyncAsksNot
  <2>2. found \in Seq(Piece) /\ Len(found) = n /\ \A j \in 1 .. n : found[j] = q[j]
    BY <2>1 DEF RelayInv, TypeOK, AskerInv, AskerPlace, FoundFirst
  <2>3. /\ q \in [1 .. n -> Served]
        /\ \A m \in Served : \E i \in 1 .. n : q[i] = m
    BY ServedInOrder
  <2> HIDE DEF n, q
  <2>4. DOMAIN found = 1 .. n
    BY <2>2
  <2>5. ToSet(found) = Served
    BY <2>2, <2>3, <2>4 DEF ToSet
  <2> QED BY <2>2, <2>5 DEF n
<1> QED BY <1>1, RelayInvariance, AskerInvariance, PTL
=============================================================================
