-------------------------------- MODULE Life --------------------------------
(***************************************************************************)
(* The life of the program: cmd/cmd.go RunE (load, Listen, Run), Listen    *)
(* and Run of pkg/server/server.go, and what a reload does beside routes   *)
(* and queues (those are in Reload.tla): certificate and log files.        *)
(* Several instances may be started on one machine with one configuration  *)
(* file, the same addresses and the same log files; listen_http is a Unix  *)
(* socket.  Nothing in the program calls Server.Close.                     *)
(***************************************************************************)
EXTENDS FileLogger

CONSTANT Configs            \* contents of the file that may be read: whether
                            \* listen_tls is set, which logs are named

ASSUME ConfigsAssumption == Configs \subseteq [tls : BOOLEAN, logs : SUBSET Loggers]

VARIABLES file,             \* the configuration file
          life,             \* life[i]: how far RunE has come
          config,           \* config[i]: the configuration last read
          bound,            \* bound[i]: listeners that Listen has opened
          control,          \* the instance the Unix socket's path leads to
          serving,          \* serving[i]: accept loops that run
          failed,           \* failed[i]: accept loops that have an error for errC
          cert,             \* cert[i]: s.tlsCertificate is there
          loading,          \* loading[i]: where a reload is
          since             \* history: logs rotated since the reload began

netVars == <<bound, control, serving, failed>>
reloadVars == <<cert, loading, since>>
vars == <<file, life, config, netVars, reloadVars, logVars>>

Sockets == {"tcp", "tls", "http"}
Nobody == "nobody"

Init ==
  /\ file \in Configs
  /\ life = [i \in Instances |-> "down"]
  /\ config = [i \in Instances |-> file]
  /\ bound = [i \in Instances |-> {}]
  /\ control = Nobody
  /\ serving = [i \in Instances |-> {}]
  /\ failed = [i \in Instances |-> {}]
  /\ cert = [i \in Instances |-> FALSE]
  /\ loading = [i \in Instances |-> "idle"]
  /\ since = [i \in Instances |-> {}]
  /\ LogInit

Go(i, from, to) == life[i] = from /\ life' = [life EXCEPT ![i] = to]

---------------------------------------------------------------------------
(* Start *)

\* ReadConfigFromFile(true) before Listen.  If it fails the process ends and
\* is as if it had not begun.
Load(i) ==
  /\ Go(i, "down", "loaded")
  /\ config' = [config EXCEPT ![i] = file]
  /\ cert' = [cert EXCEPT ![i] = file.tls]
  /\ OpenAll(i, file.logs)
  /\ UNCHANGED <<file, netVars, loading, since>>

Free(socket) == \A i \in Instances : socket \notin bound[i]

Bind(i, socket) ==
  /\ Free(socket)
  /\ bound' = [bound EXCEPT ![i] = @ \cup {socket}]

ListenTCP(i) ==
  /\ Go(i, "loaded", "tcp")
  /\ Bind(i, "tcp")
  /\ UNCHANGED <<file, config, control, serving, failed, reloadVars, logVars>>

ListenTLS(i) ==
  /\ config[i].tls
  /\ Go(i, "tcp", "tls")
  /\ Bind(i, "tls")
  /\ UNCHANGED <<file, config, control, serving, failed, reloadVars, logVars>>

\* Mutant of MayListenHTTP: the control socket comes first.
MayListenEarly(i) == life[i] = "loaded"

MayListenHTTP(i) == life[i] = (IF config[i].tls THEN "tls" ELSE "tcp")

\* os.Remove of whatever the path leads to, then a new socket, and Run: from
\* here on errors of Accept are all that can end the process from inside.
ListenHTTP(i) ==
  /\ MayListenHTTP(i)
  /\ life' = [life EXCEPT ![i] = "running"]
  /\ bound' = [bound EXCEPT ![i] = @ \cup {"http"}]
  /\ serving' = [serving EXCEPT ![i] = bound'[i]]
  /\ control' = i
  /\ UNCHANGED <<file, config, failed, reloadVars, logVars>>

\* Nothing is left of a process but the socket's path, which leads nowhere.
End(i) ==
  /\ life' = [life EXCEPT ![i] = "down"]
  /\ bound' = [bound EXCEPT ![i] = {}]
  /\ serving' = [serving EXCEPT ![i] = {}]
  /\ failed' = [failed EXCEPT ![i] = {}]
  /\ cert' = [cert EXCEPT ![i] = FALSE]
  /\ loading' = [loading EXCEPT ![i] = "idle"]
  /\ since' = [since EXCEPT ![i] = {}]
  /\ DropAll(i)
  /\ UNCHANGED <<file, config>>

\* Any listener may fail; the ones before it are closed.
ListenFails(i) ==
  /\ life[i] \in {"loaded", "tcp", "tls"}
  /\ control' = IF MayListenHTTP(i) THEN Nobody ELSE control
  /\ End(i)

\* The process is killed, at any time.
Crash(i) ==
  /\ life[i] # "down"
  /\ control' = IF control = i THEN Nobody ELSE control
  /\ End(i)

---------------------------------------------------------------------------
(* Run *)

\* Mutants of AcceptFails: the loop goes on after its error; the error of one
\* loop is not sent to errC.
AcceptFailsTwice(i, s) ==
  /\ s \in serving[i]
  /\ failed' = [failed EXCEPT ![i] = @ \cup {s}]
  /\ control' = IF s = "http" THEN Nobody ELSE control
  /\ UNCHANGED <<file, life, config, bound, serving, reloadVars, logVars>>

AcceptFailsUnheard(i, s) ==
  /\ s \in serving[i]
  /\ serving' = [serving EXCEPT ![i] = @ \ {s}]
  /\ failed' = IF s = "tls" THEN failed ELSE [failed EXCEPT ![i] = @ \cup {s}]
  /\ control' = IF s = "http" THEN Nobody ELSE control
  /\ UNCHANGED <<file, life, config, bound, reloadVars, logVars>>

\* runRsyncServer or http.Serve returns an error, which goes to errC.  Relays
\* and requests that were accepted go on.  http.Serve closes its listener, and
\* that removes the socket's path.
AcceptFails(i, s) ==
  /\ s \in serving[i]
  /\ serving' = [serving EXCEPT ![i] = @ \ {s}]
  /\ failed' = [failed EXCEPT ![i] = @ \cup {s}]
  /\ control' = IF s = "http" THEN Nobody ELSE control
  /\ UNCHANGED <<file, life, config, bound, reloadVars, logVars>>

\* Run receives the first error and returns it; main exits.
RunReturns(i) ==
  /\ failed[i] # {}
  /\ control' = IF control = i THEN Nobody ELSE control
  /\ End(i)

---------------------------------------------------------------------------
(* Reload: loadConfig with openLog.  One at a time: the rest of it is under *)
(* reloadLock, which Reload.tla is about.                                   *)

At(i, from, to) == loading[i] = from /\ loading' = [loading EXCEPT ![i] = to]

\* The file is read.
BeginReload(i) ==
  /\ "http" \in serving[i]
  /\ At(i, "idle", "checking")
  /\ config' = [config EXCEPT ![i] = file]
  /\ since' = [since EXCEPT ![i] = {}]
  /\ UNCHANGED <<file, life, netVars, cert, logVars>>

\* Mutant: listen_tls is only looked at when it is set.
TLSMayTurnOff(i) == config[i].tls => "tls" \in bound[i]

\* listen_tls can be neither enabled nor disabled.
TLSUnchanged(i) == config[i].tls <=> "tls" \in bound[i]

\* The checks, the certificate and the discoveries are done with success.
Check(i) ==
  /\ TLSUnchanged(i)
  /\ At(i, "checking", "access")
  /\ UNCHANGED <<file, life, config, netVars, cert, since, logVars>>

\* One of them fails, before any log file is touched.
Refuse(i) ==
  /\ At(i, "checking", "idle")
  /\ UNCHANGED <<file, life, config, netVars, cert, since, logVars>>

After == [access |-> "error", error |-> "store"]

SetFile(i, l) ==
  /\ loading[i] = l
  /\ \/ OpenFile(i, l, l \in config[i].logs) /\ UNCHANGED loading
     \/ CloseOld(i, l) /\ UNCHANGED loading
     \/ SetOutput(i, l) /\ At(i, l, After[l])
  /\ UNCHANGED <<file, life, config, netVars, cert, since>>

\* The reload fails; if it is the error log, the access log has been set.
SetFileFails(i, l) ==
  /\ At(i, l, "idle")
  /\ OpenFails(i, l, l \in config[i].logs)
  /\ UNCHANGED <<file, life, config, netVars, cert, since>>

Store(i) ==
  /\ At(i, "store", "idle")
  /\ cert' = [cert EXCEPT ![i] = config[i].tls]
  /\ UNCHANGED <<file, life, config, netVars, since, logVars>>

---------------------------------------------------------------------------
(* The administrator and logrotate *)

Edit ==
  /\ file' \in Configs
  /\ UNCHANGED <<life, config, netVars, reloadVars, logVars>>

Rotate(l) ==
  /\ RotateFile(l, {i \in Instances : loading[i] = l})
  /\ since' = [i \in Instances |-> IF loading[i] = "idle" THEN since[i] ELSE since[i] \cup {l}]
  /\ UNCHANGED <<file, life, config, netVars, cert, loading>>

---------------------------------------------------------------------------
Next ==
  \/ \E i \in Instances :
       \/ Load(i) \/ ListenTCP(i) \/ ListenTLS(i) \/ ListenHTTP(i) \/ ListenFails(i)
       \/ Crash(i) \/ RunReturns(i)
       \/ BeginReload(i) \/ Check(i) \/ Refuse(i) \/ Store(i)
       \/ \E s \in Sockets : AcceptFails(i, s)
       \/ \E l \in Loggers : SetFile(i, l) \/ SetFileFails(i, l)
  \/ Edit \/ \E l \in Loggers : Rotate(l)

\* A goroutine that can go on does.  Nothing else need ever happen.
Spec == Init /\ [][Next]_vars /\ \A i \in Instances : WF_vars(RunReturns(i))

---------------------------------------------------------------------------
(* Properties *)

\* The state has its type.
TypeOK ==
  /\ file \in Configs /\ config \in [Instances -> Configs]
  /\ life \in [Instances -> {"down", "loaded", "tcp", "tls", "running"}]
  /\ bound \in [Instances -> SUBSET Sockets]
  /\ control \in Instances \cup {Nobody}
  /\ serving \in [Instances -> SUBSET Sockets] /\ failed \in [Instances -> SUBSET Sockets]
  /\ \A i \in Instances : serving[i] \subseteq bound[i] /\ failed[i] \subseteq bound[i] \ serving[i]
  /\ cert \in [Instances -> BOOLEAN]
  /\ loading \in [Instances -> {"idle", "checking", "access", "error", "store"}]
  /\ since \in [Instances -> SUBSET Loggers]
  /\ opened \in [Instances -> [Loggers -> Files]]
  /\ output \in [Instances -> [Loggers -> {"discard", "current", "rotated", "closed"}]]
  /\ fresh \in [Instances -> Files]
  /\ step \in [Instances -> {"open", "close", "switch"}]

\* An instance that serves can be controlled: no other that is started beside
\* it by mistake takes its socket away, because it finds the TCP address taken
\* first.
ControlReachable == \A i \in Instances : "http" \in serving[i] => control = i

\* A handshake on the TLS listener always finds a certificate, whatever the
\* file has come to say since the start.
CertificateAtHand == \A i \in Instances : "tls" \in serving[i] => cert[i]

\* A logger never writes to a closed file, but between two steps of SetFile; a
\* reload that fails leaves it writing where it was.
LoggingGoesOn ==
  \A i \in Instances, l \in Loggers :
    ~(loading[i] = l /\ step[i] = "switch") => output[i][l] = OutputOf(opened[i][l])

\* When a reload has succeeded, no logger writes to a file that was rotated
\* before it began (assets/logrotate.conf relies on it), and exactly the logs
\* that are named are written.
ReloadReopens ==
  [][\A i \in Instances : loading[i] = "store" /\ loading'[i] = "idle" /\ life'[i] = "running" =>
       \A l \in Loggers :
         /\ output[i][l] = "rotated" => l \in since[i]
         /\ output[i][l] # "discard" <=> l \in config[i].logs]_vars

\* No instance goes on half dead: once one of its accept loops has ended it
\* ends altogether, and systemd starts it anew.
NoHalfDeath ==
  \A i \in Instances :
    (life[i] = "running" /\ serving[i] # bound[i]) ~> life[i] = "down"
=============================================================================
