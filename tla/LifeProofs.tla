----------------------------- MODULE LifeProofs -----------------------------
(***************************************************************************)
(* Proofs about Life for any set of instances and any configurations.  The *)
(* inductive invariant says how far a process has come (Staged), that only *)
(* one holds the TCP address (OneHolder), and what a reload has done by    *)
(* the place it has reached (SetFileInside, FreshNamed, AlreadySet).       *)
(***************************************************************************)
EXTENDS Life, TLAPS

---------------------------------------------------------------------------
(* The inductive invariant *)

\* Only one process has the TCP address.
OneHolder ==
  \A i, j \in Instances : "tcp" \in bound[i] /\ "tcp" \in bound[j] => i = j

\* What a process has, by how far it has come.
Staged ==
  \A i \in Instances :
    /\ life[i] \in {"down", "loaded"} => bound[i] = {}
    /\ life[i] = "tcp" => bound[i] = {"tcp"}
    /\ life[i] = "tls" => bound[i] = {"tcp", "tls"} /\ config[i].tls
    /\ life[i] = "running" => "tcp" \in bound[i]
    /\ life[i] # "running" => serving[i] = {} /\ failed[i] = {} /\ loading[i] = "idle"
    /\ life[i] \in {"loaded", "tcp", "tls"} /\ config[i].tls => cert[i]
    /\ life[i] = "running" /\ "tls" \in bound[i] => cert[i]
    /\ loading[i] \in {"access", "error", "store"} /\ "tls" \in bound[i] => config[i].tls

\* SetFile is in the middle only at a place of a reload.
SetFileInside == \A i \in Instances : step[i] # "open" => loading[i] \in Loggers

\* The file that SetFile has opened is wanted, and rotated only since then.
FreshNamed ==
  \A i \in Instances, l \in Loggers : loading[i] = l /\ step[i] # "open" =>
    /\ fresh[i] = "rotated" => l \in since[i]
    /\ fresh[i] # "none" <=> l \in config[i].logs

\* So are those of the loggers a reload is done with.
AlreadySet ==
  \A i \in Instances, l \in Loggers :
    loading[i] = "store" \/ (loading[i] = "error" /\ l = "access") =>
      /\ output[i][l] = "rotated" => l \in since[i]
      /\ output[i][l] # "discard" <=> l \in config[i].logs

IInv ==
  /\ TypeOK /\ OneHolder /\ Staged /\ ControlReachable
  /\ SetFileInside /\ FreshNamed /\ LoggingGoesOn /\ AlreadySet

---------------------------------------------------------------------------
\* In the beginning nothing runs.
LEMMA InitIInv == Init => IInv
  BY ConfigsAssumption DEF Init, IInv, LogInit, NoLogs, OutputOf, TypeOK, OneHolder, Staged,
     ControlReachable, SetFileInside, FreshNamed, LoggingGoesOn, AlreadySet, Files, Loggers,
     Sockets, Nobody

\* What SetFile has done stays true while the loggers and the reload stand still.
LEMMA LogsStand ==
  ASSUME IInv, UNCHANGED <<config, loading, since, logVars>>
  PROVE  (SetFileInside /\ FreshNamed /\ LoggingGoesOn /\ AlreadySet)'
  BY DEF IInv, SetFileInside, FreshNamed, LoggingGoesOn, AlreadySet, logVars

\* So do the sockets, while the listeners stand still.
LEMMA SocketsStand ==
  ASSUME IInv, UNCHANGED netVars
  PROVE  (OneHolder /\ ControlReachable)'
  BY DEF IInv, OneHolder, ControlReachable, netVars

\* Start: the configuration is loaded.
LEMMA LoadIInv == ASSUME IInv, NEW i \in Instances, Load(i) PROVE IInv'
<1> USE DEF Load, Go, OpenAll, netVars
<1>1. TypeOK'
  BY ConfigsAssumption DEF IInv, TypeOK, Staged, Files, Loggers, OutputOf
<1>2. OneHolder' /\ ControlReachable'
  BY DEF IInv, TypeOK, OneHolder, ControlReachable, Staged
<1>3. Staged'
  BY DEF IInv, TypeOK, Staged, Loggers
<1>4. SetFileInside' /\ FreshNamed' /\ AlreadySet'
  BY DEF IInv, TypeOK, Staged, SetFileInside, FreshNamed, AlreadySet, Loggers
<1>5. LoggingGoesOn'
  BY DEF IInv, TypeOK, Staged, SetFileInside, LoggingGoesOn, OutputOf, Loggers
<1> QED BY <1>1, <1>2, <1>3, <1>4, <1>5 DEF IInv

\* Start: the TCP address is to be had only if nobody has it.
LEMMA ListenTCPIInv == ASSUME IInv, NEW i \in Instances, ListenTCP(i) PROVE IInv'
<1> USE DEF ListenTCP, Go, Bind, Free, reloadVars, logVars
<1>1. TypeOK'
  BY DEF IInv, TypeOK, Staged, Sockets, Nobody
<1>2. OneHolder' /\ ControlReachable'
  BY DEF IInv, TypeOK, OneHolder, ControlReachable, Staged
<1>3. Staged'
  BY DEF IInv, TypeOK, Staged, Loggers
<1>4. (SetFileInside /\ FreshNamed /\ LoggingGoesOn /\ AlreadySet)'
  BY LogsStand
<1> QED BY <1>1, <1>2, <1>3, <1>4 DEF IInv

\* Start: the TLS address.
LEMMA ListenTLSIInv == ASSUME IInv, NEW i \in Instances, ListenTLS(i) PROVE IInv'
<1> USE DEF ListenTLS, Go, Bind, Free, reloadVars, logVars
<1>1. TypeOK'
  BY DEF IInv, TypeOK, Staged, Sockets, Nobody
<1>2. OneHolder' /\ ControlReachable'
  BY DEF IInv, TypeOK, OneHolder, ControlReachable, Staged
<1>3. Staged'
  BY DEF IInv, TypeOK, Staged, Loggers
<1>4. (SetFileInside /\ FreshNamed /\ LoggingGoesOn /\ AlreadySet)'
  BY LogsStand
<1> QED BY <1>1, <1>2, <1>3, <1>4 DEF IInv

\* Start: who comes this far holds the TCP address, so the socket it removes is
\* nobody's that serves.
LEMMA ListenHTTPIInv == ASSUME IInv, NEW i \in Instances, ListenHTTP(i) PROVE IInv'
<1> USE DEF ListenHTTP, MayListenHTTP, reloadVars, logVars
<1>1. TypeOK'
  BY DEF IInv, TypeOK, Staged, Sockets, Nobody
<1>2. OneHolder' /\ ControlReachable'
  BY DEF IInv, TypeOK, OneHolder, ControlReachable, Staged
<1>3. Staged'
  BY DEF IInv, TypeOK, Staged, Loggers
<1>4. (SetFileInside /\ FreshNamed /\ LoggingGoesOn /\ AlreadySet)'
  BY LogsStand
<1> QED BY <1>1, <1>2, <1>3, <1>4 DEF IInv

\* An end, whatever the reason; only its own socket's path goes, or that of
\* nobody who serves.
LEMMA EndIInv == ASSUME IInv, NEW i \in Instances, End(i),
         control' = control \/ (control' = Nobody /\ (control = i \/ "tcp" \in bound[i])) PROVE IInv'
<1> USE DEF End, DropAll, NoLogs
<1>1. TypeOK'
  BY DEF IInv, TypeOK, Staged, Files, Nobody
<1>2. OneHolder' /\ ControlReachable'
  BY DEF IInv, TypeOK, OneHolder, ControlReachable, Staged
<1>3. Staged'
  BY DEF IInv, TypeOK, Staged, Loggers
<1>4. SetFileInside' /\ FreshNamed' /\ AlreadySet'
  BY DEF IInv, TypeOK, Staged, SetFileInside, FreshNamed, AlreadySet, Loggers
<1>5. LoggingGoesOn'
  BY DEF IInv, TypeOK, Staged, SetFileInside, LoggingGoesOn, OutputOf, Loggers
<1> QED BY <1>1, <1>2, <1>3, <1>4, <1>5 DEF IInv

\* An accept loop ends.
LEMMA AcceptFailsIInv == ASSUME IInv, NEW i \in Instances, NEW s \in Sockets, AcceptFails(i, s) PROVE IInv'
<1> USE DEF AcceptFails, reloadVars, logVars
<1>1. TypeOK'
  BY DEF IInv, TypeOK, Staged
<1>2. OneHolder' /\ ControlReachable'
  BY DEF IInv, TypeOK, OneHolder, ControlReachable, Staged
<1>3. Staged'
  BY DEF IInv, TypeOK, Staged, Loggers
<1>4. (SetFileInside /\ FreshNamed /\ LoggingGoesOn /\ AlreadySet)'
  BY LogsStand
<1> QED BY <1>1, <1>2, <1>3, <1>4 DEF IInv

\* Reload: the file is read.
LEMMA BeginReloadIInv == ASSUME IInv, NEW i \in Instances, BeginReload(i) PROVE IInv'
<1> USE DEF BeginReload, At, netVars, logVars
<1>1. TypeOK'
  BY DEF IInv, TypeOK, Staged
<1>2. OneHolder' /\ ControlReachable'
  BY SocketsStand
<1>3. Staged'
  BY DEF IInv, TypeOK, Staged, Loggers
<1>4. SetFileInside' /\ FreshNamed' /\ AlreadySet'
  BY DEF IInv, TypeOK, Staged, SetFileInside, FreshNamed, AlreadySet, Loggers
<1>5. LoggingGoesOn'
  BY DEF IInv, TypeOK, Staged, SetFileInside, LoggingGoesOn, OutputOf, Loggers
<1> QED BY <1>1, <1>2, <1>3, <1>4, <1>5 DEF IInv

\* Reload: the checks pass.
LEMMA CheckIInv == ASSUME IInv, NEW i \in Instances, Check(i) PROVE IInv'
<1> USE DEF Check, TLSUnchanged, At, netVars, logVars
<1>1. TypeOK'
  BY DEF IInv, TypeOK, Staged
<1>2. OneHolder' /\ ControlReachable'
  BY SocketsStand
<1>3. Staged'
  BY DEF IInv, TypeOK, Staged, Loggers
<1>4. SetFileInside' /\ FreshNamed' /\ AlreadySet'
  BY DEF IInv, TypeOK, Staged, SetFileInside, FreshNamed, AlreadySet, Loggers
<1>5. LoggingGoesOn'
  BY DEF IInv, TypeOK, Staged, SetFileInside, LoggingGoesOn, OutputOf, Loggers
<1> QED BY <1>1, <1>2, <1>3, <1>4, <1>5 DEF IInv

\* Reload: something is refused.
LEMMA RefuseIInv == ASSUME IInv, NEW i \in Instances, Refuse(i) PROVE IInv'
<1> USE DEF Refuse, At, netVars, logVars
<1>1. TypeOK'
  BY DEF IInv, TypeOK, Staged
<1>2. OneHolder' /\ ControlReachable'
  BY SocketsStand
<1>3. Staged'
  BY DEF IInv, TypeOK, Staged, Loggers
<1>4. SetFileInside' /\ FreshNamed' /\ AlreadySet'
  BY DEF IInv, TypeOK, Staged, SetFileInside, FreshNamed, AlreadySet, Loggers
<1>5. LoggingGoesOn'
  BY DEF IInv, TypeOK, Staged, SetFileInside, LoggingGoesOn, OutputOf, Loggers
<1> QED BY <1>1, <1>2, <1>3, <1>4, <1>5 DEF IInv

\* Reload: the new log file is opened.
LEMMA OpenFileIInv == ASSUME IInv, NEW i \in Instances, NEW l \in Loggers, loading[i] = l,
         OpenFile(i, l, l \in config[i].logs), UNCHANGED loading,
         UNCHANGED <<file, life, config, netVars, cert, since>> PROVE IInv'
<1> USE DEF OpenFile, netVars
<1>1. TypeOK'
  BY DEF IInv, TypeOK, Staged, Files
<1>2. OneHolder' /\ ControlReachable'
  BY SocketsStand
<1>3. Staged'
  BY DEF IInv, TypeOK, Staged, Loggers
<1>4. SetFileInside' /\ FreshNamed' /\ AlreadySet'
  BY DEF IInv, TypeOK, Staged, SetFileInside, FreshNamed, AlreadySet, Loggers
<1>5. LoggingGoesOn'
  BY DEF IInv, TypeOK, Staged, SetFileInside, LoggingGoesOn, OutputOf, Loggers
<1> QED BY <1>1, <1>2, <1>3, <1>4, <1>5 DEF IInv

\* Reload: the old log file is closed.
LEMMA CloseOldIInv == ASSUME IInv, NEW i \in Instances, NEW l \in Loggers, loading[i] = l,
         CloseOld(i, l), UNCHANGED loading,
         UNCHANGED <<file, life, config, netVars, cert, since>> PROVE IInv'
<1> USE DEF CloseOld, netVars
<1>1. TypeOK'
  BY DEF IInv, TypeOK, Staged
<1>2. OneHolder' /\ ControlReachable'
  BY SocketsStand
<1>3. Staged'
  BY DEF IInv, TypeOK, Staged, Loggers
<1>4. SetFileInside' /\ FreshNamed' /\ AlreadySet'
  BY DEF IInv, TypeOK, Staged, SetFileInside, FreshNamed, AlreadySet, Loggers
<1>5. LoggingGoesOn'
  BY DEF IInv, TypeOK, Staged, SetFileInside, LoggingGoesOn, OutputOf, Loggers
<1> QED BY <1>1, <1>2, <1>3, <1>4, <1>5 DEF IInv

\* Reload: the logger goes over to the new file.
LEMMA SetOutputIInv == ASSUME IInv, NEW i \in Instances, NEW l \in Loggers, SetOutput(i, l), At(i, l, After[l]),
         UNCHANGED <<file, life, config, netVars, cert, since>> PROVE IInv'
<1> USE DEF SetOutput, At, After, netVars
<1>1. TypeOK'
  BY DEF IInv, TypeOK, Staged, Files, Loggers, OutputOf
<1>2. OneHolder' /\ ControlReachable'
  BY SocketsStand
<1>3. Staged'
  BY DEF IInv, TypeOK, Staged, Loggers
<1>4. SetFileInside' /\ FreshNamed' /\ AlreadySet'
  BY DEF IInv, TypeOK, Staged, SetFileInside, FreshNamed, AlreadySet, Loggers, OutputOf, Files
<1>5. LoggingGoesOn'
  BY DEF IInv, TypeOK, Staged, SetFileInside, LoggingGoesOn, OutputOf, Loggers
<1> QED BY <1>1, <1>2, <1>3, <1>4, <1>5 DEF IInv

\* Reload: a log file cannot be opened.
LEMMA SetFileFailsIInv == ASSUME IInv, NEW i \in Instances, NEW l \in Loggers, SetFileFails(i, l) PROVE IInv'
<1> USE DEF SetFileFails, OpenFails, At, netVars, logVars
<1>1. TypeOK'
  BY DEF IInv, TypeOK, Staged
<1>2. OneHolder' /\ ControlReachable'
  BY SocketsStand
<1>3. Staged'
  BY DEF IInv, TypeOK, Staged, Loggers
<1>4. SetFileInside' /\ FreshNamed' /\ AlreadySet'
  BY DEF IInv, TypeOK, Staged, SetFileInside, FreshNamed, AlreadySet, Loggers
<1>5. LoggingGoesOn'
  BY DEF IInv, TypeOK, Staged, SetFileInside, LoggingGoesOn, OutputOf, Loggers
<1> QED BY <1>1, <1>2, <1>3, <1>4, <1>5 DEF IInv

\* Reload: the certificate is stored.
LEMMA StoreIInv == ASSUME IInv, NEW i \in Instances, Store(i) PROVE IInv'
<1> USE DEF Store, At, netVars, logVars
<1>1. TypeOK'
  BY ConfigsAssumption DEF IInv, TypeOK, Staged
<1>2. OneHolder' /\ ControlReachable'
  BY SocketsStand
<1>3. Staged'
  BY DEF IInv, TypeOK, Staged, Loggers
<1>4. SetFileInside' /\ FreshNamed' /\ AlreadySet'
  BY DEF IInv, TypeOK, Staged, SetFileInside, FreshNamed, AlreadySet, Loggers
<1>5. LoggingGoesOn'
  BY DEF IInv, TypeOK, Staged, SetFileInside, LoggingGoesOn, OutputOf, Loggers
<1> QED BY <1>1, <1>2, <1>3, <1>4, <1>5 DEF IInv

\* The file is edited.
LEMMA EditIInv == ASSUME IInv, Edit PROVE IInv'
<1> USE DEF Edit, netVars, reloadVars, logVars
<1>1. TypeOK'
  BY DEF IInv, TypeOK, Staged
<1>2. OneHolder' /\ ControlReachable'
  BY SocketsStand
<1>3. Staged'
  BY DEF IInv, TypeOK, Staged, Loggers
<1>4. (SetFileInside /\ FreshNamed /\ LoggingGoesOn /\ AlreadySet)'
  BY LogsStand
<1> QED BY <1>1, <1>2, <1>3, <1>4 DEF IInv

\* A log is rotated under whoever has it open.
LEMMA RotateIInv == ASSUME IInv, NEW l \in Loggers, Rotate(l) PROVE IInv'
<1> USE DEF Rotate, RotateFile, Renamed, netVars
<1>1. TypeOK'
  BY DEF IInv, TypeOK, Staged, Files
<1>2. OneHolder' /\ ControlReachable'
  BY SocketsStand
<1>3. Staged'
  BY DEF IInv, TypeOK, Staged, Loggers
<1>4. SetFileInside' /\ FreshNamed' /\ AlreadySet'
  BY DEF IInv, TypeOK, Staged, SetFileInside, FreshNamed, AlreadySet, Loggers
<1>5. LoggingGoesOn'
  BY DEF IInv, TypeOK, Staged, SetFileInside, LoggingGoesOn, OutputOf, Loggers
<1> QED BY <1>1, <1>2, <1>3, <1>4, <1>5 DEF IInv

\* Nothing happens.
LEMMA StutterIInv == ASSUME IInv, UNCHANGED vars PROVE IInv'
<1> USE DEF vars, netVars, reloadVars, logVars
<1>1. TypeOK'
  BY DEF IInv, TypeOK, Staged
<1>2. OneHolder' /\ ControlReachable'
  BY SocketsStand
<1>3. Staged'
  BY DEF IInv, TypeOK, Staged, Loggers
<1>4. (SetFileInside /\ FreshNamed /\ LoggingGoesOn /\ AlreadySet)'
  BY LogsStand
<1> QED BY <1>1, <1>2, <1>3, <1>4 DEF IInv

---------------------------------------------------------------------------
\* Every step keeps the invariant.
THEOREM InvariantStep == IInv /\ [Next]_vars => IInv'
<1> SUFFICES ASSUME IInv, [Next]_vars PROVE IInv'
  OBVIOUS
<1>1. ASSUME NEW i \in Instances,
             Load(i) \/ ListenTCP(i) \/ ListenTLS(i) \/ ListenHTTP(i)
      PROVE  IInv'
  BY <1>1, LoadIInv, ListenTCPIInv, ListenTLSIInv, ListenHTTPIInv
<1>2. ASSUME NEW i \in Instances, ListenFails(i) \/ Crash(i) \/ RunReturns(i)
      PROVE  IInv'
  <2>1. End(i)
    BY <1>2 DEF ListenFails, Crash, RunReturns
  <2>2. control' = control \/ (control' = Nobody /\ (control = i \/ "tcp" \in bound[i]))
    BY <1>2 DEF ListenFails, Crash, RunReturns, MayListenHTTP, IInv, Staged
  <2> QED BY <2>1, <2>2, EndIInv
<1>3. ASSUME NEW i \in Instances, NEW s \in Sockets, AcceptFails(i, s)
      PROVE  IInv'
  BY <1>3, AcceptFailsIInv
<1>4. ASSUME NEW i \in Instances, BeginReload(i) \/ Check(i) \/ Refuse(i) \/ Store(i)
      PROVE  IInv'
  BY <1>4, BeginReloadIInv, CheckIInv, RefuseIInv, StoreIInv
<1>5. ASSUME NEW i \in Instances, NEW l \in Loggers, SetFile(i, l) \/ SetFileFails(i, l)
      PROVE  IInv'
  <2>1. CASE SetFileFails(i, l)
    BY <2>1, SetFileFailsIInv
  <2>2. CASE SetFile(i, l)
    <3>1. CASE OpenFile(i, l, l \in config[i].logs) /\ UNCHANGED loading
      BY <2>2, <3>1, OpenFileIInv DEF SetFile
    <3>2. CASE CloseOld(i, l) /\ UNCHANGED loading
      BY <2>2, <3>2, CloseOldIInv DEF SetFile
    <3>3. CASE SetOutput(i, l) /\ At(i, l, After[l])
      BY <2>2, <3>3, SetOutputIInv DEF SetFile
    <3> QED BY <2>2, <3>1, <3>2, <3>3 DEF SetFile
  <2> QED BY <1>5, <2>1, <2>2
<1>6. ASSUME NEW l \in Loggers, Rotate(l)
      PROVE  IInv'
  BY <1>6, RotateIInv
<1> QED BY <1>1, <1>2, <1>3, <1>4, <1>5, <1>6, EditIInv, StutterIInv DEF Next

\* Life keeps the invariant, however many instances are started and whatever
\* the file comes to say.
THEOREM Invariance == Spec => []IInv
  BY InitIInv, InvariantStep, PTL DEF Spec

\* The state of Life has its type: in particular an accept loop runs or has
\* failed only where Listen has opened a listener.
THEOREM TypeCorrect == Spec => []TypeOK
<1>1. IInv => TypeOK
  BY DEF IInv
<1> QED BY <1>1, Invariance, PTL

\* An instance that serves its Unix socket is the one the socket's path leads to
\* (os.Remove in Listen never takes a serving instance's socket away).
THEOREM SocketReachable == Spec => []ControlReachable
<1>1. IInv => ControlReachable
  BY DEF IInv
<1> QED BY <1>1, Invariance, PTL

\* Whenever the TLS accept loop runs the certificate is there: no start and no
\* reload, failed or not, leaves it without.
THEOREM CertificateKept == Spec => []CertificateAtHand
<1>1. IInv => CertificateAtHand
  <2> SUFFICES ASSUME IInv, NEW i \in Instances, "tls" \in serving[i] PROVE cert[i]
    BY DEF CertificateAtHand
  <2>1. life[i] = "running"
    BY DEF IInv, Staged
  <2>2. "tls" \in bound[i]
    BY DEF IInv, TypeOK
  <2> QED BY <2>1, <2>2 DEF IInv, Staged
<1> QED BY <1>1, Invariance, PTL

\* A logger writes to the file it holds open, but inside SetFile: no failed
\* reload leaves it with a closed one.
THEOREM LoggersGoOn == Spec => []LoggingGoesOn
<1>1. IInv => LoggingGoesOn
  BY DEF IInv
<1> QED BY <1>1, Invariance, PTL

\* A reload that succeeds has left no logger with a file rotated before it.
THEOREM ReloadsReopen == Spec => ReloadReopens
<1>1. IInv /\ [Next]_vars =>
        [\A i \in Instances :
           loading[i] = "store" /\ loading'[i] = "idle" /\ life'[i] = "running" =>
             \A l \in Loggers :
               /\ output[i][l] = "rotated" => l \in since[i]
               /\ output[i][l] # "discard" <=> l \in config[i].logs]_vars
  BY DEF IInv, AlreadySet
<1> QED BY <1>1, Invariance, PTL DEF ReloadReopens, Spec
=============================================================================
