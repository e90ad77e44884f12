----------------------------- MODULE FileLogger -----------------------------
(***************************************************************************)
(* pkg/logging/file.go: the loggers of an instance of the program and the  *)
(* files they have open.  A file is the one its path leads to ("current")  *)
(* or one that logrotate has since renamed ("rotated").  SetFile holds     *)
(* l.mu, F does not: a line may be written between any two of its steps.   *)
(* Used by Life.tla.                                                       *)
(***************************************************************************)
EXTENDS FiniteSets, Sequences, Integers

CONSTANTS Instances         \* processes that may be started

VARIABLES opened,           \* opened[i][l]: l.f
          output,           \* output[i][l]: where l.l writes to
          fresh,            \* fresh[i]: the file just opened by SetFile
          step              \* step[i]: where SetFile is

logVars == <<opened, output, fresh, step>>

Loggers == {"access", "error"}
Files == {"none", "current", "rotated"}

NoLogs == [l \in Loggers |-> "none"]

\* What a logger with this file writes to; io.Discard if there is none.
OutputOf(f) == IF f = "none" THEN "discard" ELSE f

LogInit ==
  /\ opened = [i \in Instances |-> NoLogs]
  /\ output = [i \in Instances |-> [l \in Loggers |-> "discard"]]
  /\ fresh = [i \in Instances |-> "none"]
  /\ step = [i \in Instances |-> "open"]

\* Mutant of OpenFile: a file that is open already is kept.
KeepFile(i, l, named) ==
  /\ step[i] = "open"
  /\ fresh' = [fresh EXCEPT ![i] = IF ~named THEN "none"
                                   ELSE IF opened[i][l] # "none" THEN opened[i][l] ELSE "current"]
  /\ step' = [step EXCEPT ![i] = "close"]
  /\ UNCHANGED <<opened, output>>

\* SetFile and reopen: the file that is named, if any, is opened before
\* anything is given up.
OpenFile(i, l, named) ==
  /\ step[i] = "open"
  /\ fresh' = [fresh EXCEPT ![i] = IF named THEN "current" ELSE "none"]
  /\ step' = [step EXCEPT ![i] = "close"]
  /\ UNCHANGED <<opened, output>>

\* Mutant: the old file is closed before the new one is opened.
OpenFailsClosed(i, l, named) ==
  /\ step[i] = "open" /\ named
  /\ output' = [output EXCEPT ![i][l] = IF opened[i][l] # "none" THEN "closed" ELSE @]
  /\ UNCHANGED <<opened, fresh, step>>

OpenFails(i, l, named) ==
  /\ step[i] = "open" /\ named
  /\ UNCHANGED logVars

CloseOld(i, l) ==
  /\ step[i] = "close" /\ step' = [step EXCEPT ![i] = "switch"]
  /\ output' = [output EXCEPT ![i][l] = IF opened[i][l] # "none" THEN "closed" ELSE @]
  /\ UNCHANGED <<opened, fresh>>

SetOutput(i, l) ==
  /\ step[i] = "switch" /\ step' = [step EXCEPT ![i] = "open"]
  /\ opened' = [opened EXCEPT ![i][l] = fresh[i]]
  /\ output' = [output EXCEPT ![i][l] = OutputOf(fresh[i])]
  /\ fresh' = [fresh EXCEPT ![i] = "none"]

\* NewFileLogger(""), and SetFile before anybody writes: all at once.
OpenAll(i, names) ==
  /\ opened' = [opened EXCEPT ![i] = [l \in Loggers |-> IF l \in names THEN "current" ELSE "none"]]
  /\ output' = [output EXCEPT ![i] =
                  [l \in Loggers |-> OutputOf(IF l \in names THEN "current" ELSE "none")]]
  /\ UNCHANGED <<fresh, step>>

\* The process ends, and with it all its loggers.
DropAll(i) ==
  /\ opened' = [opened EXCEPT ![i] = NoLogs]
  /\ output' = [output EXCEPT ![i] = [l \in Loggers |-> "discard"]]
  /\ fresh' = [fresh EXCEPT ![i] = "none"]
  /\ step' = [step EXCEPT ![i] = "open"]

Renamed(f) == IF f = "current" THEN "rotated" ELSE f

\* logrotate renames the file of l and makes another in its place; setting is
\* the instances that are in SetFile for l.
RotateFile(l, setting) ==
  /\ opened' = [i \in Instances |-> [opened[i] EXCEPT ![l] = Renamed(@)]]
  /\ output' = [i \in Instances |-> [output[i] EXCEPT ![l] = Renamed(@)]]
  /\ fresh' = [i \in Instances |-> IF i \in setting THEN Renamed(fresh[i]) ELSE fresh[i]]
  /\ UNCHANGED step
=============================================================================
