------------------------------ MODULE Program -------------------------------
(***************************************************************************)
(* The program from its start to its end, and the next start: main reads   *)
(* the configuration, applies the flags, builds the components the mode    *)
(* asks for, and hands every record to the log and to the statistics.      *)
(* What makes the records is in the modules about the three modes.         *)
(***************************************************************************)
EXTENDS Config, DedupLog

CONSTANTS
  Files,     \* what binmonitor.json may be: records like ZeroConfig, Missing, Broken
  FlagSets,  \* what may be on the command line, records like NoFlags
  EventDirs  \* where events happen, sequences of names below the root

ASSUME FileAssumption == Files \subseteq {Missing, Broken} \cup Configurations
ASSUME FlagAssumption == FlagSets \subseteq CommandLines
ASSUME EventAssumption == EventDirs \subseteq Seq(PlainNames)

VARIABLES
  cfgFile,   \* binmonitor.json
  phase,     \* "off", "loaded", "configured", "running"
  flags,     \* of the program while it starts, or Nil
  config,    \* the same, loadConfig's variable and then main's
  parts      \* the components it runs with: [mode, log, dedup, ops], or Nil

startup == <<flags, config>>
vars == <<cfgFile, phase, startup, parts, dedupVars>>

\* The records each mode makes.
OpsIn(mode) ==
  CASE mode = "directory" -> {"CREATE", "WRITE", "REMOVE", "RENAME", "READ"}
    [] mode = "process" -> {"OPEN", "CLOSE"}
    [] mode = "network" -> {"TCP_CONNECT", "TCP_CLOSE", "TCP_STATE", "UDP_CONNECT",
                            "DNS_QUERY", "SOCKS5_CONNECT"}

\* Components to run with; there are names for the records of two modes.
Parts ==
  [mode : {"directory", "process", "network"}, log : BOOLEAN, dedup : BOOLEAN,
   ops : SUBSET (OpsIn("directory") \cup OpsIn("process"))]

ASSUME PartsAssumption == Nil \notin Parts

-----------------------------------------------------------------------------
Edit(f) ==
  /\ phase = "off" /\ cfgFile' = f
  /\ UNCHANGED <<phase, startup, parts, dedupVars>>

\* binmonitor init: WriteDefaultConfig, which leaves a file that is there alone.
\* Its file has the key `events`.
DefaultFile == [DefaultConfig EXCEPT !.eventsConfigured = TRUE]
WriteDefaultConfig ==
  /\ phase = "off" /\ cfgFile = Missing
  /\ cfgFile' = DefaultFile
  /\ UNCHANGED <<phase, startup, parts, dedupVars>>

\* loadConfig up to the flags.  Only the default path may be without a file;
\* a start that fails changes nothing.
Loaded(g) ==
  IF cfgFile # Missing THEN LoadConfig(cfgFile)
  ELSE IF g.config THEN Error ELSE DefaultConfig

Start(g) ==
  /\ phase = "off" /\ Loaded(g) # Error
  /\ phase' = "loaded" /\ flags' = g /\ config' = Loaded(g)
  /\ UNCHANGED <<cfgFile, parts, dedupVars>>

Fail == phase' = "off" /\ flags' = Nil /\ config' = Nil /\ UNCHANGED parts

\* The rest of loadConfig.
Configure ==
  /\ phase = "loaded"
  /\ LET c == ApplyFlags(config, flags)
     IN IF c = Error THEN Fail
        ELSE phase' = "configured" /\ config' = c /\ UNCHANGED <<flags, parts>>
  /\ UNCHANGED <<cfgFile, dedupVars>>

\* The entries main adds to the ignore list.
\* Mutant: the one of the statistics goes with the log.
OwnLogsBoth(c) == IF c.log THEN {<<"binmonitor.log">>, <<"binmonitor.dedup.log">>} ELSE {}
OwnLogs(c) == (IF c.log THEN {<<"binmonitor.log">>} ELSE {}) \cup
              (IF c.dedupLog THEN {<<"binmonitor.dedup.log">>} ELSE {})

\* The rest of main: an unknown event, a root that is no directory, or a
\* watcher that cannot be made end the program.
Build(ok) ==
  /\ phase = "configured"
  /\ LET ops == ResolveAllEventOps(config.events)
     IN IF ~ok \/ ops = Error THEN Fail /\ UNCHANGED dedupVars
        ELSE /\ phase' = "running" /\ flags' = Nil /\ config' = Nil
             /\ parts' = [mode |-> config.mode, log |-> config.log,
                          dedup |-> config.dedupLog, ops |-> ops]
             /\ NewStats /\ UNCHANGED file
  /\ UNCHANGED cfgFile

Off == phase' = "off" /\ parts' = Nil /\ NewStats /\ UNCHANGED <<cfgFile, startup, file>>

\* An event the filter lets through; network mode has none.
Printed(op) ==
  /\ phase = "running" /\ op \in OpsIn(parts.mode)
  /\ parts.mode = "network" \/ op \in parts.ops

\* printRecord.  Without a log LogEvent ends the program (DirMonitor).
Record(op, k) ==
  /\ Printed(op)
  /\ IF ~parts.log THEN Off
     ELSE /\ IF parts.dedup THEN printRecord(op, k) ELSE UNCHANGED dedupVars
          /\ UNCHANGED <<cfgFile, phase, startup, parts>>

\* A signal or an error.
Exit == phase = "running" /\ Off

Init ==
  /\ cfgFile \in Files /\ phase = "off" /\ flags = Nil /\ config = Nil /\ parts = Nil
  /\ DedupInit

Next ==
  \/ \E f \in Files : Edit(f)
  \/ WriteDefaultConfig \/ Configure \/ Exit
  \/ \E g \in FlagSets : Start(g)
  \/ \E ok \in BOOLEAN : Build(ok)
  \/ \E op \in Ops, k \in Keys : Record(op, k)

Spec == Init /\ [][Next]_vars

-----------------------------------------------------------------------------
\* TypeOK: the ranges of the variables in every phase.
StartOK ==
  /\ cfgFile \in Files \cup {DefaultFile}
  /\ phase \in {"off", "loaded", "configured", "running"}
  /\ flags \in FlagSets \cup {Nil} /\ (flags # Nil <=> phase \in {"loaded", "configured"})
  /\ config \in Configurations \cup {Nil} /\ (config # Nil <=> flags # Nil)
  /\ parts \in Parts \cup {Nil} /\ (parts # Nil <=> phase = "running")
TypeOK == DedupTypeOK /\ StartOK

FromFile == cfgFile \notin {Missing, Broken}

\* NormalizedOnce: the configuration is normalised twice, by LoadConfig and again with
\* the flags: what the first accepts and fills in, the second accepts and
\* leaves as it is (NormalizeConfig, loadConfig).
NormalizedOnce ==
  phase = "configured" \/ (phase = "loaded" /\ FromFile) => NormalizeConfig(config) = config

\* The intervals of the tickers that the pollers will make.
Intervals ==
  CASE config.mode = "directory" -> {}
    [] config.mode = "process" -> {p.interval : p \in ToSet(config.processes)}
    [] config.mode = "network" -> {config.net.interval}

Fits(ms) == ms * Millisecond < HalfWord

\* TickersPositive: whatever file, flags and defaults leave out, every poller gets a
\* process of its own and a ticker with a duration above 0, without which
\* time.NewTicker panics, if no interval is too large for a Duration
\* (normalizeProcessConfig, normalizeNetworkConfig, -poll-ms).  Nothing refuses
\* one that is too large, and the Duration may then be negative.
TickersPositive ==
  phase = "configured" =>
    /\ config.mode = "process" => ~BadProcesses(config.processes)
    /\ config.mode = "network" => config.net.pid > 0
    /\ \A ms \in Intervals : Fits(ms) => Duration(ms) > 0

\* What d still has of the netMonitor of c.
NetKept(c, d) ==
  c.net # Nil =>
    /\ d.net # Nil /\ d.net.pid = c.net.pid /\ d.net.dns = c.net.dns
    /\ c.net.ports # Nil => d.net.ports = c.net.ports
    /\ c.net.interval # 0 => d.net.interval = c.net.interval

\* PidOverrides: -pid replaces the processes of the file, in whatever mode and field it
\* has them, and its other fields still apply: all but the poll interval, a
\* list of events that is not under the key `events`, and with -dns the
\* netMonitor (loadConfig).
PidOverrides ==
  phase = "configured" /\ flags.pid # Nil =>
    /\ IF flags.dns THEN config.mode = "network" /\ config.net.pid = flags.pid[1]
       ELSE /\ config.mode = "process"
            /\ [i \in DOMAIN config.processes |-> config.processes[i].pid] = flags.pid
    /\ FromFile =>
         /\ config.log = cfgFile.log /\ config.dedupLog = cfgFile.dedupLog
         /\ config.root = cfgFile.root /\ config.ignore = cfgFile.ignore
         /\ cfgFile.events # Nil /\ cfgFile.eventsConfigured => config.events = cfgFile.events
         /\ ~flags.dns => NetKept(cfgFile, config)

\* The file lists events under the key `events` or has no such key.
PlainEvents == FromFile => (cfgFile.eventsConfigured <=> cfgFile.events # Nil)

\* What the user asked to be told of.
Asked(mode) ==
  IF FromFile /\ cfgFile.events # Nil THEN ResolveAllEventOps(cfgFile.events)
  ELSE IF mode = "process" THEN {"OPEN", "CLOSE"}
  ELSE {"CREATE", "WRITE", "REMOVE", "RENAME"}

\* EventsHonoured: with a list under the key `events` or no such key, the filter lets
\* through what the file asks for, or the default of the mode the program ends
\* up in, although the default of another mode may have been filled in before
\* the flags changed it (EventsConfigured).
EventsHonoured ==
  phase = "running" /\ parts.mode # "network" /\ PlainEvents =>
    /\ parts.ops = Asked(parts.mode)
    /\ \A i \in DOMAIN records : records[i][1] \in Asked(parts.mode)

\* The paths of events: below the root as it is given, or absolute.
EventPaths(root) ==
  {[root EXCEPT !.names = @ \o d] : d \in EventDirs} \cup {Absolute(d) : d \in EventDirs}
    \cup {Absolute(Cwd \o d) : d \in EventDirs}

\* IgnoreExact: an event is ignored just if its path lies at or below an entry seen
\* from the root, wherever the program was started and however root, entries
\* and path are written (IgnoreComponent; README.md:72).
IgnoreExact ==
  phase = "configured" =>
    \A path \in EventPaths(config.root) :
      ShouldIgnore(config.root, config.ignore, path)
        <=> Below(config.root, config.ignore, path)

\* OwnLogsIgnored: a program that is started in its root does not report the files it
\* writes there (main; README.md:75 and :76).
OwnLogsIgnored ==
  phase = "configured" /\ AbsNames(config.root) = Cwd =>
    LET ignored(n) == ShouldIgnore(config.root, config.ignore \cup OwnLogs(config),
                                   [config.root EXCEPT !.names = @ \o <<n>>])
    IN /\ config.log => ignored("binmonitor.log")
       /\ config.dedupLog => ignored("binmonitor.dedup.log")
=============================================================================
