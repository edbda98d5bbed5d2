------------------------------- MODULE Config -------------------------------
(***************************************************************************)
(* The configuration: LoadConfig of binmonitor.json, what the flags make   *)
(* of it in loadConfig, and NormalizeConfig, which both call.              *)
(*                                                                         *)
(* JSON, blanks, letter case and names of processes are left out: a file   *)
(* is a record of its fields, and a list given by a flag is the sequence   *)
(* of the numbers in it, with 0 for what is no number.                     *)
(***************************************************************************)
EXTENDS Ignore, FiniteSets

CONSTANTS
  Nil,      \* a field, a pointer or a flag that is not there
  Missing,  \* there is no file
  Broken,   \* the file is no JSON, or a value in it has the wrong type
  Error,    \* what a function returns with an error
  HalfWord,    \* 2^63: an int and a time.Duration are below it, and not below -HalfWord
  Millisecond  \* time.Millisecond, 10^6

ASSUME WordAssumption ==
  HalfWord \in Nat /\ Millisecond \in Nat \ {0} /\ HalfWord > 500 * Millisecond

\* The fields of a file that is well-formed JSON, whatever values they have.
\* eventsConfigured of a file is the presence of a key spelled `events`: it
\* may hold null, and json.Unmarshal takes `Events` for the list as well.
Processes == [pid : Int, interval : Int]
Networks == [pid : Int, interval : Int, dns : BOOLEAN, ports : {Nil} \cup SUBSET Int]
Paths == [abs : BOOLEAN, names : Seq(STRING)]
Configurations ==
  [mode : STRING, root : Paths, ignore : SUBSET Seq(STRING), events : {Nil} \cup Seq(STRING),
   eventsConfigured : BOOLEAN, log : BOOLEAN, dedupLog : BOOLEAN, interval : Int,
   process : {Nil} \cup Processes, processes : Seq(Processes), net : {Nil} \cup Networks]

\* True of every string; the proofs have it from here only.
ASSUME StringAssumption ==
  {"", "directory", "process", "network", "create", "write", "remove", "rename", "open",
   "close", "binmonitor.log", "binmonitor.dedup.log"} \subseteq STRING

DefaultEvents == <<"create", "write", "remove", "rename">>
DefaultSocks5Ports == {1080, 10800, 9050}

\* What json.Unmarshal makes of {}.
ZeroConfig ==
  [mode |-> "", root |-> Relative(<<>>), ignore |-> {}, events |-> Nil,
   eventsConfigured |-> FALSE, log |-> FALSE, dedupLog |-> FALSE,
   interval |-> 0, process |-> Nil, processes |-> <<>>, net |-> Nil]

DefaultConfig == [ZeroConfig EXCEPT !.events = DefaultEvents]

OrDefault(ms, default) == IF ms = 0 THEN default ELSE ms

\* The time.Duration of a ticker, a product that wraps around.
Duration(ms) == ((ms * Millisecond + HalfWord) % (2 * HalfWord)) - HalfWord

-----------------------------------------------------------------------------
(***************************************************************************)
(* NormalizeConfig.                                                        *)
(***************************************************************************)
AllProcesses(c) == (IF c.process = Nil THEN <<>> ELSE <<c.process>>) \o c.processes

BadProcesses(s) ==
  \/ s = <<>>
  \/ \E i \in DOMAIN s : s[i].pid <= 0 \/ s[i].interval < 0
  \/ \E i, j \in DOMAIN s : i # j /\ s[i].pid = s[j].pid

\* Mutants: `process` stays where it was merged from; an interval of 0 stays.
normalizeProcessKeeping(c) ==
  LET ms == OrDefault(c.interval, 200)
  IN IF BadProcesses(AllProcesses(c)) \/ c.interval < 0 THEN Error
     ELSE [c EXCEPT !.interval = ms,
                    !.processes = [i \in DOMAIN AllProcesses(c) |->
                      [AllProcesses(c)[i] EXCEPT !.interval = OrDefault(@, ms)]]]
normalizeProcessZero(c) ==
  IF BadProcesses(AllProcesses(c)) \/ c.interval < 0 THEN Error
  ELSE [c EXCEPT !.interval = OrDefault(@, 200), !.process = Nil,
                 !.processes = [i \in DOMAIN AllProcesses(c) |->
                   [AllProcesses(c)[i] EXCEPT !.interval = OrDefault(@, c.interval)]]]

normalizeProcessConfig(c) ==
  LET ms == OrDefault(c.interval, 200)
  IN IF BadProcesses(AllProcesses(c)) \/ c.interval < 0 THEN Error
     ELSE [c EXCEPT !.interval = ms, !.process = Nil,
                    !.processes = [i \in DOMAIN AllProcesses(c) |->
                      [AllProcesses(c)[i] EXCEPT !.interval = OrDefault(@, ms)]]]

normalizeNetworkConfig(c) ==
  IF c.net = Nil THEN Error
  ELSE IF c.net.pid <= 0 \/ c.net.interval < 0 THEN Error
  ELSE [c EXCEPT !.net.interval = OrDefault(@, 500),
                 !.net.ports = IF @ = Nil THEN DefaultSocks5Ports ELSE @]

EventsOr(c, default) == IF c.events = Nil THEN default ELSE c.events

\* Mutant: what the default put there counts as configured.
ProcessEventsKept(c) == EventsOr(c, <<"open", "close">>)
ProcessEvents(c) == IF c.eventsConfigured THEN EventsOr(c, <<"open", "close">>)
                                          ELSE <<"open", "close">>

Mode(c) ==
  IF c.mode # "" THEN c.mode
  ELSE IF AllProcesses(c) # <<>> THEN "process" ELSE "directory"

NormalizeConfig(c) ==
  LET d == [c EXCEPT !.mode = Mode(c)]
  IN CASE d.mode = "directory" -> [d EXCEPT !.events = EventsOr(d, DefaultEvents)]
       [] d.mode = "process" ->
            normalizeProcessConfig([d EXCEPT !.events = ProcessEvents(d)])
       [] d.mode = "network" -> normalizeNetworkConfig(d)
       [] OTHER -> Error

\* LoadConfig of a file that is there.
LoadConfig(f) == IF f = Broken THEN Error ELSE NormalizeConfig(f)

-----------------------------------------------------------------------------
(***************************************************************************)
(* loadConfig: the flags are config (whether it is given), pid, poll, dns, *)
(* ports, and args, the roots given after them.                            *)
(***************************************************************************)
CommandLines ==
  [config : BOOLEAN, pid : {Nil} \cup Seq(Int), poll : Int, dns : BOOLEAN,
   ports : {Nil} \cup Seq(Int), args : Seq(Paths)]
NoFlags == [config |-> FALSE, pid |-> Nil, poll |-> 0, dns |-> FALSE, ports |-> Nil,
            args |-> <<>>]

ASSUME NilAssumption ==
  Nil \notin Processes \cup Networks \cup Seq(STRING) \cup Configurations \cup CommandLines

BadArgs(g) ==
  \/ Len(g.args) > 1
  \/ g.args # <<>> /\ (g.pid # Nil \/ g.config)
  \/ g.poll < 0

\* parsePIDs refuses the list; parsePorts does.
BadPids(s) == s = <<>> \/ (\E n \in ToSet(s) : n <= 0) \/ Cardinality(ToSet(s)) < Len(s)
BadPorts(s) == s # Nil /\ \E n \in ToSet(s) : n <= 0 \/ n > 65535

PortsOr(s, default) == IF s = Nil THEN default ELSE ToSet(s)

\* -pid: network mode with -dns, process mode without.
\* Mutant: the events of the file are forgotten with its processes.
PidFlagForgets(c, g) ==
  [DefaultConfig EXCEPT !.mode = "process", !.log = c.log, !.dedupLog = c.dedupLog,
     !.root = c.root, !.ignore = c.ignore, !.interval = g.poll,
     !.processes = [i \in DOMAIN g.pid |-> [pid |-> g.pid[i], interval |-> g.poll]]]
PidFlag(c, g) ==
  IF g.dns
  THEN [c EXCEPT !.mode = "network",
                 !.net = [pid |-> g.pid[1], interval |-> g.poll, dns |-> TRUE,
                          ports |-> PortsOr(g.ports, DefaultSocks5Ports)]]
  ELSE [c EXCEPT !.mode = "process", !.process = Nil, !.interval = g.poll,
                 !.processes = [i \in DOMAIN g.pid |->
                                  [pid |-> g.pid[i], interval |-> g.poll]]]

BadPidFlag(g) == BadPids(g.pid) \/ (g.dns /\ (Len(g.pid) > 1 \/ BadPorts(g.ports)))

\* What flags add to network mode, and where they are refused; LoadConfig has
\* filled in the ports of a file before, so that -socks5-ports is not looked at.
BadNetFlags(c, g) ==
  c.mode = "network" /\ c.net # Nil /\ c.net.ports = Nil /\ BadPorts(g.ports)
NetFlags(c, g) ==
  IF c.mode # "network" \/ c.net = Nil THEN c
  ELSE [c EXCEPT !.net.dns = @ \/ g.dns,
                 !.net.ports = IF @ = Nil THEN PortsOr(g.ports, Nil) ELSE @]

ApplyFlags(c, g) ==
  LET rooted == IF g.args = <<>> THEN c ELSE [c EXCEPT !.root = g.args[1]]
  IN IF BadArgs(g) THEN Error
     ELSE IF g.pid # Nil /\ BadPidFlag(g) THEN Error
     ELSE LET d == IF g.pid = Nil THEN rooted ELSE PidFlag(rooted, g)
          IN IF BadNetFlags(d, g) THEN Error ELSE NormalizeConfig(NetFlags(d, g))

-----------------------------------------------------------------------------
\* ResolveEventOps.
OpsOf(name) ==
  CASE name = "create" -> {"CREATE"}
    [] name \in {"write", "modify"} -> {"WRITE"}
    [] name = "remove" -> {"REMOVE"}
    [] name = "delete" -> {"REMOVE", "RENAME"}
    [] name = "rename" -> {"RENAME"}
    [] name = "read" -> {"READ"}
    [] name \in {"open", "process_open"} -> {"OPEN"}
    [] name \in {"close", "process_close"} -> {"CLOSE"}
    [] name = "" -> {}
    [] OTHER -> Error

\* ResolveAllEventOps; in network mode there may be no list at all.
ResolveAllEventOps(events) ==
  LET resolved == {OpsOf(n) : n \in IF events = Nil THEN {} ELSE ToSet(events)}
  IN IF Error \in resolved THEN Error ELSE UNION resolved
=============================================================================
