--------------------------- MODULE ProgramProofs ----------------------------
(***************************************************************************)
(* Theorems about Config and Program: NormalizeConfig on every             *)
(* configuration, and what a start makes of every file and command line.   *)
(***************************************************************************)
EXTENDS Program, DedupProofs

\* What TickersPositive needs of a configuration.
Positive(c) ==
  /\ c.mode = "process" =>
       /\ ~BadProcesses(c.processes)
       /\ \A i \in DOMAIN c.processes : c.processes[i].interval > 0
  /\ c.mode = "network" => c.net.pid > 0 /\ c.net.interval > 0

\* What comes out of NormalizeConfig is in one of three forms.
Settled(c) ==
  /\ c \in Configurations /\ c.mode \in {"directory", "process", "network"}
  /\ c.mode = "directory" => c.events # Nil
  /\ c.mode = "process" =>
       /\ c.process = Nil /\ c.interval > 0
       /\ c.eventsConfigured \/ c.events = <<"open", "close">>
       /\ c.events # Nil
  /\ c.mode = "network" => c.net # Nil /\ (c.net.ports = Nil => DefaultSocks5Ports = Nil)
  /\ Positive(c)

Pids(s) == [i \in DOMAIN s |-> s[i].pid]

\* What d still has of c.
Keeps(c, d) ==
  /\ d.ignore = c.ignore /\ d.log = c.log /\ d.dedupLog = c.dedupLog
  /\ d.eventsConfigured = c.eventsConfigured

\* The events of d come from c.
EventsFrom(c, d) ==
  /\ d.mode = "directory" => d.events = EventsOr(c, DefaultEvents)
  /\ d.mode = "process" => d.events = ProcessEvents(c)
  /\ d.mode = "network" => d.events = c.events

\* What NormalizeConfig leaves as it is.
Taken(c, d) ==
  /\ Keeps(c, d) /\ EventsFrom(c, d) /\ d.root = c.root /\ d.mode = Mode(c)
  /\ NetKept(c, d)
  /\ d.mode = "process" => Pids(d.processes) = Pids(AllProcesses(c))
  /\ d.mode = "network" => d.net.pid = c.net.pid

\* The same with flags; -pid comes without a root.
Given(c, g, d) ==
  /\ Keeps(c, d) /\ EventsFrom(c, d)
  /\ g.pid = Nil => d.mode = Mode(c)
  /\ g.pid # Nil =>
       /\ d.root = c.root
       /\ IF g.dns THEN d.mode = "network" /\ d.net.pid = g.pid[1]
          ELSE d.mode = "process" /\ Pids(d.processes) = g.pid /\ NetKept(c, d)

\* The file's list of events, or the default of the mode there is by now; with
\* `events` and no list, or a list under another key, neither is sure.
FileEvents == FromFile /\ cfgFile.events # Nil /\ cfgFile.eventsConfigured
NoEvents == FromFile => cfgFile.events = Nil /\ ~cfgFile.eventsConfigured
EventsSo ==
  /\ FileEvents => config.events = cfgFile.events
  /\ NoEvents =>
       /\ config.mode = "directory" => config.events = DefaultEvents
       /\ config.mode = "process" => config.events = <<"open", "close">>

\* The inductive invariant.  EventsConfigured tells the flags whether the
\* file has the key.
Loading == phase = "loaded" =>
  /\ config.eventsConfigured = (FromFile /\ cfgFile.eventsConfigured) /\ EventsSo
  /\ ~FromFile => config = DefaultConfig
  /\ FromFile =>
       /\ Settled(config) /\ config.root = cfgFile.root /\ config.ignore = cfgFile.ignore
       /\ config.log = cfgFile.log /\ config.dedupLog = cfgFile.dedupLog
       /\ NetKept(cfgFile, config)
Configuring == phase = "configured" => Settled(config) /\ EventsSo /\ PidOverrides
Inv == DedupInv /\ StartOK /\ Loading /\ Configuring /\ EventsHonoured

-----------------------------------------------------------------------------
\* A missing interval becomes the default, and no other changes.
LEMMA IntervalOr ==
  ASSUME NEW ms \in Int, NEW default \in Int, ms >= 0, default > 0
  PROVE  OrDefault(ms, default) \in Int /\ OrDefault(ms, default) > 0
BY DEF OrDefault

\* A product that fits into a word does not wrap around.
LEMMA DurationOf ==
  ASSUME NEW ms \in Int, ms > 0, Fits(ms)
  PROVE  Duration(ms) > 0
<1>1. HalfWord \in Nat /\ Millisecond \in Nat /\ Millisecond > 0
  BY WordAssumption
<1> DEFINE t == ms * Millisecond
<1>2. t \in Int /\ t > 0
  BY <1>1
<1>3. t < HalfWord
  BY DEF Fits
<1>4. Duration(ms) = ((t + HalfWord) % (2 * HalfWord)) - HalfWord
  BY DEF Duration
<1> HIDE DEF t
<1> DEFINE a == t + HalfWord
           b == 2 * HalfWord
<1>5. a \in Nat /\ b \in Nat /\ a < b /\ b > 0
  BY <1>1, <1>2, <1>3
<1> HIDE DEF a, b
<1>6. a % b = a
  BY <1>5
<1>7. Duration(ms) = a - HalfWord
  BY <1>4, <1>6 DEF a, b
<1> QED BY <1>1, <1>2, <1>7 DEF a

\* Short lists.
LEMMA ShortLists ==
  ASSUME NEW S, NEW a \in S, NEW b \in S, NEW c \in S, NEW d \in S
  PROVE  <<a, b, c, d>> \in Seq(S) /\ <<a, b>> \in Seq(S) /\ <<>> \in Seq(S)
OBVIOUS

\* A sequence is what it has at its places.
LEMMA SequenceIsFunction ==
  ASSUME NEW S, NEW s \in Seq(S)
  PROVE  s = [i \in DOMAIN s |-> s[i]]
OBVIOUS

\* The defaults are no missing fields.
LEMMA DefaultTypes ==
  /\ DefaultEvents \in Seq(STRING) /\ DefaultEvents # Nil
  /\ <<"open", "close">> \in Seq(STRING) /\ <<"open", "close">> # Nil
  /\ DefaultConfig \in Configurations /\ DefaultFile \in Configurations
<1>1. DefaultEvents \in Seq(STRING) /\ <<"open", "close">> \in Seq(STRING)
  <2>1. "create" \in STRING /\ "write" \in STRING /\ "remove" \in STRING /\ "rename" \in STRING
        /\ "open" \in STRING /\ "close" \in STRING
    BY StringAssumption
  <2> QED BY <2>1, ShortLists DEF DefaultEvents
<1>2. ZeroConfig \in Configurations
  <2>1. Relative(<<>>) \in Paths
    BY DEF Relative, Paths
  <2>2. <<>> \in Seq(Processes) /\ {} \in SUBSET Seq(STRING)
    OBVIOUS
  <2>3. "" \in STRING
    BY StringAssumption
  <2>4. 0 \in Int /\ FALSE \in BOOLEAN
    OBVIOUS
  <2> QED BY <2>1, <2>2, <2>3, <2>4, Zenon DEF ZeroConfig, Configurations
<1>3. DefaultConfig \in Configurations
  BY <1>1, <1>2 DEF DefaultConfig, Configurations
<1>4. DefaultFile \in Configurations
  BY <1>3 DEF DefaultFile, Configurations
<1> QED BY <1>1, <1>3, <1>4, NilAssumption

\* The processes of `process` and `processes` together.
LEMMA AllProcessesType ==
  ASSUME NEW c \in Configurations
  PROVE  AllProcesses(c) \in Seq(Processes) /\ (c.process = Nil => AllProcesses(c) = c.processes)
<1>1. c.processes \in Seq(Processes) /\ c.process \in {Nil} \cup Processes
  BY DEF Configurations
<1>2. CASE c.process = Nil
  <2>1. AllProcesses(c) = <<>> \o c.processes
    BY <1>2 DEF AllProcesses
  <2>2. <<>> \o c.processes = c.processes
    BY <1>1
  <2> QED BY <1>1, <2>1, <2>2
<1>3. CASE c.process # Nil
  <2>1. AllProcesses(c) = <<c.process>> \o c.processes
    BY <1>3 DEF AllProcesses
  <2>2. <<c.process>> \in Seq(Processes)
    BY <1>1, <1>3
  <2>3. <<c.process>> \o c.processes \in Seq(Processes)
    BY <1>1, <2>2
  <2> QED BY <1>3, <2>1, <2>3
<1> QED BY <1>2, <1>3

\* normalizeProcessConfig leaves only pollers that can run.
LEMMA ProcessSettles ==
  ASSUME NEW c \in Configurations, c.mode = "process", c.events # Nil,
         c.eventsConfigured \/ c.events = <<"open", "close">>,
         normalizeProcessConfig(c) # Error
  PROVE  LET d == normalizeProcessConfig(c)
         IN /\ Settled(d) /\ Keeps(c, d) /\ d.root = c.root /\ d.mode = "process"
            /\ d.events = c.events /\ Pids(d.processes) = Pids(AllProcesses(c))
            /\ d.net = c.net
<1> DEFINE s == AllProcesses(c)
           ms == OrDefault(c.interval, 200)
           t == [i \in DOMAIN s |-> [s[i] EXCEPT !.interval = OrDefault(@, ms)]]
           d == [c EXCEPT !.interval = ms, !.process = Nil, !.processes = t]
<1>1. s \in Seq(Processes)
  BY AllProcessesType
<1>2. ~BadProcesses(s) /\ c.interval >= 0 /\ normalizeProcessConfig(c) = d
  <2>1. c.interval \in Int
    BY DEF Configurations
  <2> QED BY <2>1 DEF normalizeProcessConfig
<1>3. ms \in Int /\ ms > 0
  BY <1>2, IntervalOr DEF Configurations
<1>4. \A i \in DOMAIN s : /\ s[i] \in Processes /\ s[i].pid > 0 /\ s[i].interval >= 0
  <2>1. \A i \in DOMAIN s : s[i] \in Processes
    BY <1>1
  <2> QED BY <1>2, <2>1 DEF BadProcesses, Processes
<1> HIDE DEF s, ms
<1>5. \A i \in DOMAIN s : /\ t[i] \in Processes /\ t[i].pid = s[i].pid /\ t[i].interval > 0
  BY <1>3, <1>4, IntervalOr DEF Processes
<1>6. t \in Seq(Processes) /\ DOMAIN t = DOMAIN s
  <2>1. DOMAIN s = 1 .. Len(s) /\ Len(s) \in Nat
    BY <1>1
  <2>2. DOMAIN t = DOMAIN s /\ t \in [DOMAIN s -> Processes]
    BY <1>5
  <2> HIDE DEF t
  <2> QED BY <2>1, <2>2
<1> HIDE DEF t
<1>7. ~BadProcesses(t)
  <2>1. s # <<>>
    BY <1>2 DEF BadProcesses
  <2>2. t # <<>>
    BY <1>1, <1>6, <2>1
  <2>3. \A i \in DOMAIN t : ~(t[i].pid <= 0 \/ t[i].interval < 0)
    BY <1>4, <1>5, <1>6 DEF Processes
  <2>4. \A i, j \in DOMAIN t : i # j => t[i].pid # t[j].pid
    BY <1>2, <1>5, <1>6 DEF BadProcesses
  <2> QED BY <2>2, <2>3, <2>4 DEF BadProcesses
<1>8. d \in Configurations
  BY <1>3, <1>6 DEF Configurations
<1>9. /\ d.mode = "process" /\ d.events = c.events /\ d.eventsConfigured = c.eventsConfigured
      /\ d.interval = ms /\ d.process = Nil /\ d.processes = t
      /\ d.root = c.root /\ Keeps(c, d) /\ d.net = c.net
  BY DEF Configurations, Keeps
<1> HIDE DEF d
<1>10. Positive(d)
  BY <1>5, <1>6, <1>7, <1>9 DEF Positive
<1>11. Settled(d)
  BY <1>3, <1>8, <1>9, <1>10 DEF Settled
<1>12. Pids(t) = Pids(s)
  BY <1>5, <1>6 DEF Pids
<1> QED BY <1>2, <1>9, <1>11, <1>12 DEF s

\* normalizeNetworkConfig sets the interval and the ports, one after the other.
LEMMA NetworkForm ==
  ASSUME NEW c \in Configurations, c.net # Nil, c.net \in Networks,
         c.net.pid > 0, c.net.interval >= 0
  PROVE  LET timed == [c.net EXCEPT !.interval = OrDefault(c.net.interval, 500)]
             ports == IF c.net.ports = Nil THEN DefaultSocks5Ports ELSE c.net.ports
         IN normalizeNetworkConfig(c)
              = [[c EXCEPT !.net = timed] EXCEPT !.net = [timed EXCEPT !.ports = ports]]
<1> DEFINE timed == [c.net EXCEPT !.interval = OrDefault(c.net.interval, 500)]
           d == normalizeNetworkConfig(c)
<1>1. ~(c.net.pid <= 0 \/ c.net.interval < 0)
  BY DEF Networks
<1>2. d = [c EXCEPT !.net.interval = OrDefault(@, 500),
                    !.net.ports = IF @ = Nil THEN DefaultSocks5Ports ELSE @]
  BY <1>1 DEF normalizeNetworkConfig
<1>3. [c EXCEPT !.net = timed].net = timed
  BY DEF Configurations
<1>4. timed.ports = c.net.ports
  BY DEF Networks
<1> HIDE DEF d
<1>5. d = [[c EXCEPT !.net = timed]
             EXCEPT !.net = [timed EXCEPT !.ports = IF c.net.ports = Nil THEN DefaultSocks5Ports
                                                    ELSE c.net.ports]]
  BY <1>2, <1>3, <1>4
<1> QED BY <1>5 DEF d

\* normalizeNetworkConfig leaves only a poller that can run.
LEMMA NetworkSettles ==
  ASSUME NEW c \in Configurations, c.mode = "network", normalizeNetworkConfig(c) # Error
  PROVE  LET d == normalizeNetworkConfig(c)
         IN /\ Settled(d) /\ Keeps(c, d) /\ d.root = c.root /\ d.mode = "network"
            /\ d.events = c.events /\ d.net.pid = c.net.pid /\ NetKept(c, d)
<1>1. c.net # Nil /\ c.net \in Networks /\ c.net.pid > 0 /\ c.net.interval >= 0
  <2>1. c.net # Nil
    BY DEF normalizeNetworkConfig
  <2>2. c.net \in Networks
    BY <2>1 DEF Configurations
  <2> QED BY <2>1, <2>2 DEF normalizeNetworkConfig, Networks
<1> DEFINE d == normalizeNetworkConfig(c)
           ms == OrDefault(c.net.interval, 500)
           ports == IF c.net.ports = Nil THEN DefaultSocks5Ports ELSE c.net.ports
<1>2. d = [[c EXCEPT !.net = [c.net EXCEPT !.interval = ms]]
             EXCEPT !.net = [[c.net EXCEPT !.interval = ms] EXCEPT !.ports = ports]]
  BY <1>1, NetworkForm
<1>3. ms \in Int /\ ms > 0
  <2>1. \A x \in Int : x >= 0 => OrDefault(x, 500) \in Int /\ OrDefault(x, 500) > 0
    BY IntervalOr
  <2>2. c.net.interval \in Int
    BY <1>1 DEF Networks
  <2> QED BY <1>1, <2>1, <2>2
<1>4. ports \in SUBSET Int
  BY <1>1 DEF DefaultSocks5Ports, Networks
<1> HIDE DEF d, ms, ports
<1>5. d \in Configurations /\ d.mode = "network"
  BY <1>1, <1>2, <1>3, <1>4 DEF Configurations, Networks
<1>9. Keeps(c, d) /\ d.root = c.root /\ d.events = c.events
  BY <1>2 DEF Configurations, Keeps
<1>6. d.net = [[c.net EXCEPT !.interval = ms] EXCEPT !.ports = ports]
  BY <1>2 DEF Configurations
<1>7. /\ d.net \in Networks /\ d.net.pid > 0 /\ d.net.pid = c.net.pid /\ d.net.dns = c.net.dns
      /\ d.net.interval = ms /\ d.net.ports = ports
  BY <1>1, <1>3, <1>4, <1>6 DEF Networks
<1>8. d.net # Nil /\ (d.net.ports = Nil => DefaultSocks5Ports = Nil)
  BY <1>7, NilAssumption DEF ports
<1>10. NetKept(c, d)
  <2>1. c.net.ports # Nil => ports = c.net.ports
    BY DEF ports
  <2>2. c.net.interval # 0 => ms = c.net.interval
    BY DEF ms, OrDefault
  <2> QED BY <1>7, <1>8, <2>1, <2>2 DEF NetKept
<1> QED BY <1>3, <1>5, <1>7, <1>8, <1>9, <1>10 DEF d, Settled, Positive

\* What NormalizeConfig accepts is in one of the three forms, and has what it
\* had before but for what the form asks for.
LEMMA NormalizeSettles ==
  ASSUME NEW c \in Configurations, NormalizeConfig(c) # Error
  PROVE  Settled(NormalizeConfig(c)) /\ Taken(c, NormalizeConfig(c))
<1> DEFINE d == [c EXCEPT !.mode = Mode(c)]
<1>1. Mode(c) \in STRING
  BY StringAssumption DEF Mode, Configurations
<1>2. /\ d \in Configurations /\ d.mode = Mode(c) /\ Keeps(c, d) /\ d.root = c.root
      /\ d.events = c.events /\ d.net = c.net
      /\ d.process = c.process /\ d.processes = c.processes
  BY <1>1 DEF Configurations, Keeps
<1>3. NormalizeConfig(c) =
        CASE d.mode = "directory" -> [d EXCEPT !.events = EventsOr(d, DefaultEvents)]
          [] d.mode = "process" -> normalizeProcessConfig([d EXCEPT !.events = ProcessEvents(d)])
          [] d.mode = "network" -> normalizeNetworkConfig(d)
          [] OTHER -> Error
  BY DEF NormalizeConfig
<1> HIDE DEF d
<1>4. /\ EventsOr(d, DefaultEvents) = EventsOr(c, DefaultEvents)
      /\ ProcessEvents(d) = ProcessEvents(c) /\ AllProcesses(d) = AllProcesses(c)
  BY <1>2 DEF EventsOr, ProcessEvents, AllProcesses, Keeps
<1>5. CASE d.mode = "directory"
  <2> DEFINE e == EventsOr(d, DefaultEvents)
  <2>1. NormalizeConfig(c) = [d EXCEPT !.events = e]
    BY <1>3, <1>5
  <2>2. e \in Seq(STRING) /\ e # Nil /\ e = EventsOr(c, DefaultEvents)
    BY <1>2, <1>4, DefaultTypes DEF EventsOr, Configurations
  <2> HIDE DEF e
  <2>3. /\ [d EXCEPT !.events = e] \in Configurations
        /\ [d EXCEPT !.events = e].mode = "directory" /\ [d EXCEPT !.events = e].events = e
        /\ [d EXCEPT !.events = e].root = d.root /\ Keeps(d, [d EXCEPT !.events = e])
        /\ [d EXCEPT !.events = e].net = d.net
    BY <1>2, <1>5, <2>2 DEF Configurations, Keeps
  <2>4. Settled(NormalizeConfig(c))
    BY <2>1, <2>2, <2>3 DEF Settled, Positive
  <2>5. NetKept(c, NormalizeConfig(c))
    BY <1>2, <2>1, <2>3 DEF NetKept
  <2> QED BY <1>2, <1>5, <2>1, <2>2, <2>3, <2>4, <2>5 DEF Taken, Keeps, EventsFrom
<1>6. CASE d.mode = "process"
  <2> DEFINE e == ProcessEvents(d)
             f == [d EXCEPT !.events = e]
             n == normalizeProcessConfig(f)
  <2>1. NormalizeConfig(c) = n
    BY <1>3, <1>6
  <2>2. /\ e \in Seq(STRING) /\ e # Nil /\ (d.eventsConfigured \/ e = <<"open", "close">>)
        /\ e = ProcessEvents(c)
    BY <1>2, <1>4, DefaultTypes DEF ProcessEvents, EventsOr, Configurations
  <2> HIDE DEF e
  <2>3. /\ f \in Configurations /\ f.mode = "process" /\ f.events = e
        /\ f.eventsConfigured = d.eventsConfigured /\ Keeps(d, f) /\ f.root = d.root
        /\ f.process = d.process /\ f.processes = d.processes /\ f.net = d.net
    BY <1>2, <1>6, <2>2 DEF Configurations, Keeps
  <2> HIDE DEF f
  <2>4. AllProcesses(f) = AllProcesses(c)
    BY <1>4, <2>3 DEF AllProcesses
  <2>5. /\ Settled(n) /\ Keeps(f, n) /\ n.root = f.root /\ n.mode = "process"
        /\ n.events = f.events /\ Pids(n.processes) = Pids(AllProcesses(f)) /\ n.net = f.net
    BY <2>1, <2>2, <2>3, ProcessSettles
  <2> HIDE DEF n
  <2>6. NetKept(c, n)
    BY <1>2, <2>3, <2>5 DEF NetKept
  <2> QED BY <1>2, <1>6, <2>1, <2>2, <2>3, <2>4, <2>5, <2>6 DEF Taken, Keeps, EventsFrom
<1>7. CASE d.mode = "network"
  <2> DEFINE n == normalizeNetworkConfig(d)
  <2>1. NormalizeConfig(c) = n
    BY <1>3, <1>7
  <2>2. /\ Settled(n) /\ Keeps(d, n) /\ n.root = d.root /\ n.mode = "network"
        /\ n.events = d.events /\ n.net.pid = d.net.pid /\ NetKept(d, n)
    BY <1>2, <1>7, <2>1, NetworkSettles
  <2> HIDE DEF n
  <2>3. NetKept(c, n)
    BY <1>2, <2>2 DEF NetKept
  <2> QED BY <1>2, <1>7, <2>1, <2>2, <2>3 DEF Taken, Keeps, EventsFrom
<1> QED BY <1>3, <1>5, <1>6, <1>7

\* And it accepts such a configuration as it is.
LEMMA SettledStays ==
  ASSUME NEW c, Settled(c)
  PROVE  NormalizeConfig(c) = c
<1>1. c \in Configurations /\ c.mode # "" /\ Mode(c) = c.mode
  BY DEF Settled, Mode
<1>2. [c EXCEPT !.mode = Mode(c)] = c
  BY <1>1 DEF Configurations
<1>3. NormalizeConfig(c) =
        CASE c.mode = "directory" -> [c EXCEPT !.events = EventsOr(c, DefaultEvents)]
          [] c.mode = "process" -> normalizeProcessConfig([c EXCEPT !.events = ProcessEvents(c)])
          [] c.mode = "network" -> normalizeNetworkConfig(c)
          [] OTHER -> Error
  BY <1>2 DEF NormalizeConfig
<1>4. CASE c.mode = "directory"
  <2>1. EventsOr(c, DefaultEvents) = c.events
    BY <1>4 DEF EventsOr, Settled
  <2> QED BY <1>1, <1>3, <1>4, <2>1 DEF Configurations
<1>5. CASE c.mode = "process"
  <2>1. ProcessEvents(c) = c.events
    BY <1>5 DEF ProcessEvents, EventsOr, Settled
  <2>2. NormalizeConfig(c) = normalizeProcessConfig(c)
    BY <1>1, <1>3, <1>5, <2>1 DEF Configurations
  <2>3. /\ AllProcesses(c) = c.processes /\ c.process = Nil /\ ~BadProcesses(c.processes)
        /\ c.interval \in Int /\ c.interval > 0
    BY <1>1, <1>5, AllProcessesType DEF Settled, Positive, Configurations
  <2>4. OrDefault(c.interval, 200) = c.interval
    BY <2>3 DEF OrDefault
  <2> DEFINE t == [i \in DOMAIN c.processes |->
                    [c.processes[i] EXCEPT !.interval = OrDefault(@, c.interval)]]
  <2>5. t = c.processes
    <3>1. c.processes \in Seq(Processes)
      BY <1>1 DEF Configurations
    <3>2. \A i \in DOMAIN c.processes : c.processes[i] \in Processes /\ c.processes[i].interval > 0
      BY <1>5, <3>1 DEF Settled, Positive
    <3>3. \A i \in DOMAIN c.processes :
            [c.processes[i] EXCEPT !.interval = OrDefault(@, c.interval)] = c.processes[i]
      BY <3>2 DEF OrDefault, Processes
    <3>4. c.processes = [i \in DOMAIN c.processes |-> c.processes[i]]
      BY <3>1, SequenceIsFunction
    <3> QED BY <3>3, <3>4
  <2>6. normalizeProcessConfig(c) = [c EXCEPT !.interval = c.interval, !.process = Nil, !.processes = t]
    <3> DEFINE timed(s, ms) == [i \in DOMAIN s |-> [s[i] EXCEPT !.interval = OrDefault(@, ms)]]
    <3>1. ~(BadProcesses(AllProcesses(c)) \/ c.interval < 0)
      BY <2>3
    <3>2. normalizeProcessConfig(c) =
            [c EXCEPT !.interval = OrDefault(c.interval, 200), !.process = Nil,
                      !.processes = timed(AllProcesses(c), OrDefault(c.interval, 200))]
      BY <3>1 DEF normalizeProcessConfig
    <3>3. t = timed(c.processes, c.interval)
      OBVIOUS
    <3> HIDE DEF timed, t
    <3> QED BY <2>3, <2>4, <3>2, <3>3
  <2> HIDE DEF t
  <2> QED BY <1>1, <2>2, <2>3, <2>5, <2>6 DEF Configurations
<1>6. CASE c.mode = "network"
  <2>1. c.net \in Networks /\ c.net # Nil /\ c.net.pid > 0 /\ c.net.interval > 0
    BY <1>1, <1>6 DEF Settled, Positive, Configurations
  <2>2. c.net.interval >= 0
    BY <2>1 DEF Networks
  <2> DEFINE ms == OrDefault(c.net.interval, 500)
             ports == IF c.net.ports = Nil THEN DefaultSocks5Ports ELSE c.net.ports
  <2>3. normalizeNetworkConfig(c) =
          [[c EXCEPT !.net = [c.net EXCEPT !.interval = ms]]
             EXCEPT !.net = [[c.net EXCEPT !.interval = ms] EXCEPT !.ports = ports]]
    BY <1>1, <2>1, <2>2, NetworkForm
  <2>4. ms = c.net.interval
    BY <2>1 DEF OrDefault, Networks
  <2>5. ports = c.net.ports
    BY <1>6 DEF Settled
  <2>6. [c.net EXCEPT !.interval = c.net.interval] = c.net /\ [c.net EXCEPT !.ports = c.net.ports] = c.net
        /\ [c EXCEPT !.net = c.net] = c
    BY <1>1, <2>1 DEF Networks, Configurations
  <2> HIDE DEF ms, ports
  <2>7. normalizeNetworkConfig(c) = c
    BY <2>3, <2>4, <2>5, <2>6
  <2> QED BY <1>3, <1>6, <2>7
<1> QED BY <1>3, <1>4, <1>5, <1>6 DEF Settled

-----------------------------------------------------------------------------
(***************************************************************************)
(* The flags.                                                              *)
(***************************************************************************)
\* A list of ports is a set of numbers, and a missing one the default.
LEMMA PortsType ==
  ASSUME NEW g \in CommandLines, NEW default \in {Nil} \cup SUBSET Int
  PROVE  PortsOr(g.ports, default) \in {Nil} \cup SUBSET Int
<1>1. ASSUME NEW s \in Seq(Int) PROVE ToSet(s) \in SUBSET Int
  BY DEF ToSet
<1>2. g.ports \in {Nil} \cup Seq(Int)
  BY DEF CommandLines
<1> QED BY <1>1, <1>2 DEF PortsOr

\* -pid makes a configuration, of its processes only.
LEMMA PidFlagType ==
  ASSUME NEW c \in Configurations, NEW g \in CommandLines, g.pid # Nil, ~BadPidFlag(g)
  PROVE  LET d == PidFlag(c, g)
         IN /\ d \in Configurations /\ Keeps(c, d) /\ d.root = c.root /\ d.events = c.events
            /\ IF g.dns THEN d.mode = "network" /\ d.net # Nil /\ d.net.pid = g.pid[1]
               ELSE d.mode = "process" /\ Pids(AllProcesses(d)) = g.pid /\ d.net = c.net
<1>1. g.pid \in Seq(Int) /\ g.poll \in Int /\ g.pid # <<>>
  BY DEF CommandLines, BadPidFlag, BadPids
<1> DEFINE d == PidFlag(c, g)
<1>2. CASE g.dns
  <2> DEFINE n == [pid |-> g.pid[1], interval |-> g.poll, dns |-> TRUE,
                   ports |-> PortsOr(g.ports, DefaultSocks5Ports)]
  <2>1. PortsOr(g.ports, DefaultSocks5Ports) \in {Nil} \cup SUBSET Int
    BY PortsType DEF DefaultSocks5Ports
  <2>2. g.pid[1] \in Int
    BY <1>1
  <2>3. n \in Networks /\ n.pid = g.pid[1] /\ n # Nil
    <3>1. n \in Networks
      BY <1>1, <2>1, <2>2 DEF Networks
    <3> QED BY <3>1, NilAssumption
  <2>4. d = [c EXCEPT !.mode = "network", !.net = n]
    BY <1>2 DEF PidFlag
  <2>5. "network" \in STRING
    BY StringAssumption
  <2> HIDE DEF n, d
  <2>6. /\ d \in Configurations /\ d.mode = "network" /\ d.net = n
        /\ d.root = c.root /\ d.events = c.events /\ Keeps(c, d)
    BY <2>3, <2>4, <2>5 DEF Configurations, Keeps
  <2> QED BY <1>2, <2>3, <2>6 DEF d
<1>3. CASE ~g.dns
  <2> DEFINE s == [i \in DOMAIN g.pid |-> [pid |-> g.pid[i], interval |-> g.poll]]
  <2>1. s \in Seq(Processes) /\ Pids(s) = g.pid
    <3>1. DOMAIN g.pid = 1 .. Len(g.pid) /\ Len(g.pid) \in Nat
      BY <1>1
    <3>2. s \in [DOMAIN g.pid -> Processes]
      BY <1>1 DEF Processes
    <3>3. Pids(s) = [i \in DOMAIN g.pid |-> g.pid[i]]
      BY DEF Pids
    <3>4. Pids(s) = g.pid
      BY <1>1, <3>3, SequenceIsFunction
    <3> HIDE DEF s
    <3> QED BY <3>1, <3>2, <3>4
  <2>2. d = [c EXCEPT !.mode = "process", !.process = Nil, !.interval = g.poll,
                      !.processes = s]
    BY <1>3 DEF PidFlag
  <2>3. "process" \in STRING
    BY StringAssumption
  <2> HIDE DEF s, d
  <2>4. /\ d \in Configurations /\ d.mode = "process" /\ d.process = Nil /\ d.processes = s
        /\ d.root = c.root /\ d.events = c.events /\ Keeps(c, d) /\ d.net = c.net
    BY <1>1, <2>1, <2>2, <2>3 DEF Configurations, Keeps
  <2>5. AllProcesses(d) = s
    BY <2>4, AllProcessesType
  <2> QED BY <1>3, <2>1, <2>4, <2>5 DEF d
<1> QED BY <1>2, <1>3

\* So do the other flags of network mode, which leave the rest alone.
LEMMA NetFlagsType ==
  ASSUME NEW c \in Configurations, NEW g \in CommandLines
  PROVE  LET d == NetFlags(c, g)
         IN /\ d \in Configurations /\ Keeps(c, d) /\ d.root = c.root /\ d.events = c.events
            /\ d.mode = c.mode /\ d.process = c.process /\ d.processes = c.processes
            /\ c.net # Nil => d.net.pid = c.net.pid
            /\ c.mode # "network" => d.net = c.net
<1>1. CASE c.mode # "network" \/ c.net = Nil
  BY <1>1 DEF NetFlags, Keeps
<1>2. CASE ~(c.mode # "network" \/ c.net = Nil)
  <2> DEFINE d == NetFlags(c, g)
             traced == [c.net EXCEPT !.dns = c.net.dns \/ g.dns]
             ports == IF c.net.ports = Nil THEN PortsOr(g.ports, Nil) ELSE c.net.ports
  <2>1. c.net \in Networks /\ g.dns \in BOOLEAN
    BY <1>2 DEF Configurations, CommandLines
  <2>2. traced \in Networks /\ traced.ports = c.net.ports /\ traced.pid = c.net.pid
    BY <2>1 DEF Networks
  <2>3. ports \in {Nil} \cup SUBSET Int
    BY <2>1, PortsType DEF Networks
  <2>4. d = [c EXCEPT !.net.dns = @ \/ g.dns,
                      !.net.ports = IF @ = Nil THEN PortsOr(g.ports, Nil) ELSE @]
    BY <1>2 DEF NetFlags
  <2> HIDE DEF d
  <2>5. [c EXCEPT !.net = traced].net = traced
    BY DEF Configurations
  <2>6. d = [[c EXCEPT !.net = traced] EXCEPT !.net = [traced EXCEPT !.ports = ports]]
    BY <2>2, <2>4, <2>5
  <2> HIDE DEF traced, ports
  <2>7. [traced EXCEPT !.ports = ports] \in Networks /\ [traced EXCEPT !.ports = ports].pid = c.net.pid
    BY <2>2, <2>3 DEF Networks
  <2>8. /\ d \in Configurations /\ Keeps(c, d) /\ d.root = c.root /\ d.events = c.events
        /\ d.mode = c.mode /\ d.process = c.process /\ d.processes = c.processes
        /\ d.net = [traced EXCEPT !.ports = ports]
    BY <2>6, <2>7 DEF Configurations, Keeps
  <2> QED BY <1>2, <2>7, <2>8 DEF d
<1> QED BY <1>1, <1>2

\* What the flags make of a configuration has been normalised, and has what
\* they do not say from it.
LEMMA FlagsSettle ==
  ASSUME NEW c \in Configurations, NEW g \in CommandLines, ApplyFlags(c, g) # Error
  PROVE  Settled(ApplyFlags(c, g)) /\ Given(c, g, ApplyFlags(c, g))
<1> DEFINE rooted == IF g.args = <<>> THEN c ELSE [c EXCEPT !.root = g.args[1]]
           d == IF g.pid = Nil THEN rooted ELSE PidFlag(rooted, g)
           f == NetFlags(d, g)
           e == ApplyFlags(c, g)
<1>1. /\ rooted \in Configurations /\ Keeps(c, rooted) /\ rooted.events = c.events
      /\ rooted.mode = c.mode /\ AllProcesses(rooted) = AllProcesses(c) /\ rooted.net = c.net
      /\ g.pid # Nil => rooted.root = c.root
  <2>1. g.args \in Seq(Paths)
    BY DEF CommandLines
  <2>2. g.args # <<>> => g.args[1] \in Paths
    BY <2>1
  <2>3. g.pid # Nil => g.args = <<>>
    BY DEF ApplyFlags, BadArgs
  <2>4. CASE g.args = <<>>
    BY <2>4 DEF Keeps
  <2>5. CASE g.args # <<>>
    BY <2>2, <2>3, <2>5 DEF Configurations, Keeps, AllProcesses
  <2> QED BY <2>4, <2>5
<1>2. /\ g.pid # Nil => ~BadPidFlag(g)
      /\ e = NormalizeConfig(f)
  BY DEF ApplyFlags
<1> HIDE DEF rooted, e
<1>3. /\ d \in Configurations /\ Keeps(c, d) /\ d.events = c.events
      /\ g.pid = Nil => d.mode = c.mode /\ AllProcesses(d) = AllProcesses(c)
      /\ g.pid # Nil =>
           /\ d.root = c.root
           /\ IF g.dns THEN d.mode = "network" /\ d.net # Nil /\ d.net.pid = g.pid[1]
              ELSE d.mode = "process" /\ Pids(AllProcesses(d)) = g.pid /\ d.net = c.net
  <2>1. CASE g.pid = Nil
    BY <1>1, <2>1
  <2>2. CASE g.pid # Nil
    <3>1. d = PidFlag(rooted, g)
      BY <2>2
    <3> HIDE DEF d
    <3>2. /\ d \in Configurations /\ Keeps(rooted, d) /\ d.root = rooted.root
          /\ d.events = rooted.events
          /\ IF g.dns THEN d.mode = "network" /\ d.net # Nil /\ d.net.pid = g.pid[1]
             ELSE /\ d.mode = "process" /\ Pids(AllProcesses(d)) = g.pid
                  /\ d.net = rooted.net
      BY <1>1, <1>2, <2>2, <3>1, PidFlagType
    <3>3. Keeps(c, d)
      BY <1>1, <3>2 DEF Keeps
    <3> QED BY <1>1, <2>2, <3>2, <3>3
  <2> QED BY <2>1, <2>2
<1> HIDE DEF d
<1>4. /\ f \in Configurations /\ Keeps(d, f) /\ f.root = d.root /\ f.events = d.events
      /\ f.mode = d.mode /\ f.process = d.process /\ f.processes = d.processes
      /\ d.net # Nil => f.net.pid = d.net.pid
      /\ d.mode # "network" => f.net = d.net
  BY <1>3, NetFlagsType
<1> HIDE DEF f
<1>5. Settled(e) /\ Taken(f, e)
  BY <1>2, <1>4, NormalizeSettles DEF e
<1>6. /\ AllProcesses(f) = AllProcesses(d) /\ Keeps(c, f)
      /\ EventsOr(f, DefaultEvents) = EventsOr(c, DefaultEvents)
      /\ ProcessEvents(f) = ProcessEvents(c)
  BY <1>3, <1>4 DEF AllProcesses, Keeps, EventsOr, ProcessEvents
<1>7. Keeps(c, e) /\ EventsFrom(c, e)
  BY <1>3, <1>4, <1>5, <1>6 DEF Taken, Keeps, EventsFrom
<1>8. g.pid = Nil => e.mode = Mode(c)
  BY <1>3, <1>4, <1>5, <1>6 DEF Taken, Mode
<1>9. f.mode # "" => e.mode = f.mode
  BY <1>5 DEF Taken, Mode
<1>10. ASSUME g.pid # Nil
       PROVE  /\ e.root = c.root
              /\ IF g.dns THEN e.mode = "network" /\ e.net.pid = g.pid[1]
                 ELSE e.mode = "process" /\ Pids(e.processes) = g.pid /\ NetKept(c, e)
  <2>1. ~g.dns => f.net = c.net /\ NetKept(f, e)
    BY <1>3, <1>4, <1>5, <1>10 DEF Taken
  <2>2. ~g.dns => NetKept(c, e)
    BY <2>1 DEF NetKept
  <2> QED BY <1>3, <1>4, <1>5, <1>6, <1>9, <1>10, <2>2 DEF Taken
<1> QED BY <1>5, <1>7, <1>8, <1>10 DEF Given, e

-----------------------------------------------------------------------------
(***************************************************************************)
(* The start of the program.                                               *)
(***************************************************************************)

\* LoadConfig accepts no file that it has not normalised.
LEMMA LoadSettles ==
  ASSUME NEW f \in Configurations, LoadConfig(f) # Error
  PROVE  Settled(LoadConfig(f)) /\ Taken(f, LoadConfig(f))
<1>1. LoadConfig(f) = NormalizeConfig(f)
  BY DEF LoadConfig
<1> QED BY <1>1, NormalizeSettles

\* The names resolve to operations of the two modes that have names.
LEMMA ResolvedOps ==
  ASSUME NEW e, ResolveAllEventOps(e) # Error
  PROVE  ResolveAllEventOps(e) \in SUBSET (OpsIn("directory") \cup OpsIn("process"))
<1> DEFINE all == OpsIn("directory") \cup OpsIn("process")
           resolved == {OpsOf(n) : n \in IF e = Nil THEN {} ELSE ToSet(e)}
<1>1. all = {"CREATE", "WRITE", "REMOVE", "RENAME", "READ", "OPEN", "CLOSE"}
  BY DEF OpsIn
<1>2. \A n : OpsOf(n) = Error \/ OpsOf(n) \subseteq all
  BY <1>1 DEF OpsOf
<1>3. Error \notin resolved /\ ResolveAllEventOps(e) = UNION resolved
  BY DEF ResolveAllEventOps
<1>4. \A x \in resolved : x \subseteq all
  BY <1>2, <1>3
<1> HIDE DEF all, resolved
<1> QED BY <1>3, <1>4 DEF all

\* What the defaults stand for, unless they do not resolve.
LEMMA DefaultOps ==
  /\ ResolveAllEventOps(DefaultEvents) \in {Error, {"CREATE", "WRITE", "REMOVE", "RENAME"}}
  /\ ResolveAllEventOps(<<"open", "close">>) \in {Error, {"OPEN", "CLOSE"}}
<1> DEFINE of(e) == {OpsOf(n) : n \in ToSet(e)}
<1>1. /\ OpsOf("create") = {"CREATE"} /\ OpsOf("write") = {"WRITE"} /\ OpsOf("remove") = {"REMOVE"}
      /\ OpsOf("rename") = {"RENAME"} /\ OpsOf("open") = {"OPEN"} /\ OpsOf("close") = {"CLOSE"}
  BY DEF OpsOf
<1>2. /\ ToSet(DefaultEvents) = {"create", "write", "remove", "rename"}
      /\ ToSet(<<"open", "close">>) = {"open", "close"}
  BY DEF ToSet, DefaultEvents
<1>3. /\ of(DefaultEvents) = {{"CREATE"}, {"WRITE"}, {"REMOVE"}, {"RENAME"}}
      /\ of(<<"open", "close">>) = {{"OPEN"}, {"CLOSE"}}
  BY <1>1, <1>2
<1>4. \A e : e # Nil => ResolveAllEventOps(e) \in {Error, UNION of(e)}
  BY DEF ResolveAllEventOps
<1> HIDE DEF of
<1>5. /\ UNION {{"CREATE"}, {"WRITE"}, {"REMOVE"}, {"RENAME"}} = {"CREATE", "WRITE", "REMOVE", "RENAME"}
      /\ UNION {{"OPEN"}, {"CLOSE"}} = {"OPEN", "CLOSE"}
  OBVIOUS
<1> QED BY <1>3, <1>4, <1>5, DefaultTypes

\* What LoadConfig makes of a file goes to main with all that the file says.
LEMMA StartLoads ==
  ASSUME Inv, NEW g \in FlagSets, Start(g)
  PROVE  StartOK' /\ Loading'
<1>1. /\ phase' = "loaded" /\ flags' = g /\ config' = Loaded(g) /\ cfgFile' = cfgFile
      /\ Loaded(g) # Error /\ parts' = parts /\ phase = "off"
  BY DEF Start
<1>2. config' \in Configurations /\ Loading'
  <2>1. CASE cfgFile = Missing
    <3>1. config' = DefaultConfig /\ ~FromFile'
      BY <1>1, <2>1 DEF Loaded, FromFile
    <3>2. /\ DefaultConfig.eventsConfigured = FALSE /\ DefaultConfig.mode = ""
      BY DEF DefaultConfig, ZeroConfig
    <3>3. FileEvents' = FALSE /\ EventsSo'
      BY <3>1, <3>2, DefaultTypes DEF FileEvents, NoEvents, EventsSo, DefaultConfig, ZeroConfig
    <3> QED BY <3>1, <3>2, <3>3, DefaultTypes DEF Loading
  <2>2. CASE cfgFile # Missing
    <3>1. config' = LoadConfig(cfgFile) /\ LoadConfig(cfgFile) # Error
      BY <1>1, <2>2 DEF Loaded
    <3>2. cfgFile # Broken /\ FromFile /\ FromFile'
      BY <1>1, <2>2, <3>1 DEF LoadConfig, FromFile
    <3>3. cfgFile \in Configurations
      BY <2>2, <3>2, FileAssumption, DefaultTypes DEF Inv, StartOK
    <3>4. Settled(config') /\ Taken(cfgFile, config')
      BY <3>1, <3>3, LoadSettles
    <3>5. /\ FileEvents' = (cfgFile.events # Nil /\ cfgFile.eventsConfigured)
          /\ NoEvents' = (cfgFile.events = Nil /\ ~cfgFile.eventsConfigured)
          /\ (FromFile /\ cfgFile.eventsConfigured)' = cfgFile.eventsConfigured
          /\ cfgFile.eventsConfigured \in BOOLEAN
      BY <1>1, <3>2, <3>3 DEF FileEvents, NoEvents, Configurations
    <3>6. /\ config'.eventsConfigured = cfgFile.eventsConfigured /\ EventsSo'
          /\ NetKept(cfgFile', config')
          /\ config'.root = cfgFile'.root /\ config'.ignore = cfgFile'.ignore
          /\ config'.log = cfgFile'.log /\ config'.dedupLog = cfgFile'.dedupLog
      BY <1>1, <3>4, <3>5
         DEF Taken, Keeps, EventsFrom, EventsOr, ProcessEvents, EventsSo, Settled
    <3> QED BY <1>1, <3>2, <3>4, <3>5, <3>6 DEF Loading, Settled
  <2> QED BY <2>1, <2>2
<1>3. g \in CommandLines /\ g # Nil /\ config' # Nil
  BY <1>2, FlagAssumption, NilAssumption
<1> QED BY <1>1, <1>2, <1>3 DEF Inv, StartOK

\* The flags change what they say and nothing else.
LEMMA ConfigureSettles ==
  ASSUME Inv, Configure, config' # Nil
  PROVE  /\ phase' = "configured" /\ config' \in Configurations /\ Configuring'
         /\ cfgFile' = cfgFile /\ flags' = flags /\ parts' = parts
<1> DEFINE c == ApplyFlags(config, flags)
<1>1. /\ phase = "loaded" /\ phase' = "configured" /\ config' = c /\ c # Error
      /\ cfgFile' = cfgFile /\ flags' = flags /\ parts' = parts
  BY DEF Configure, Fail
<1>2. config \in Configurations /\ flags \in CommandLines /\ config # Nil
  BY <1>1, FlagAssumption DEF Inv, StartOK
<1>3. Settled(config') /\ Given(config, flags, config')
  BY <1>1, <1>2, FlagsSettle
<1> HIDE DEF c
<1>4. /\ Loading /\ phase = "loaded" /\ FromFile' = FromFile /\ FileEvents' = FileEvents
      /\ NoEvents' = NoEvents
  BY <1>1 DEF Inv, FromFile, FileEvents, NoEvents
<1>5. config'.mode = "directory" => config.mode \in {"directory", ""}
  BY <1>3 DEF Given, Mode
<1>6. NoEvents /\ config'.mode = "directory" => config.events = DefaultEvents
  BY <1>4, <1>5 DEF Loading, EventsSo, NoEvents, Settled, DefaultConfig, ZeroConfig
<1>7. EventsSo'
  <2>1. CASE FileEvents
    <3>1. /\ config.eventsConfigured = TRUE /\ config.events = cfgFile.events
          /\ cfgFile.events # Nil /\ FileEvents' /\ cfgFile' = cfgFile
      BY <1>1, <1>2, <1>4, <2>1 DEF Loading, EventsSo, FileEvents, Configurations
    <3>2. config'.events = config.events
      BY <1>3, <3>1 DEF Given, EventsFrom, EventsOr, ProcessEvents, Settled
    <3>3. ~NoEvents'
      BY <1>4, <2>1 DEF FileEvents, NoEvents
    <3> QED BY <3>1, <3>2, <3>3 DEF EventsSo
  <2>2. CASE NoEvents
    <3>1. config.eventsConfigured = FALSE
      BY <1>4, <2>2, <1>2 DEF Loading, NoEvents, Configurations
    <3> QED BY <1>1, <1>3, <1>4, <1>6, <2>2, <3>1, DefaultTypes
            DEF EventsSo, Given, EventsFrom, EventsOr, ProcessEvents, FileEvents, NoEvents
  <2>3. CASE ~FileEvents /\ ~NoEvents
    BY <1>4, <2>3 DEF EventsSo
  <2> QED BY <2>1, <2>2, <2>3
<1>8. PidOverrides'
  <2>1. FromFile /\ flags.pid # Nil /\ ~flags.dns => NetKept(cfgFile, config')
    <3>1. FromFile /\ flags.pid # Nil /\ ~flags.dns =>
            NetKept(cfgFile, config) /\ NetKept(config, config')
      BY <1>3, <1>4 DEF Loading, Given
    <3> QED BY <3>1 DEF NetKept
  <2>2. FromFile /\ flags.pid # Nil /\ ~flags.dns => NetKept(cfgFile', config')
    BY <1>1, <2>1 DEF NetKept
  <2> QED BY <1>1, <1>3, <1>4, <1>7, <2>2
          DEF PidOverrides, Given, Keeps, Loading, FromFile, EventsSo, FileEvents, Pids
<1> QED BY <1>1, <1>3, <1>7, <1>8 DEF Configuring, Settled

\* The program runs with what its configuration asks for.
LEMMA BuildHonours ==
  ASSUME Inv, NEW ok \in BOOLEAN, Build(ok)
  PROVE  StartOK' /\ EventsHonoured'
<1> DEFINE ops == ResolveAllEventOps(config.events)
<1>1. phase = "configured" /\ cfgFile' = cfgFile /\ config \in Configurations /\ parts = Nil
      /\ Settled(config) /\ EventsSo
  BY DEF Build, Inv, StartOK, Configuring
<1>2. CASE ~ok \/ ops = Error
  BY <1>1, <1>2 DEF Build, Fail, Inv, StartOK, EventsHonoured
<1>3. CASE ~(~ok \/ ops = Error)
  <2>1. /\ phase' = "running" /\ flags' = Nil /\ config' = Nil /\ records' = <<>>
        /\ parts' = [mode |-> config.mode, log |-> config.log,
                     dedup |-> config.dedupLog, ops |-> ops]
    BY <1>3 DEF Build, NewStats
  <2>2. ops \in SUBSET (OpsIn("directory") \cup OpsIn("process"))
    BY <1>3, ResolvedOps
  <2>3. parts' \in Parts
    BY <1>1, <2>1, <2>2 DEF Parts, Settled, Configurations
  <2>4. StartOK'
    BY <1>1, <2>1, <2>3, PartsAssumption DEF Inv, StartOK
  <2>5. PICK m : m = config.mode
    OBVIOUS
  <2>6. parts'.mode = m /\ parts'.ops = ops /\ FromFile' = FromFile
    BY <1>1, <2>1, <2>5 DEF FromFile
  <2>7. m # "network" /\ PlainEvents' => parts'.ops = Asked(m)'
    <3>1. CASE FileEvents
      BY <1>1, <2>6, <3>1 DEF EventsSo, FileEvents, Asked
    <3>2. CASE NoEvents
      <4>1. Asked(m)' = IF m = "process" THEN {"OPEN", "CLOSE"}
                        ELSE {"CREATE", "WRITE", "REMOVE", "RENAME"}
        BY <1>1, <2>6, <3>2 DEF NoEvents, Asked
      <4> QED BY <1>1, <1>3, <2>5, <2>6, <3>2, <4>1, DefaultOps DEF EventsSo, Settled
    <3>3. PlainEvents' => FileEvents \/ NoEvents
      BY <1>1, <2>6 DEF PlainEvents, FileEvents, NoEvents
    <3> QED BY <3>1, <3>2, <3>3
  <2>8. DOMAIN records' = {}
    BY <2>1
  <2>9. EventsHonoured'
    BY <2>6, <2>7, <2>8 DEF EventsHonoured
  <2> QED BY <2>4, <2>9
<1> QED BY <1>2, <1>3

\* A record that the filter lets through has been asked for.
LEMMA RecordHonours ==
  ASSUME Inv, NEW op \in Ops, NEW k \in Keys, Record(op, k)
  PROVE  Inv'
<1>1. phase = "running" /\ op \in OpsIn(parts.mode) /\ (parts.mode = "network" \/ op \in parts.ops)
  BY DEF Record, Printed
<1>2. CASE ~parts.log
  <2>1. Off
    BY <1>2 DEF Record
  <2>2. DedupInv'
    BY <2>1, NewDedup DEF Inv, Off
  <2> QED BY <1>1, <2>1, <2>2 DEF Off, startup, Inv, StartOK, Loading, Configuring, EventsHonoured
<1>3. CASE parts.log
  <2>1. /\ UNCHANGED <<cfgFile, phase, flags, config, parts>>
        /\ IF parts.dedup THEN printRecord(op, k) ELSE UNCHANGED dedupVars
    BY <1>3 DEF Record, startup
  <2>2. DedupInv'
    BY <2>1, PrintDedup, DedupKept DEF Inv
  <2>3. EventsHonoured'
    <3>1. PICK m : m = parts.mode
      OBVIOUS
    <3>2. CASE m = "network" \/ ~PlainEvents
      <4>1. PlainEvents' = PlainEvents
        BY <2>1 DEF PlainEvents, FromFile
      <4> QED BY <2>1, <3>1, <3>2, <4>1 DEF EventsHonoured
    <3>3. CASE m # "network" /\ PlainEvents
      <4>1. Asked(m)' = Asked(m) /\ parts'.ops = parts.ops /\ parts'.mode = m
        BY <2>1, <3>1 DEF Asked, FromFile
      <4>2. parts.ops = Asked(m) /\ \A i \in DOMAIN records : records[i][1] \in Asked(m)
        BY <1>1, <3>1, <3>3 DEF Inv, EventsHonoured
      <4>3. op \in Asked(m)
        BY <1>1, <3>1, <3>3, <4>2
      <4>4. \A i \in DOMAIN records' :
              records'[i] = <<op, k>> \/ (i \in DOMAIN records /\ records'[i] = records[i])
        <5>1. CASE records' = records
          BY <5>1
        <5>2. CASE records' = Append(records, <<op, k>>)
          <6>1. <<op, k>> \in Ops \X Keys /\ records \in Seq(Ops \X Keys)
            BY DEF Inv, DedupInv
          <6> QED BY <5>2, <6>1, PutLast
        <5> QED BY <2>1, <5>1, <5>2 DEF printRecord, dedupVars, memory
      <4> QED BY <4>1, <4>2, <4>3, <4>4 DEF EventsHonoured
    <3> QED BY <3>2, <3>3
  <2>4. StartOK' /\ Loading' /\ Configuring'
    BY <1>1, <2>1 DEF Inv, StartOK, Loading, Configuring
  <2> QED BY <2>2, <2>3, <2>4 DEF Inv
<1> QED BY <1>2, <1>3

\* Nothing is loaded and nothing recorded at first.
LEMMA InitInv == Init => Inv
BY DedupStarts DEF Init, Inv, StartOK, Loading, Configuring, EventsHonoured

\* Every step leaves a start that is under way with what its file and flags say, and a
\* program that runs with what they asked for.
LEMMA NextInv == Inv /\ [Next]_vars => Inv'
<1> SUFFICES ASSUME Inv, [Next]_vars PROVE Inv'
  OBVIOUS
<1> USE DEF startup
<1>1. CASE UNCHANGED vars
  <2>1. UNCHANGED <<cfgFile, phase, flags, config, parts, dedupVars, records>>
    BY <1>1 DEF vars, dedupVars, memory
  <2>2. DedupInv'
    BY <2>1, DedupKept DEF Inv
  <2>3. FromFile' = FromFile
    BY <2>1 DEF FromFile
  <2>4. StartOK' /\ Loading' /\ Configuring'
    BY <2>1, <2>3
       DEF Inv, StartOK, Loading, Configuring, EventsSo, FileEvents, NoEvents, PidOverrides,
           NetKept
  <2>5. EventsHonoured'
    BY <2>1, <2>3 DEF Inv, EventsHonoured, Asked, PlainEvents
  <2> QED BY <2>2, <2>4, <2>5 DEF Inv
<1>2. CASE (\E f \in Files : Edit(f)) \/ WriteDefaultConfig
  <2>1. /\ phase = "off" /\ cfgFile' \in Files \cup {DefaultFile}
        /\ UNCHANGED <<phase, flags, config, parts, dedupVars>>
    BY <1>2 DEF Edit, WriteDefaultConfig
  <2>2. DedupInv'
    BY <2>1, DedupKept DEF Inv
  <2> QED BY <2>1, <2>2 DEF Inv, StartOK, Loading, Configuring, EventsHonoured
<1>3. ASSUME NEW g \in FlagSets, Start(g) PROVE Inv'
  <2>1. phase' = "loaded" /\ UNCHANGED dedupVars
    BY <1>3 DEF Start
  <2>2. DedupInv'
    BY <2>1, DedupKept DEF Inv
  <2>3. Configuring' /\ EventsHonoured'
    BY <2>1 DEF Configuring, EventsHonoured
  <2> QED BY <1>3, <2>2, <2>3, StartLoads DEF Inv
<1>4. CASE Configure
  <2>1. UNCHANGED dedupVars /\ phase' # "running" /\ phase' # "loaded"
    BY <1>4 DEF Configure, Fail
  <2>2. DedupInv'
    BY <2>1, DedupKept DEF Inv
  <2>3. Loading' /\ EventsHonoured'
    BY <2>1 DEF Loading, EventsHonoured
  <2>4. CASE config' = Nil
    <3>1. phase = "loaded" /\ UNCHANGED <<cfgFile, parts>>
      BY <1>4 DEF Configure, Fail
    <3>2. CASE ApplyFlags(config, flags) = Error
      <4>1. phase' = "off" /\ flags' = Nil
        BY <1>4, <3>2 DEF Configure, Fail
      <4> QED BY <2>2, <2>3, <2>4, <3>1, <4>1 DEF Inv, StartOK, Configuring
    <3>3. CASE ApplyFlags(config, flags) # Error
      <4>1. config \in Configurations /\ flags \in CommandLines
        BY <3>1, FlagAssumption DEF Inv, StartOK
      <4>2. config' = ApplyFlags(config, flags)
        BY <1>4, <3>3 DEF Configure
      <4> QED BY <2>4, <3>3, <4>1, <4>2, FlagsSettle, NilAssumption DEF Settled
    <3> QED BY <3>2, <3>3
  <2>5. CASE config' # Nil
    <3>1. /\ phase' = "configured" /\ config' \in Configurations /\ Configuring'
          /\ cfgFile' = cfgFile /\ flags' = flags /\ parts' = parts
      BY <1>4, <2>5, ConfigureSettles
    <3>2. phase = "loaded"
      BY <1>4 DEF Configure
    <3> QED BY <2>2, <2>3, <2>5, <3>1, <3>2 DEF Inv, StartOK
  <2> QED BY <2>4, <2>5
<1>5. ASSUME NEW ok \in BOOLEAN, Build(ok) PROVE Inv'
  <2>1. UNCHANGED dedupVars \/ (NewStats /\ UNCHANGED file)
    BY <1>5 DEF Build
  <2>2. DedupInv'
    BY <2>1, DedupKept, NewDedup DEF Inv
  <2>3. phase' \in {"off", "running"}
    BY <1>5 DEF Build, Fail
  <2>4. Loading' /\ Configuring'
    BY <2>3 DEF Loading, Configuring
  <2> QED BY <1>5, <2>2, <2>4, BuildHonours DEF Inv
<1>6. CASE Exit
  <2>1. Off
    BY <1>6 DEF Exit
  <2>2. DedupInv'
    BY <2>1, NewDedup DEF Inv, Off
  <2>3. phase = "running"
    BY <1>6 DEF Exit
  <2> QED BY <2>1, <2>2, <2>3 DEF Off, Inv, StartOK, Loading, Configuring, EventsHonoured
<1>7. CASE \E op \in Ops, k \in Keys : Record(op, k)
  BY <1>7, RecordHonours
<1> QED BY <1>1, <1>2, <1>3, <1>4, <1>5, <1>6, <1>7 DEF Next

\* The inductive invariant holds.
LEMMA AlwaysInv == Spec => []Inv
BY InitInv, NextInv, PTL DEF Spec

-----------------------------------------------------------------------------
(***************************************************************************)
(* Paths.  CleanNames is a recursive function: that there is one, and what *)
(* holds of it at every length, is proved with Upward (SequenceLemmas).    *)
(***************************************************************************)
\* The names cleaned up to each, of the first n.
Cleans(g, names, abs, n) ==
  g = [i \in 0 .. n |-> IF i = 0 THEN <<>> ELSE CleanName(g[i - 1], names[i], abs)]

LEMMA CleansExists ==
  ASSUME NEW names, NEW abs, NEW n \in Nat
  PROVE  \E g : Cleans(g, names, abs, n)
<1> DEFINE T == {m \in Nat : \E g : Cleans(g, names, abs, m)}
<1>1. 0 \in T
  <2>1. Cleans([i \in 0 .. 0 |-> <<>>], names, abs, 0)
    BY DEF Cleans
  <2> QED BY <2>1
<1>2. ASSUME NEW m \in 1 .. n, m - 1 \in T PROVE m \in T
  <2>1. PICK g : Cleans(g, names, abs, m - 1)
    BY <1>2
  <2> DEFINE h == [i \in 0 .. m |-> IF i = 0 THEN <<>> ELSE CleanName(g[i - 1], names[i], abs)]
  <2>2. \A i \in 0 .. m - 1 : h[i] = g[i]
    <3> TAKE i \in 0 .. m - 1
    <3>1. i \in 0 .. m
      OBVIOUS
    <3>2. g[i] = IF i = 0 THEN <<>> ELSE CleanName(g[i - 1], names[i], abs)
      BY <2>1 DEF Cleans
    <3> QED BY <3>1, <3>2
  <2>3. \A i \in 0 .. m : h[i] = IF i = 0 THEN <<>> ELSE CleanName(h[i - 1], names[i], abs)
    <3> TAKE i \in 0 .. m
    <3>1. i # 0 => i - 1 \in 0 .. m - 1
      OBVIOUS
    <3>2. h[i] = IF i = 0 THEN <<>> ELSE CleanName(g[i - 1], names[i], abs)
      OBVIOUS
    <3> QED BY <2>2, <3>1, <3>2
  <2>4. h = [i \in 0 .. m |-> h[i]] /\ m \in Nat
    OBVIOUS
  <2> HIDE DEF h
  <2> QED BY <2>3, <2>4 DEF Cleans
<1> HIDE DEF T
<1>3. n \in T
  BY <1>1, <1>2, Upward
<1> QED BY <1>3 DEF T

\* CleanNames goes name by name.
LEMMA CleanSteps ==
  ASSUME NEW S, NEW names \in Seq(S), NEW abs
  PROVE  \E g : /\ g[0] = <<>> /\ g[Len(names)] = CleanNames(names, abs)
                /\ \A i \in 1 .. Len(names) : g[i] = CleanName(g[i - 1], names[i], abs)
<1> DEFINE n == Len(names)
<1>1. n \in Nat
  OBVIOUS
<1> DEFINE g == CHOOSE f : f = [i \in 0 .. n |-> IF i = 0 THEN <<>>
                                                 ELSE CleanName(f[i - 1], names[i], abs)]
<1>2. Cleans(g, names, abs, n)
  <2>1. \E f : Cleans(f, names, abs, n)
    BY <1>1, CleansExists, Zenon
  <2>2. \E f : f = [i \in 0 .. n |-> IF i = 0 THEN <<>>
                                    ELSE CleanName(f[i - 1], names[i], abs)]
    BY <2>1, Zenon DEF Cleans
  <2>3. g = [i \in 0 .. n |-> IF i = 0 THEN <<>> ELSE CleanName(g[i - 1], names[i], abs)]
    BY <2>2, Zenon
  <2> QED BY <2>3, Zenon DEF Cleans
<1>3. CleanNames(names, abs) = g[n]
  BY DEF CleanNames
<1> HIDE DEF g
<1>4. g[0] = <<>> /\ \A i \in 1 .. n : g[i] = CleanName(g[i - 1], names[i], abs)
  <2>1. \A i \in 0 .. n : g[i] = IF i = 0 THEN <<>> ELSE CleanName(g[i - 1], names[i], abs)
    BY <1>2 DEF Cleans
  <2>2. 0 \in 0 .. n /\ \A i \in 1 .. n : i \in 0 .. n /\ i # 0
    BY <1>1
  <2> QED BY <2>1, <2>2
<1> QED BY <1>3, <1>4

\* One name: of an absolute path, of one that has left the root, and of one below it.
LEMMA CleanAbsolute ==
  ASSUME NEW S, NEW r \in Seq(S \ {".."}), NEW m \in S
  PROVE  CleanName(r, m, TRUE) \in Seq(S \ {".."})
<1>1. r # <<>> => Last(r) # ".." /\ Front(r) \in Seq(S \ {".."})
  BY DEF Last, Front
<1>2. m # ".." => Append(r, m) \in Seq(S \ {".."})
  OBVIOUS
<1> QED BY <1>1, <1>2 DEF CleanName

LEMMA CleanOutside ==
  ASSUME NEW S, NEW r \in Seq(S), NEW m \in S, isParentPath(r)
  PROVE  isParentPath(CleanName(r, m, FALSE))
<1>1. /\ Len(r) \in Nat /\ Len(r) # 0 /\ r[1] = ".."
      /\ Append(r, m)[1] = r[1] /\ Append(r, m) # <<>>
  BY DEF isParentPath
<1>2. CASE Last(r) # ".."
  <2>1. Len(r) > 1
    BY <1>1, <1>2 DEF Last
  <2>2. Front(r)[1] = r[1] /\ Front(r) # <<>>
    BY <1>1, <2>1 DEF Front
  <2> QED BY <1>1, <2>2 DEF CleanName, isParentPath
<1>3. CASE Last(r) = ".."
  BY <1>1, <1>3 DEF CleanName, isParentPath
<1> QED BY <1>2, <1>3

LEMMA CleanType ==
  ASSUME NEW S, NEW r \in Seq(S), NEW m \in S, NEW abs
  PROVE  CleanName(r, m, abs) \in Seq(S)
<1>1. /\ r # <<>> => Front(r) \in Seq(S)
      /\ Append(r, m) \in Seq(S)
  BY DEF Front
<1> QED BY <1>1 DEF CleanName

LEMMA CleanBelow ==
  ASSUME NEW S, NEW z \in Seq(S \ {".."}), NEW r \in Seq(S \ {".."}), NEW m \in S,
         ~isParentPath(CleanName(r, m, FALSE))
  PROVE  /\ CleanName(r, m, FALSE) \in Seq(S \ {".."})
         /\ CleanName(z \o r, m, TRUE) = z \o CleanName(r, m, FALSE)
<1>1. CASE m = "."
  BY <1>1 DEF CleanName
<1>2. CASE m = ".." /\ r = <<>>
  <2>1. CleanName(r, m, FALSE) = Append(<<>>, m)
    BY <1>2 DEF CleanName
  <2>2. Append(<<>>, m) # <<>> /\ Append(<<>>, m)[1] = m
    OBVIOUS
  <2> QED BY <1>2, <2>1, <2>2 DEF isParentPath
<1>3. CASE m = ".." /\ r # <<>>
  <2>1. Last(r) # ".." /\ Front(r) \in Seq(S \ {".."})
    BY <1>3 DEF Last, Front
  <2>2. z \o r # <<>> /\ Last(z \o r) = Last(r) /\ Front(z \o r) = z \o Front(r)
    BY <1>3 DEF Last, Front
  <2>3. CleanName(r, m, FALSE) = Front(r) /\ CleanName(z \o r, m, TRUE) = Front(z \o r)
    BY <1>3, <2>1, <2>2 DEF CleanName
  <2> QED BY <2>1, <2>2, <2>3
<1>4. CASE m # "." /\ m # ".."
  <2>1. /\ CleanName(r, m, FALSE) = Append(r, m)
        /\ CleanName(z \o r, m, TRUE) = Append(z \o r, m)
    BY <1>4 DEF CleanName
  <2>2. Append(r, m) \in Seq(S \ {".."}) /\ Append(z \o r, m) = z \o Append(r, m)
    BY <1>4
  <2> QED BY <2>1, <2>2
<1> QED BY <1>1, <1>2, <1>3, <1>4

\* A path that is absolute loses all of its "..", ...
LEMMA CleanedAbsolute ==
  ASSUME NEW S, NEW s \in Seq(S)
  PROVE  CleanNames(s, TRUE) \in Seq(S \ {".."}) /\ CleanNames(s, TRUE) \in Seq(S)
<1>1. PICK g : /\ g[0] = <<>> /\ g[Len(s)] = CleanNames(s, TRUE)
               /\ \A i \in 1 .. Len(s) : g[i] = CleanName(g[i - 1], s[i], TRUE)
  BY CleanSteps
<1> DEFINE T == {i \in 0 .. Len(s) : g[i] \in Seq(S \ {".."})}
<1>2. Len(s) \in Nat /\ \A i \in 1 .. Len(s) : s[i] \in S
  OBVIOUS
<1>3. 0 \in T
  <2>1. <<>> \in Seq(S \ {".."}) /\ 0 \in 0 .. Len(s)
    BY <1>2
  <2> QED BY <1>1, <2>1
<1>4. ASSUME NEW i \in 1 .. Len(s), i - 1 \in T PROVE i \in T
  <2>1. g[i - 1] \in Seq(S \ {".."}) /\ s[i] \in S /\ i \in 0 .. Len(s)
    BY <1>2, <1>4
  <2>2. CleanName(g[i - 1], s[i], TRUE) \in Seq(S \ {".."})
    BY <2>1, CleanAbsolute
  <2> QED BY <1>1, <2>1, <2>2
<1> HIDE DEF T
<1>5. Len(s) \in T
  BY <1>2, <1>3, <1>4, Upward
<1> DEFINE z == CleanNames(s, TRUE)
<1>6. z \in Seq(S \ {".."})
  BY <1>1, <1>5 DEF T
<1> HIDE DEF z
<1>7. z \in Seq(S)
  BY <1>6
<1> QED BY <1>6, <1>7 DEF z

\* ... and one of plain names nothing.
LEMMA CleanedPlain ==
  ASSUME NEW S, NEW s \in Seq(S \ {".", ".."})
  PROVE  CleanNames(s, FALSE) = s /\ ~isParentPath(s) /\ s \in Seq(S)
<1>1. PICK g : /\ g[0] = <<>> /\ g[Len(s)] = CleanNames(s, FALSE)
               /\ \A i \in 1 .. Len(s) : g[i] = CleanName(g[i - 1], s[i], FALSE)
  BY CleanSteps
<1> DEFINE T == {i \in 0 .. Len(s) : g[i] = SubSeq(s, 1, i)}
<1>2. Len(s) \in Nat /\ \A i \in 1 .. Len(s) : s[i] # "." /\ s[i] # ".."
  OBVIOUS
<1>3. 0 \in T
  <2>1. SubSeq(s, 1, 0) = <<>> /\ 0 \in 0 .. Len(s)
    BY <1>2
  <2> QED BY <1>1, <2>1
<1>4. ASSUME NEW i \in 1 .. Len(s), i - 1 \in T PROVE i \in T
  <2>1. g[i] = Append(SubSeq(s, 1, i - 1), s[i])
    BY <1>1, <1>2, <1>4 DEF CleanName
  <2>2. Append(SubSeq(s, 1, i - 1), s[i]) = SubSeq(s, 1, i)
    OBVIOUS
  <2> QED BY <2>1, <2>2
<1> HIDE DEF T
<1>5. Len(s) \in T
  BY <1>2, <1>3, <1>4, Upward
<1>6. SubSeq(s, 1, Len(s)) = s /\ s \in Seq(S)
  OBVIOUS
<1>7. ~isParentPath(s)
  BY <1>2 DEF isParentPath
<1> QED BY <1>1, <1>5, <1>6, <1>7 DEF T

\* Cleaning goes through the first names and then the others.
LEMMA CleanedUpTo ==
  ASSUME NEW S, NEW s \in Seq(S), NEW t \in Seq(S), NEW abs, NEW g, g[0] = <<>>,
         \A i \in 1 .. Len(s \o t) : g[i] = CleanName(g[i - 1], (s \o t)[i], abs)
  PROVE  g[Len(s)] = CleanNames(s, abs)
<1>1. PICK h : /\ h[0] = <<>> /\ h[Len(s)] = CleanNames(s, abs)
               /\ \A i \in 1 .. Len(s) : h[i] = CleanName(h[i - 1], s[i], abs)
  BY CleanSteps
<1> DEFINE T == {i \in 0 .. Len(s) : g[i] = h[i]}
<1>2. /\ Len(s) \in Nat
      /\ \A i \in 1 .. Len(s) : i \in 1 .. Len(s \o t) /\ (s \o t)[i] = s[i]
  OBVIOUS
<1>3. 0 \in T
  BY <1>1, <1>2
<1>4. ASSUME NEW i \in 1 .. Len(s), i - 1 \in T PROVE i \in T
  <2>1. g[i] = CleanName(g[i - 1], s[i], abs)
    BY <1>2
  <2>2. g[i - 1] = h[i - 1] /\ i \in 0 .. Len(s)
    BY <1>4
  <2> QED BY <1>1, <2>1, <2>2
<1> HIDE DEF T
<1>5. Len(s) \in T
  BY <1>2, <1>3, <1>4, Upward
<1> QED BY <1>1, <1>5 DEF T

\* A relative path that does not leave its root is appended to it.
LEMMA CleanedBelow ==
  ASSUME NEW S, NEW s \in Seq(S), NEW t \in Seq(S), ~isParentPath(CleanNames(t, FALSE))
  PROVE  /\ CleanNames(t, FALSE) \in Seq(S)
         /\ CleanNames(s \o t, TRUE) = CleanNames(s, TRUE) \o CleanNames(t, FALSE)
<1> DEFINE z == CleanNames(s, TRUE)
<1>1. PICK h : /\ h[0] = <<>> /\ h[Len(t)] = CleanNames(t, FALSE)
               /\ \A i \in 1 .. Len(t) : h[i] = CleanName(h[i - 1], t[i], FALSE)
  BY CleanSteps
<1>2. s \o t \in Seq(S) /\ Len(s \o t) = Len(s) + Len(t) /\ Len(s) \in Nat /\ Len(t) \in Nat
  OBVIOUS
<1>3. PICK g : /\ g[0] = <<>> /\ g[Len(s \o t)] = CleanNames(s \o t, TRUE)
               /\ \A i \in 1 .. Len(s \o t) : g[i] = CleanName(g[i - 1], (s \o t)[i], TRUE)
  BY <1>2, CleanSteps
<1>4. g[Len(s)] = z
  BY <1>3, CleanedUpTo
<1>5. z \in Seq(S \ {".."})
  BY CleanedAbsolute
<1>6. \A i \in 1 .. Len(t) : t[i] \in S
  OBVIOUS
<1>7. \A i \in 1 .. Len(t) :
        g[Len(s) + i] = CleanName(g[Len(s) + (i - 1)], t[i], TRUE)
  <2> TAKE i \in 1 .. Len(t)
  <2>1. /\ Len(s) + i \in 1 .. Len(s \o t) /\ (s \o t)[Len(s) + i] = t[i]
        /\ (Len(s) + i) - 1 = Len(s) + (i - 1)
    OBVIOUS
  <2> QED BY <1>3, <2>1
<1> HIDE DEF z
<1> DEFINE Good(i) == h[i] \in Seq(S) /\ (~isParentPath(h[i]) =>
                        h[i] \in Seq(S \ {".."}) /\ g[Len(s) + i] = z \o h[i])
           T == {i \in 0 .. Len(t) : Good(i)}
<1>8. 0 \in T
  <2>1. <<>> \in Seq(S) /\ <<>> \in Seq(S \ {".."}) /\ z \o <<>> = z
    BY <1>5
  <2>2. h[0] = <<>> /\ g[Len(s) + 0] = z /\ 0 \in 0 .. Len(t)
    BY <1>1, <1>2, <1>4
  <2> QED BY <2>1, <2>2
<1>9. ASSUME NEW i \in 1 .. Len(t), i - 1 \in T PROVE i \in T
  <2>1. Good(i - 1) /\ i \in 0 .. Len(t)
    BY <1>9
  <2>2. h[i] = CleanName(h[i - 1], t[i], FALSE) /\ h[i] \in Seq(S)
    BY <1>1, <1>6, <2>1, CleanType
  <2>3. ASSUME ~isParentPath(h[i])
        PROVE  h[i] \in Seq(S \ {".."}) /\ g[Len(s) + i] = z \o h[i]
    <3>1. ~isParentPath(h[i - 1])
      BY <1>6, <2>1, <2>2, <2>3, CleanOutside
    <3>2. /\ h[i - 1] \in Seq(S \ {".."})
          /\ g[Len(s) + (i - 1)] = z \o h[i - 1]
      BY <2>1, <3>1
    <3> DEFINE r == h[i - 1]
               m == t[i]
    <3>3. /\ g[Len(s) + i] = CleanName(z \o r, m, TRUE) /\ h[i] = CleanName(r, m, FALSE)
          /\ r \in Seq(S \ {".."}) /\ m \in S /\ ~isParentPath(CleanName(r, m, FALSE))
      BY <1>6, <1>7, <2>2, <2>3, <3>2
    <3> HIDE DEF r, m
    <3>4. /\ CleanName(r, m, FALSE) \in Seq(S \ {".."})
          /\ CleanName(z \o r, m, TRUE) = z \o CleanName(r, m, FALSE)
      BY <1>5, <3>3, CleanBelow
    <3> QED BY <3>3, <3>4
  <2> QED BY <2>1, <2>2, <2>3
<1> HIDE DEF T
<1>10. Len(t) \in T
  BY <1>2, <1>8, <1>9, Upward
<1>11. Good(Len(t))
  BY <1>10 DEF T
<1>12. /\ h[Len(t)] \in Seq(S)
       /\ g[Len(s) + Len(t)] = z \o h[Len(t)]
  BY <1>1, <1>11
<1> QED BY <1>1, <1>2, <1>3, <1>12 DEF z

-----------------------------------------------------------------------------
\* As much of two paths is the same as both have from their start on.
LEMMA CommonPrefix ==
  ASSUME NEW S, NEW a \in Seq(S), NEW p \in Seq(S)
  PROVE  LET n == Len(LongestCommonPrefix({a, p}))
         IN n \in 0 .. Len(a) /\ (n = Len(a) <=> IsPrefix(a, p))
<1> DEFINE C == CommonPrefixes({a, p})
           c == LongestCommonPrefix({a, p})
           T == {n \in 1 .. Len(a) + 1 : SubSeq(a, 1, n - 1) \in C}
<1>1. Len(a) \in Nat /\ Len(p) \in Nat /\ a = SubSeq(a, 1, Len(a)) /\ p = SubSeq(p, 1, Len(p))
  OBVIOUS
<1>2. \A s : s \in C <=> /\ \E t \in {a, p} : \E l \in 0 .. Len(t) : s = SubSeq(t, 1, l)
                         /\ IsPrefix(s, a) /\ IsPrefix(s, p)
  BY DEF CommonPrefixes, Prefixes
<1>3. \A s \in C : /\ Len(s) \in 0 .. Len(a) /\ s = SubSeq(a, 1, Len(s))
                   /\ IsPrefix(s, p)
  <2> SUFFICES ASSUME NEW s \in C
               PROVE  Len(s) \in 0 .. Len(a) /\ s = SubSeq(a, 1, Len(s)) /\ IsPrefix(s, p)
    OBVIOUS
  <2>1. s \in Seq(S)
    <3>1. PICK t \in {a, p} : \E l \in 0 .. Len(t) : s = SubSeq(t, 1, l)
      BY <1>2
    <3>2. t \in Seq(S)
      OBVIOUS
    <3> QED BY <3>1, <3>2
  <2>2. IsPrefix(s, a) /\ IsPrefix(s, p)
    BY <1>2
  <2>3. SubSeq(s, 1, Len(s)) = s /\ Len(s) \in Nat
    BY <2>1
  <2> QED BY <1>1, <2>2, <2>3 DEF IsPrefix
<1>4. <<>> \in C
  <2>1. SubSeq(a, 1, 0) = <<>> /\ 0 \in 0 .. Len(a) /\ SubSeq(p, 1, 0) = <<>>
        /\ SubSeq(<<>>, 1, 0) = <<>> /\ Len(<<>>) = 0
    BY <1>1
  <2>2. IsPrefix(<<>>, a) /\ IsPrefix(<<>>, p)
    BY <1>1, <2>1 DEF IsPrefix
  <2> QED BY <1>2, <2>1, <2>2
<1> HIDE DEF C
<1>5. c \in C /\ \A s \in C : Len(s) <= Len(c)
  <2>1. T \subseteq 1 .. Len(a) + 1 /\ T # {}
    <3>1. 1 \in 1 .. Len(a) + 1 /\ SubSeq(a, 1, 1 - 1) = <<>>
      BY <1>1
    <3> QED BY <1>4, <3>1
  <2>2. PICK m \in T : \A n \in T : n <= m
    <3>1. Len(a) + 1 \in Nat
      BY <1>1
    <3> HIDE DEF T
    <3> QED BY <2>1, <3>1, Greatest
  <2>3. SubSeq(a, 1, m - 1) \in C /\ m \in 1 .. Len(a) + 1
    OBVIOUS
  <2>4. Len(SubSeq(a, 1, m - 1)) = m - 1
    BY <1>1, <2>3
  <2>5. ASSUME NEW s \in C PROVE Len(s) <= m - 1
    <3>1. Len(s) \in 0 .. Len(a) /\ s = SubSeq(a, 1, Len(s))
      BY <1>3
    <3>2. Len(s) + 1 \in 1 .. Len(a) + 1 /\ (Len(s) + 1) - 1 = Len(s)
      BY <1>1, <3>1
    <3>3. Len(s) + 1 \in T
      BY <3>1, <3>2
    <3>4. Len(s) + 1 <= m
      BY <2>2, <3>3
    <3> QED BY <1>1, <2>3, <3>1, <3>4
  <2>6. \E l \in C : \A s \in C : Len(s) <= Len(l)
    BY <2>3, <2>4, <2>5
  <2> QED BY <2>6 DEF LongestCommonPrefix, C
<1> HIDE DEF c, T
<1>6. Len(c) \in 0 .. Len(a) /\ c = SubSeq(a, 1, Len(c)) /\ IsPrefix(c, p)
  BY <1>3, <1>5
<1>7. Len(c) = Len(a) => IsPrefix(a, p)
  BY <1>1, <1>6
<1>8. ASSUME IsPrefix(a, p) PROVE Len(c) = Len(a)
  <2>1. IsPrefix(a, a)
    BY <1>1 DEF IsPrefix
  <2>2. Len(a) \in 0 .. Len(a)
    BY <1>1
  <2>3. a \in C
    BY <1>1, <1>2, <1>8, <2>1, <2>2
  <2>4. Len(a) <= Len(c)
    BY <1>5, <2>3
  <2>5. Len(c) \in 0 .. Len(a)
    BY <1>6
  <2> QED BY <1>1, <2>4, <2>5
<1> QED BY <1>6, <1>7, <1>8 DEF c

\* filepath.Rel of a path below goes down, and of any other begins with "..".
LEMMA RelOf ==
  ASSUME NEW S, NEW a \in Seq(S), NEW p \in Seq(S)
  PROVE  /\ IsPrefix(a, p) => Rel(a, p) = SubSeq(p, Len(a) + 1, Len(p))
         /\ ~IsPrefix(a, p) => isParentPath(Rel(a, p))
<1> DEFINE n == Len(LongestCommonPrefix({a, p}))
           up == [i \in 1 .. Len(a) - n |-> ".."]
           down == SubSeq(p, n + 1, Len(p))
<1>1. n \in 0 .. Len(a) /\ (n = Len(a) <=> IsPrefix(a, p)) /\ Len(a) \in Nat /\ Len(p) \in Nat
  BY CommonPrefix
<1>2. Rel(a, p) = up \o down
  BY DEF Rel
<1> HIDE DEF n
<1>3. /\ down \in Seq(S) /\ up \in Seq({".."}) /\ Len(up) = Len(a) - n
      /\ \A i \in 1 .. Len(a) - n : up[i] = ".."
  BY <1>1
<1> HIDE DEF up, down
<1>4. CASE n = Len(a)
  <2>1. up = <<>>
    BY <1>1, <1>3, <1>4
  <2>2. up \o down = down
    BY <1>3, <2>1
  <2> QED BY <1>1, <1>2, <1>4, <2>2 DEF down
<1>5. CASE n # Len(a)
  <2>1. 1 \in 1 .. Len(up)
    BY <1>1, <1>3, <1>5
  <2>2. (up \o down)[1] = up[1] /\ up \o down # <<>>
    BY <1>3, <2>1
  <2> QED BY <1>1, <1>2, <1>3, <1>5, <2>1, <2>2 DEF isParentPath
<1> QED BY <1>4, <1>5

\* A path is below an entry just if the relative path begins with the entry.
LEMMA RelBelow ==
  ASSUME NEW S, NEW a \in Seq(S), NEW p \in Seq(S), NEW e \in Seq(S),
         e # <<>>, ~isParentPath(e)
  PROVE  IsPrefix(e, Rel(a, p)) <=> IsPrefix(a \o e, p)
<1>1. /\ Len(a) \in Nat /\ Len(p) \in Nat /\ Len(e) \in Nat /\ Len(e) # 0
      /\ a \o e \in Seq(S) /\ Len(a \o e) = Len(a) + Len(e)
  OBVIOUS
<1>2. \A s \in Seq(S), t \in Seq(S) :
        IsPrefix(s, t) <=> Len(s) <= Len(t) /\ \A i \in 1 .. Len(s) : s[i] = t[i]
  <2> TAKE s \in Seq(S), t \in Seq(S)
  <2>1. SubSeq(s, 1, Len(s)) = s
    OBVIOUS
  <2>2. CASE Len(s) <= Len(t)
    <3>1. /\ SubSeq(t, 1, Len(s)) \in Seq(S) /\ Len(SubSeq(t, 1, Len(s))) = Len(s)
          /\ \A i \in 1 .. Len(s) : SubSeq(t, 1, Len(s))[i] = t[i]
      BY <2>2
    <3> QED BY <2>1, <2>2, <3>1 DEF IsPrefix
  <2> QED BY <2>2 DEF IsPrefix
<1>3. CASE IsPrefix(a, p)
  <2> DEFINE r == SubSeq(p, Len(a) + 1, Len(p))
  <2>1. Rel(a, p) = r
    BY <1>3, RelOf
  <2>2. Len(a) <= Len(p) /\ \A i \in 1 .. Len(a) : a[i] = p[i]
    BY <1>2, <1>3
  <2>3. /\ r \in Seq(S) /\ Len(r) = Len(p) - Len(a)
        /\ \A i \in 1 .. Len(r) : r[i] = p[Len(a) + i]
    BY <1>1, <2>2
  <2> HIDE DEF r
  <2>4. IsPrefix(e, r) <=> Len(e) <= Len(r) /\ \A i \in 1 .. Len(e) : e[i] = r[i]
    BY <1>2, <2>3
  <2>5. IsPrefix(a \o e, p) <=> /\ Len(a) + Len(e) <= Len(p)
                                /\ \A i \in 1 .. Len(a) + Len(e) : (a \o e)[i] = p[i]
    BY <1>1, <1>2
  <2>6. /\ \A i \in 1 .. Len(a) : (a \o e)[i] = a[i]
        /\ \A i \in 1 .. Len(e) : (a \o e)[Len(a) + i] = e[i]
        /\ \A i \in 1 .. Len(e) : Len(a) + i \in 1 .. Len(a) + Len(e)
        /\ \A i \in 1 .. Len(a) + Len(e) :
             i \in 1 .. Len(a) \/ (i - Len(a) \in 1 .. Len(e) /\ Len(a) + (i - Len(a)) = i)
    BY <1>1
  <2>7. Len(e) <= Len(r) <=> Len(a) + Len(e) <= Len(p)
    BY <1>1, <2>3
  <2>8. ASSUME Len(e) <= Len(r)
        PROVE  (\A i \in 1 .. Len(e) : e[i] = r[i])
                 <=> \A i \in 1 .. Len(a) + Len(e) : (a \o e)[i] = p[i]
    <3>1. \A i \in 1 .. Len(e) : i \in 1 .. Len(r)
      BY <1>1, <2>3, <2>8
    <3>2. \A i \in 1 .. Len(e) : r[i] = p[Len(a) + i]
      BY <2>3, <3>1
    <3>3. ASSUME \A i \in 1 .. Len(e) : e[i] = r[i], NEW i \in 1 .. Len(a) + Len(e)
          PROVE  (a \o e)[i] = p[i]
      <4>1. CASE i \in 1 .. Len(a)
        BY <2>2, <2>6, <4>1
      <4>2. CASE i - Len(a) \in 1 .. Len(e) /\ Len(a) + (i - Len(a)) = i
        BY <2>6, <3>2, <3>3, <4>2
      <4> QED BY <2>6, <4>1, <4>2
    <3>4. ASSUME \A i \in 1 .. Len(a) + Len(e) : (a \o e)[i] = p[i], NEW i \in 1 .. Len(e)
          PROVE  e[i] = r[i]
      BY <2>6, <3>2, <3>4
    <3> QED BY <3>3, <3>4
  <2> QED BY <2>1, <2>4, <2>5, <2>7, <2>8
<1>4. CASE ~IsPrefix(a, p)
  <2>1. ~IsPrefix(a \o e, p)
    <3> SUFFICES ASSUME IsPrefix(a \o e, p) PROVE FALSE
      OBVIOUS
    <3>1. Len(a) + Len(e) <= Len(p) /\ \A i \in 1 .. Len(a) + Len(e) : (a \o e)[i] = p[i]
      BY <1>1, <1>2
    <3>2. \A i \in 1 .. Len(a) : i \in 1 .. Len(a) + Len(e) /\ (a \o e)[i] = a[i]
      BY <1>1
    <3>3. Len(a) <= Len(p) /\ \A i \in 1 .. Len(a) : a[i] = p[i]
      BY <1>1, <3>1, <3>2
    <3>4. IsPrefix(a, p)
      BY <1>2, <3>3
    <3> QED BY <1>4, <3>4
  <2>2. isParentPath(Rel(a, p))
    BY <1>4, RelOf
  <2>3. ~IsPrefix(e, Rel(a, p))
    <3> SUFFICES ASSUME IsPrefix(e, Rel(a, p)) PROVE FALSE
      OBVIOUS
    <3> DEFINE r == Rel(a, p)
    <3>1. r # <<>> /\ r[1] = ".."
      BY <2>2 DEF isParentPath
    <3>2. r \in Seq(S \cup {".."})
      BY <1>1, CommonPrefix DEF Rel
    <3> HIDE DEF r
    <3>3. SubSeq(e, 1, Len(e)) = SubSeq(r, 1, Len(e)) /\ Len(e) <= Len(r)
      BY DEF IsPrefix, r
    <3>4. SubSeq(e, 1, Len(e))[1] = e[1] /\ SubSeq(r, 1, Len(e))[1] = r[1]
      BY <1>1, <3>2, <3>3
    <3>5. e[1] = ".."
      BY <3>1, <3>3, <3>4
    <3> QED BY <3>5 DEF isParentPath
  <2> QED BY <2>1, <2>3
<1> QED BY <1>3, <1>4

\* Plain names are names.
LEMMA PlainSeq ==
  /\ \A s \in Seq(PlainNames) : s \in Seq(STRING)
  /\ <<>> \in Seq(STRING)
<1>1. ASSUME NEW S, NEW x PROVE (\A s \in Seq(S \ x) : s \in Seq(S)) /\ <<>> \in Seq(S)
  OBVIOUS
<1> QED BY <1>1, Zenon DEF PlainNames

\* Sequences may be joined in any order.
LEMMA Joined ==
  ASSUME NEW S, NEW x \in Seq(S), NEW y \in Seq(S), NEW z \in Seq(S)
  PROVE  x \o y \in Seq(S) /\ x \o (y \o z) = (x \o y) \o z /\ <<>> \o x = x
OBVIOUS

\* What is below the root is below its absolute path.
LEMMA AbsoluteBelow ==
  ASSUME NEW root \in Paths, NEW n \in Seq(STRING), ~isParentPath(CleanNames(n, FALSE))
  PROVE  /\ AbsNames(root) \in Seq(STRING) /\ CleanNames(n, FALSE) \in Seq(STRING)
         /\ AbsNames([root EXCEPT !.names = @ \o n]) = AbsNames(root) \o CleanNames(n, FALSE)
<1> DEFINE base == IF root.abs THEN <<>> ELSE Cwd
           below == [root EXCEPT !.names = @ \o n]
<1>1. Cwd \in Seq(STRING) /\ root.names \in Seq(STRING) /\ <<>> \in Seq(STRING)
  BY CwdAssumption, PlainSeq DEF Paths
<1>2. base \in Seq(STRING) /\ base \o root.names \in Seq(STRING)
  <2>1. base \in Seq(STRING)
    BY <1>1, Zenon
  <2> QED BY <1>1, <2>1, Joined, Zenon
<1>3. below.names = root.names \o n /\ below.abs = root.abs
  BY DEF Paths
<1>4. AbsNames(root) = CleanNames(base \o root.names, TRUE)
  BY DEF AbsNames
<1>5. AbsNames(below) = CleanNames(base \o (root.names \o n), TRUE)
  BY <1>3 DEF AbsNames
<1> HIDE DEF base, below
<1>6. base \o (root.names \o n) = (base \o root.names) \o n
  <2> DEFINE T == STRING
  <2>1. base \in Seq(T) /\ root.names \in Seq(T) /\ n \in Seq(T)
    BY <1>1, <1>2, Zenon
  <2> HIDE DEF T
  <2>2. \A x, y, z \in Seq(T) : x \o (y \o z) = (x \o y) \o z
    BY Joined
  <2> QED BY <2>1, <2>2, Zenon
<1>7. /\ CleanNames(n, FALSE) \in Seq(STRING)
      /\ CleanNames((base \o root.names) \o n, TRUE)
           = CleanNames(base \o root.names, TRUE) \o CleanNames(n, FALSE)
      /\ CleanNames(base \o root.names, TRUE) \in Seq(STRING)
  BY <1>2, CleanedBelow, CleanedAbsolute, Zenon
<1> QED BY <1>4, <1>5, <1>6, <1>7, Zenon DEF below

\* Where an event happened below the root is what relativePath makes of it.
LEMMA EventBelow ==
  ASSUME NEW root \in Paths, NEW d \in Seq(PlainNames)
  PROVE  LET path == [root EXCEPT !.names = @ \o d]
         IN /\ Rel(AbsNames(root), AbsNames(path)) = d /\ relativePath(root, path) = d
            /\ AbsNames(path) \in Seq(STRING)
<1> DEFINE a == AbsNames(root)
           path == [root EXCEPT !.names = @ \o d]
<1>1. d \in Seq(STRING) /\ CleanNames(d, FALSE) = d /\ ~isParentPath(d)
  BY CleanedPlain, Zenon DEF PlainNames
<1>2. a \in Seq(STRING) /\ AbsNames(path) = a \o d
  BY <1>1, AbsoluteBelow
<1> HIDE DEF a, path
<1>3. a \o d \in Seq(STRING) /\ IsPrefix(a, a \o d)
  BY <1>1, <1>2 DEF IsPrefix
<1>4. Rel(a, a \o d) = SubSeq(a \o d, Len(a) + 1, Len(a \o d))
  BY <1>2, <1>3, RelOf
<1>5. SubSeq(a \o d, Len(a) + 1, Len(a \o d)) = d
  BY <1>1, <1>2
<1>6. relativePath(root, path) = d
  BY <1>1, <1>2, <1>4, <1>5 DEF relativePath, a
<1> QED BY <1>2, <1>3, <1>4, <1>5, <1>6 DEF a, path

\* The path of every event is compared by where it is, seen from the root.
LEMMA EventRelative ==
  ASSUME NEW root \in Paths, NEW path \in EventPaths(root)
  PROVE  /\ AbsNames(root) \in Seq(STRING) /\ AbsNames(path) \in Seq(STRING)
         /\ relativePath(root, path) = Rel(AbsNames(root), AbsNames(path))
<1>1. AbsNames(root) \in Seq(STRING)
  <2>1. root.names \in Seq(STRING)
    BY DEF Paths
  <2>2. (IF root.abs THEN <<>> ELSE Cwd) \in Seq(STRING)
    BY CwdAssumption, PlainSeq, Zenon
  <2>3. (IF root.abs THEN <<>> ELSE Cwd) \o root.names \in Seq(STRING)
    BY <2>1, <2>2, Joined, Zenon
  <2> QED BY <2>3, CleanedAbsolute, Zenon DEF AbsNames
<1>2. ASSUME NEW d \in EventDirs, path = [root EXCEPT !.names = @ \o d]
      PROVE  /\ AbsNames(path) \in Seq(STRING)
             /\ relativePath(root, path) = Rel(AbsNames(root), AbsNames(path))
  BY <1>2, EventBelow, EventAssumption
<1>3. ASSUME NEW s \in Seq(STRING), path = Absolute(s)
      PROVE  /\ AbsNames(path) \in Seq(STRING)
             /\ relativePath(root, path) = Rel(AbsNames(root), AbsNames(path))
  <2>1. path.abs /\ path.names = s
    BY <1>3 DEF Absolute
  <2>2. <<>> \o s = s
    OBVIOUS
  <2>3. AbsNames(path) = CleanNames(s, TRUE)
    BY <2>1, <2>2 DEF AbsNames
  <2>4. AbsNames(path) \in Seq(STRING)
    BY <2>3, CleanedAbsolute
  <2> QED BY <2>1, <2>4 DEF relativePath
<1>4. \A d \in EventDirs : d \in Seq(STRING) /\ Cwd \o d \in Seq(STRING)
  BY EventAssumption, CwdAssumption DEF PlainNames
<1> QED BY <1>1, <1>2, <1>3, <1>4 DEF EventPaths

\* The list of entries ignores what it says.
LEMMA IgnoresBelow ==
  ASSUME NEW root \in Paths, NEW entries \in SUBSET Seq(STRING), NEW path \in EventPaths(root)
  PROVE  ShouldIgnore(root, entries, path) <=> Below(root, entries, path)
<1> DEFINE a == AbsNames(root)
           p == AbsNames(path)
           inside(e) == e # <<>> /\ ~isParentPath(e)
<1>1. a \in Seq(STRING) /\ p \in Seq(STRING) /\ relativePath(root, path) = Rel(a, p)
  BY EventRelative
<1>2. ASSUME NEW n \in entries, inside(CleanNames(n, FALSE))
      PROVE  /\ AbsNames([root EXCEPT !.names = @ \o n]) = a \o CleanNames(n, FALSE)
             /\ IsPrefix(CleanNames(n, FALSE), Rel(a, p))
                  <=> IsPrefix(a \o CleanNames(n, FALSE), p)
  <2>1. /\ CleanNames(n, FALSE) \in Seq(STRING)
        /\ AbsNames([root EXCEPT !.names = @ \o n]) = a \o CleanNames(n, FALSE)
    BY <1>2, AbsoluteBelow
  <2> HIDE DEF a, p
  <2> QED BY <1>1, <1>2, <2>1, RelBelow
<1>3. ShouldIgnore(root, entries, path)
        <=> \E n \in entries : /\ inside(CleanNames(n, FALSE))
                               /\ IsPrefix(CleanNames(n, FALSE), Rel(a, p))
  BY <1>1 DEF ShouldIgnore, Ignored
<1>4. Below(root, entries, path)
        <=> \E n \in entries : /\ inside(CleanNames(n, FALSE))
                               /\ IsPrefix(AbsNames([root EXCEPT !.names = @ \o n]), p)
  BY DEF Below
<1> HIDE DEF a, p, inside
<1> QED BY <1>2, <1>3, <1>4

\* A file in the root that is on the list is ignored.
LEMMA EntryIgnored ==
  ASSUME NEW root \in Paths, NEW n \in PlainNames, NEW entries, <<n>> \in entries
  PROVE  ShouldIgnore(root, entries, [root EXCEPT !.names = @ \o <<n>>])
<1> DEFINE path == [root EXCEPT !.names = @ \o <<n>>]
<1>1. <<n>> \in Seq(PlainNames) /\ <<n>> # <<>> /\ <<n>>[1] = n /\ n # ".."
  BY DEF PlainNames
<1>2. CleanNames(<<n>>, FALSE) = <<n>> /\ ~isParentPath(<<n>>)
  BY <1>1, CleanedPlain DEF PlainNames, isParentPath
<1>3. <<n>> \in Ignored(entries)
  BY <1>1, <1>2 DEF Ignored
<1>4. relativePath(root, path) = <<n>>
  BY <1>1, EventBelow
<1>5. IsPrefix(<<n>>, <<n>>)
  BY DEF IsPrefix
<1> HIDE DEF path
<1> QED BY <1>3, <1>4, <1>5 DEF ShouldIgnore, path

-----------------------------------------------------------------------------
\* For every file and command line: the variables are in their ranges in every
\* phase, and a group of the statistics never holds more than there are keys of it.
THEOREM TypesHold == Spec => []TypeOK
<1>1. Inv => TypeOK
  BY DedupTyped DEF Inv, TypeOK
<1> QED BY <1>1, AlwaysInv, PTL

\* For every file and command line: what is normalised stays as it is when it
\* is normalised again (LoadConfig, loadConfig).
THEOREM StaysNormalized == Spec => []NormalizedOnce
<1>1. Inv => NormalizedOnce
  BY SettledStays DEF Inv, Loading, Configuring, NormalizedOnce
<1> QED BY <1>1, AlwaysInv, PTL

\* For every file and command line and every width of a word: each poller has a
\* process of its own and, unless its interval is too large for a Duration, a
\* ticker that does not panic (normalizeProcessConfig, normalizeNetworkConfig).
THEOREM TickersRun == Spec => []TickersPositive
<1>1. Inv => TickersPositive
  <2> SUFFICES ASSUME Inv, phase = "configured" PROVE TickersPositive
    BY DEF TickersPositive
  <2>1. Settled(config) /\ Positive(config) /\ config \in Configurations
    BY DEF Inv, Configuring, Settled
  <2>2. ASSUME NEW ms \in Intervals PROVE ms \in Int /\ ms > 0
    <3>1. CASE config.mode = "process"
      <4>1. ms \in {p.interval : p \in ToSet(config.processes)}
        BY <2>2, <3>1 DEF Intervals
      <4>2. PICK i \in DOMAIN config.processes : ms = config.processes[i].interval
        BY <4>1 DEF ToSet
      <4>3. config.processes \in Seq(Processes)
        BY <2>1 DEF Configurations
      <4>4. config.processes[i] \in Processes
        BY <4>2, <4>3
      <4> QED BY <2>1, <3>1, <4>2, <4>4 DEF Positive, Processes
    <3>2. CASE config.mode = "network"
      <4>1. ms = config.net.interval
        BY <2>2, <3>2 DEF Intervals
      <4>2. config.net \in Networks
        BY <2>1, <3>2 DEF Settled, Configurations
      <4> QED BY <2>1, <3>2, <4>1, <4>2 DEF Positive, Networks
    <3>3. config.mode = "directory" => FALSE
      BY <2>2 DEF Intervals
    <3> QED BY <2>1, <3>1, <3>2, <3>3 DEF Settled
  <2>3. \A ms \in Intervals : Fits(ms) => Duration(ms) > 0
    BY <2>2, DurationOf
  <2> QED BY <2>1, <2>3 DEF TickersPositive, Positive
<1> QED BY <1>1, AlwaysInv, PTL

\* For every file and command line: -pid puts its processes in the place of the
\* file's, and the file's other fields still apply, but for the poll interval, a
\* list of events under another key, and the netMonitor with -dns (loadConfig).
THEOREM PidFlagWins == Spec => []PidOverrides
<1>1. Inv => PidOverrides
  BY DEF Inv, Configuring, PidOverrides
<1> QED BY <1>1, AlwaysInv, PTL

\* For every file with a list under `events` or no such key, and every command line:
\* the filter is what the file asks for or the default of the mode, and nothing else is recorded (NormalizeConfig, main).
THEOREM FilterHonours == Spec => []EventsHonoured
<1>1. Inv => EventsHonoured
  BY DEF Inv
<1> QED BY <1>1, AlwaysInv, PTL

\* For all operations and keys: a group of the statistics holds each key once, the
\* latest last (DedupStatsComponent.Add).
THEOREM LatestLast == Spec => []MostRecentLast
<1>1. Inv => MostRecentLast
  BY DEF Inv, DedupInv
<1> QED BY <1>1, AlwaysInv, PTL

\* For all operations and keys: after a write that succeeds the file shows what the
\* process has recorded, whatever failed before (printRecord).
THEOREM FileShows == Spec => []FileCurrent
<1>1. Inv => FileCurrent
  BY DEF Inv, DedupInv
<1> QED BY <1>1, AlwaysInv, PTL

\* For every root, list and place of an event, wherever the program was started and
\* however they are written: just what lies at or below an entry is ignored
\* (IgnoreComponent).
THEOREM IgnoresExactly == Spec => []IgnoreExact
<1>1. Inv => IgnoreExact
  <2> SUFFICES ASSUME Inv, phase = "configured"
               PROVE  \A path \in EventPaths(config.root) :
                        ShouldIgnore(config.root, config.ignore, path)
                          <=> Below(config.root, config.ignore, path)
    BY DEF IgnoreExact
  <2>1. config.root \in Paths /\ config.ignore \in SUBSET Seq(STRING)
    BY DEF Inv, Configuring, Settled, Configurations
  <2> QED BY <2>1, IgnoresBelow
<1> QED BY <1>1, AlwaysInv, PTL

\* For every root and list: the log and the dedup log in the root are ignored (main).
THEOREM OwnLogsLeftOut == Spec => []OwnLogsIgnored
<1>1. Inv => OwnLogsIgnored
  <2> SUFFICES ASSUME Inv, phase = "configured" PROVE OwnLogsIgnored
    BY DEF OwnLogsIgnored
  <2>1. config.root \in Paths
    BY DEF Inv, Configuring, Settled, Configurations
  <2>2. "binmonitor.log" \in PlainNames /\ "binmonitor.dedup.log" \in PlainNames
    BY StringAssumption, Zenon DEF PlainNames
  <2> DEFINE entries == config.ignore \cup OwnLogs(config)
  <2>3. /\ config.log => <<"binmonitor.log">> \in entries
        /\ config.dedupLog => <<"binmonitor.dedup.log">> \in entries
    BY DEF OwnLogs
  <2> HIDE DEF entries
  <2>4. /\ config.log => ShouldIgnore(config.root, entries,
                           [config.root EXCEPT !.names = @ \o <<"binmonitor.log">>])
        /\ config.dedupLog => ShouldIgnore(config.root, entries,
                                [config.root EXCEPT !.names = @ \o <<"binmonitor.dedup.log">>])
    BY <2>1, <2>2, <2>3, EntryIgnored
  <2> QED BY <2>4 DEF OwnLogsIgnored, entries
<1> QED BY <1>1, AlwaysInv, PTL
=============================================================================
