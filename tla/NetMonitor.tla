----------------------------- MODULE NetMonitor -----------------------------
(***************************************************************************)
(* Network mode of binmonitor: NetWatcherComponent.Run polls the sockets   *)
(* of one process and sends the differences of two snapshots to the        *)
(* service loop, startNetwork.  A snapshot is not atomic: the inodes of    *)
(* the process's sockets are what the links under /proc/<pid>/fd show, one *)
(* after the other, and then the four tables under /proc/net are read row  *)
(* by row.  `log` is on; with `log` off the first record or error ends the *)
(* program (DirMonitor).                                                   *)
(***************************************************************************)
EXTENDS Integers, Sequences, FiniteSets, SequencesExt, NetAddress

CONSTANTS
  LastInode,    \* inodes are in 1 .. LastInode; the kernel gives one out once
  Tcp,          \* inodes of tcp sockets
  Udp,          \* inodes of udp sockets
  Foreign,      \* those of them that are sockets of other processes
  Fds,          \* the process's file descriptors
  Ports,        \* remote ports; 0 is that of a socket without a peer
  PeerOf,       \* [Ports \cup {0} -> Addresses], who is at the port
  SocksPorts,   \* NetMonitorConfig.Socks5Ports
  DnsPort,      \* 53
  DnsTrace,     \* NetMonitorConfig.DNSTrace
  NoConn,       \* the socket is in no table
  EventCap,     \* capacity of NetWatcherComponent.events (128); one error is
                \* all that NetWatcherComponent.errors (64) ever holds
  ReadFails,    \* whether reading a table may fail or miss a row (model only)
  Forks,        \* whether the process may share its sockets (model only)
  MaxChanges    \* bound on what the process does (Nat, model only)

ASSUME InodeAssumption ==
  /\ LastInode \in Nat /\ Tcp \cup Udp \subseteq 1 .. LastInode
  /\ Tcp \cap Udp = {} /\ Foreign \subseteq Tcp \cup Udp
ASSUME PortAssumption == 0 \notin Ports /\ SocksPorts \subseteq Ports
ASSUME PeerAssumption == DOMAIN PeerOf = Ports \cup {0} /\ \A p \in DOMAIN PeerOf : PeerOf[p] \in Addresses
ASSUME ModeAssumption == DnsTrace \in BOOLEAN /\ ReadFails \in BOOLEAN /\ Forks \in BOOLEAN
ASSUME BoundAssumption == EventCap \in Nat \ {0} /\ MaxChanges \in Nat

Inodes == Tcp \cup Udp

TcpStates == {"SYN_SENT", "ESTABLISHED", "CLOSE_WAIT"}
Conns == [port : Ports, state : TcpStates] \cup [port : {0}, state : {"LISTEN"}]
           \cup [port : Ports \cup {0}, state : {"CLOSE"}]
\* A udp socket is in its table, in state CLOSE, from its bind on.
ConnsOf(i) == {c \in Conns : (c.state = "CLOSE") <=> (i \in Udp)}
\* The line a connection has in its table, and what the program reads there.
Line(c) == [rem |-> Printed(PeerOf[c.port]), port |-> c.port, st |-> StateCode(c.state)]
NetConnInfo(c) == IF c = NoConn THEN NoConn ELSE ParseProcNetLine(Line(c))
Infos == {ParseProcNetLine(Line(c)) : c \in Conns}

ASSUME NoConnAssumption == NoConn \notin Conns \cup Infos
Snapshots == [Inodes -> Infos \cup {NoConn}]
NothingOpen == [i \in Inodes |-> NoConn]

\* What a descriptor is that is not a socket's: of a file, or not in use.
NoSocket == 0

NetOps == {"TCP_CONNECT", "TCP_CLOSE", "TCP_STATE", "UDP_CONNECT", "DNS_QUERY",
           "SOCKS5_CONNECT"}
\* The inode is not part of a NetEvent; it is kept to tell whose event it is.
NetEvents == [inode : Inodes, op : NetOps, conn : Infos]

VARIABLES
  \* the monitored process and the kernel's tables
  alive, created,   \* has not exited; the sockets it made
  fds,        \* [Fds -> Inodes \cup {NoSocket}], what its descriptors are of
  shared,     \* sockets that a child or another process holds as well
  tables,     \* [Inodes -> Conns \cup {NoConn}], the kernel's sockets
  gone,       \* history: sockets that have left the tables
  slipped,    \* history: sockets that a snapshot may not show although they
              \* are in the tables
  changes,    \* steps of the process so far
  \* NetWatcherComponent.Run
  poller,     \* "start", "idle", "listing", "reading", "sending", "failing",
              \* "closing", "exited"
  first,      \* the initial snapshot has not been taken
  listed,     \* descriptors whose link is still to be read
  inodes,     \* the sockets of the process, as those links showed them
  unread,     \* sockets whose row is still to be read
  previous, next,   \* Snapshots
  outbox,     \* Seq(NetEvents), the difference still to send
  events,     \* Seq(NetEvents), NetWatcherComponent.events
  errors,     \* 0 .. 1, how many errors NetWatcherComponent.errors holds
  done,       \* NetWatcherComponent.done is closed
  \* startNetwork
  main,       \* "loop", "stopped" (by a signal), "ended"
  open,       \* the channels the loop still selects on
  signalled,  \* SIGINT or SIGTERM has arrived
  \* history
  view        \* Snapshots, the initial snapshot with the events handled

target   == <<alive, created, fds, shared, tables, gone, slipped, changes>>
snapshot == <<first, listed, inodes, unread, previous, next>>
channels == <<events, errors>>
service  == <<main, open, signalled>>
vars == <<target, poller, snapshot, outbox, channels, done, service, view>>

-----------------------------------------------------------------------------
(***************************************************************************)
(* The monitored process and the kernel (external).                        *)
(***************************************************************************)
Step == main = "loop" /\ alive /\ changes < MaxChanges /\ changes' = changes + 1
NotTarget == UNCHANGED <<poller, snapshot, outbox, channels, done, service, view>>

held == {fds[d] : d \in Fds} \ {NoSocket}

Socket(i, d) ==
  /\ Step /\ i \notin created \cup Foreign /\ fds[d] = NoSocket
  /\ created' = created \cup {i} /\ fds' = [fds EXCEPT ![d] = i]
  /\ UNCHANGED <<alive, shared, tables, gone, slipped>> /\ NotTarget

\* dup; dup2 onto a descriptor in use closes that one first.
Dup(d, e) ==
  /\ Step /\ fds[d] # NoSocket /\ fds[e] = NoSocket
  /\ fds' = [fds EXCEPT ![e] = fds[d]]
  /\ UNCHANGED <<alive, created, shared, tables, gone, slipped>> /\ NotTarget

\* connect, listen or bind.  A tcp connection takes its course; a udp socket
\* may be connected anew.
Course == {<<"SYN_SENT", "ESTABLISHED">>, <<"ESTABLISHED", "CLOSE_WAIT">>}

Connect(i, c) ==
  /\ Step /\ i \in held /\ c \in ConnsOf(i) /\ tables[i] # c
  /\ i \in Tcp /\ tables[i] # NoConn =>
       c.port = tables[i].port /\ <<tables[i].state, c.state>> \in Course
  /\ tables' = [tables EXCEPT ![i] = c]
  /\ UNCHANGED <<alive, created, fds, shared, gone, slipped>> /\ NotTarget

\* A tcp connection is refused or reset, or a listener is shut down: the
\* process still holds the socket, and no table shows it.
Reset(i) ==
  /\ Step /\ i \in held \cap Tcp /\ tables[i] # NoConn
  /\ tables' = [tables EXCEPT ![i] = NoConn] /\ gone' = gone \cup {i}
  /\ UNCHANGED <<alive, created, fds, shared, slipped>> /\ NotTarget

\* fork, or a descriptor is handed to another process.
Fork ==
  /\ Forks /\ Step /\ ~ held \subseteq shared
  /\ shared' = shared \cup held
  /\ UNCHANGED <<alive, created, fds, tables, gone, slipped>> /\ NotTarget

\* The sockets of `released` lose their last holder, and leave the tables.
Leave(released) ==
  /\ tables' = [i \in Inodes |-> IF i \in released THEN NoConn ELSE tables[i]]
  /\ gone' = gone \cup released

\* The others let go of what they hold.
ChildExit ==
  /\ main = "loop" /\ shared # {}
  /\ shared' = {} /\ Leave(shared \ held)
  /\ UNCHANGED <<alive, created, fds, slipped, changes>> /\ NotTarget

\* A socket stays in its table as long as anyone holds it.  A snapshot does
\* not show it if that is another process only, or if the links are being
\* read and the other descriptor has had its turn.
CloseFd(d) ==
  LET last == fds[d] \notin {fds[e] : e \in Fds \ {d}}
  IN /\ Step /\ fds[d] # NoSocket
     /\ fds' = [fds EXCEPT ![d] = NoSocket]
     /\ Leave(IF last THEN {fds[d]} \ shared ELSE {})
     /\ slipped' = IF (IF last THEN fds[d] \in shared ELSE poller = "listing")
                   THEN slipped \cup {fds[d]} ELSE slipped
     /\ UNCHANGED <<alive, created, shared>> /\ NotTarget

Exit ==
  /\ main = "loop" /\ alive
  /\ alive' = FALSE /\ fds' = [d \in Fds |-> NoSocket]
  /\ Leave(held \ shared) /\ slipped' = slipped \cup (held \cap shared)
  /\ UNCHANGED <<created, shared, changes>> /\ NotTarget

TargetStep ==
  \/ \E i \in Inodes : Reset(i) \/ \E c \in Conns : Connect(i, c)
  \/ \E d \in Fds : CloseFd(d) \/ (\E i \in Inodes : Socket(i, d)) \/ \E e \in Fds : Dup(d, e)
  \/ Fork \/ ChildExit \/ Exit

-----------------------------------------------------------------------------
(***************************************************************************)
(* ReadProcNetFiles.                                                       *)
(***************************************************************************)
\* readProcessSocketInodes: the directory, and then a link at a time.  The
\* directory is not read in one step either, so that a descriptor made since
\* may be among its entries: all have their turn, and show what they are then.
ReadDir ==
  /\ poller \in {"start", "idle"}
  /\ IF alive
     THEN poller' = "listing" /\ listed' = Fds /\ inodes' = {}
     ELSE poller' = "failing" /\ UNCHANGED <<listed, inodes>>
  /\ UNCHANGED <<target, first, unread, previous, next, outbox, channels, done,
                 service, view>>

\* The link of a descriptor closed since cannot be read, which is no error.
\* Mutant: it ends the reading of links.
ReadlinkOrStop(d) ==
  /\ poller = "listing" /\ d \in listed
  /\ listed' = IF fds[d] = NoSocket THEN {} ELSE listed \ {d}
  /\ inodes' = inodes \cup ({fds[d]} \ {NoSocket})
  /\ UNCHANGED <<target, poller, first, unread, previous, next, outbox, channels,
                 done, service, view>>
Readlink(d) ==
  /\ poller = "listing" /\ d \in listed
  /\ listed' = listed \ {d}
  /\ inodes' = inodes \cup ({fds[d]} \ {NoSocket})
  /\ UNCHANGED <<target, poller, first, unread, previous, next, outbox, channels,
                 done, service, view>>

\* Without any inode no table is read.
ListDone ==
  /\ poller = "listing" /\ listed = {}
  /\ poller' = "reading" /\ next' = NothingOpen
  /\ unread' = IF inodes = {} THEN {} ELSE Inodes
  /\ UNCHANGED <<target, first, listed, inodes, previous, outbox, channels, done,
                 service, view>>

\* The tables of tcp come before those of udp; those of IPv6 differ from
\* those of IPv4 in the width of an address only.
TableOf(i) == IF i \in Tcp THEN Tcp ELSE Udp
Reading(i) == poller = "reading" /\ i \in unread /\ (i \in Udp => unread \cap Tcp = {})

\* parseProcNetFile at a row of the table: it is taken if it is of the inodes.
\* Mutant: every socket of the table is taken.
FoundAll(i) == [next EXCEPT ![i] = NetConnInfo(tables[i])]
Found(i) == IF i \in inodes THEN [next EXCEPT ![i] = NetConnInfo(tables[i])] ELSE next

ReadRow(i) ==
  /\ Reading(i)
  /\ next' = Found(i)
  /\ unread' = unread \ {i}
  /\ UNCHANGED <<target, poller, first, listed, inodes, previous, outbox, channels,
                 done, service, view>>

\* The rows are read in chunks, and one is missed when others before it left
\* the table between two of them.
MissRow(i) ==
  /\ ReadFails /\ Reading(i)
  /\ unread' = unread \ {i} /\ slipped' = slipped \cup {i}
  /\ UNCHANGED <<alive, created, fds, shared, tables, gone, changes>>
  /\ UNCHANGED <<poller, first, listed, inodes, previous, next, outbox, channels,
                 done, service, view>>

\* A table that cannot be opened or read to its end is skipped with all its
\* rows, and the snapshot goes on without it.
SkipTable(i) ==
  /\ ReadFails /\ Reading(i)
  /\ next' = [j \in Inodes |-> IF j \in TableOf(i) THEN NoConn ELSE next[j]]
  /\ unread' = unread \ TableOf(i) /\ slipped' = slipped \cup TableOf(i)
  /\ UNCHANGED <<alive, created, fds, shared, tables, gone, changes>>
  /\ UNCHANGED <<poller, first, listed, inodes, previous, outbox, channels, done,
                 service, view>>

\* ClassifyNetOp.
NewOp(i, c) ==
  CASE c.port \in SocksPorts -> "SOCKS5_CONNECT"
    [] c.port \notin SocksPorts /\ i \in Tcp -> "TCP_CONNECT"
    [] c.port \notin SocksPorts /\ i \in Udp ->
         IF DnsTrace /\ c.port = DnsPort THEN "DNS_QUERY" ELSE "UDP_CONNECT"

\* diffNetSnapshots at one inode.
DiffAt(old, new, i) ==
  LET event(op, c) == <<[inode |-> i, op |-> op, conn |-> c]>>
  IN CASE old[i] = NoConn /\ new[i] = NoConn -> <<>>
       [] old[i] = NoConn /\ new[i] # NoConn -> event(NewOp(i, new[i]), new[i])
       [] old[i] # NoConn /\ new[i] = NoConn -> event("TCP_CLOSE", old[i])
       [] old[i] # NoConn /\ new[i] # NoConn ->
            IF i \in Tcp /\ old[i].state # new[i].state
            THEN event("TCP_STATE", new[i]) ELSE <<>>

\* diffNetSnapshots, by inode.
\* Mutant: a change of state is reported with the old connection.
DiffOld(old, new) ==
  FlattenSeq([i \in 1 .. LastInode |->
    IF i \notin Inodes THEN <<>>
    ELSE IF old[i] # NoConn /\ new[i] # NoConn /\ DiffAt(old, new, i) # <<>>
    THEN <<[inode |-> i, op |-> "TCP_STATE", conn |-> old[i]]>>
    ELSE DiffAt(old, new, i)])
Diff(old, new) ==
  FlattenSeq([i \in 1 .. LastInode |-> IF i \in Inodes THEN DiffAt(old, new, i) ELSE <<>>])

\* The initial snapshot is what later ones are compared with.
SnapshotDone ==
  /\ poller = "reading" /\ unread = {}
  /\ first' = FALSE
  /\ IF first
     THEN poller' = "idle" /\ previous' = next /\ view' = next /\ UNCHANGED outbox
     ELSE poller' = "sending" /\ outbox' = Diff(previous, next)
          /\ UNCHANGED <<previous, view>>
  /\ UNCHANGED <<target, listed, inodes, unread, next, channels, done, service>>

-----------------------------------------------------------------------------
(***************************************************************************)
(* The rest of NetWatcherComponent.Run.                                    *)
(***************************************************************************)
\* Mutant: one event more than the channel holds.
HasRoomOffByOne == Len(events) <= EventCap
HasRoom == Len(events) < EventCap

\* sendEvent, the channel case of its select.
SendEvent ==
  /\ poller = "sending" /\ outbox # <<>> /\ HasRoom
  /\ events' = Append(events, Head(outbox))
  /\ outbox' = Tail(outbox)
  /\ UNCHANGED <<target, poller, snapshot, errors, done, service, view>>

\* Mutant: previous stays what it was.
SendDoneStale ==
  /\ poller = "sending" /\ outbox = <<>>
  /\ poller' = "idle"
  /\ UNCHANGED <<target, snapshot, outbox, channels, done, service, view>>
SendDone ==
  /\ poller = "sending" /\ outbox = <<>>
  /\ poller' = "idle" /\ previous' = next
  /\ UNCHANGED <<target, first, listed, inodes, unread, next, outbox, channels,
                 done, service, view>>

\* sendError: its channel is empty, so it never waits for room.
\* Mutant: the error is dropped, and Run goes on polling.
SendErrorAndGoOn ==
  /\ poller = "failing"
  /\ poller' = "idle"
  /\ UNCHANGED <<target, snapshot, outbox, channels, done, service, view>>
SendError ==
  /\ poller = "failing"
  /\ poller' = "closing" /\ errors' = errors + 1
  /\ UNCHANGED <<target, snapshot, outbox, events, done, service, view>>

\* The done case of the three selects.
\* Mutant: sendEvent has none.
PollerDoneIdle ==
  /\ done /\ poller \in {"idle", "failing"}
  /\ poller' = "closing"
  /\ UNCHANGED <<target, snapshot, outbox, channels, done, service, view>>
PollerDone ==
  /\ done
  /\ poller \in {"idle", "failing"} \/ (poller = "sending" /\ outbox # <<>>)
  /\ poller' = "closing"
  /\ UNCHANGED <<target, snapshot, outbox, channels, done, service, view>>

\* The two deferred closes.
PollerExit ==
  /\ poller = "closing"
  /\ poller' = "exited"
  /\ UNCHANGED <<target, snapshot, outbox, channels, done, service, view>>

PollerStep ==
  \/ ReadDir \/ (\E d \in Fds : Readlink(d)) \/ ListDone
  \/ \E i \in Inodes : ReadRow(i) \/ MissRow(i) \/ SkipTable(i)
  \/ SnapshotDone \/ SendEvent \/ SendDone \/ SendError \/ PollerDone \/ PollerExit

-----------------------------------------------------------------------------
(***************************************************************************)
(* MonitorService.startNetwork.                                            *)
(***************************************************************************)
\* ProcessNetEvent prints a record of every event: no filter applies.
HandleEvent ==
  /\ main = "loop" /\ "events" \in open /\ events # <<>>
  /\ LET e == Head(events)
     IN view' = [view EXCEPT ![e.inode] = IF e.op = "TCP_CLOSE" THEN NoConn ELSE e.conn]
  /\ events' = Tail(events)
  /\ UNCHANGED <<target, poller, snapshot, outbox, errors, done, service>>

HandleError ==
  /\ main = "loop" /\ "errors" \in open /\ errors > 0
  /\ errors' = errors - 1
  /\ UNCHANGED <<target, poller, snapshot, outbox, events, done, service, view>>

\* A closed and empty channel is not selected on any more; without any left
\* startNetwork returns.
\* Mutant: the events are given up with the errors.
StillOpenNone(c) == {}
StillOpen(c) == open \ {c}

ChannelClosed(c) ==
  /\ main = "loop" /\ c \in open /\ poller = "exited"
  /\ IF c = "events" THEN events = <<>> ELSE errors = 0
  /\ open' = StillOpen(c)
  /\ main' = IF StillOpen(c) = {} THEN "ended" ELSE "loop"
  /\ UNCHANGED <<target, poller, snapshot, outbox, channels, done, signalled, view>>

Signal ==
  /\ main = "loop" /\ ~signalled
  /\ signalled' = TRUE
  /\ UNCHANGED <<target, poller, snapshot, outbox, channels, done, main, open, view>>

\* NetWatcherComponent.Close, and startNetwork returns.
HandleSignal ==
  /\ main = "loop" /\ signalled
  /\ done' = TRUE /\ main' = "stopped"
  /\ UNCHANGED <<target, poller, snapshot, outbox, channels, open, signalled, view>>

ServiceStep ==
  \/ HandleEvent \/ HandleError \/ HandleSignal
  \/ \E c \in {"events", "errors"} : ChannelClosed(c)

Terminated == main # "loop" /\ UNCHANGED vars

Init ==
  /\ fds \in [Fds -> (Inodes \ Foreign) \cup {NoSocket}] /\ created = held /\ shared = {}
  /\ tables \in {t \in [Inodes -> Conns \cup {NoConn}] : \A i \in Inodes :
                   t[i] # NoConn => i \in held \cup Foreign /\ t[i] \in ConnsOf(i)}
  /\ alive = TRUE /\ gone = {} /\ slipped = {} /\ changes = 0
  /\ poller = "start" /\ first = TRUE /\ listed = {} /\ inodes = {} /\ unread = {}
  /\ previous = NothingOpen /\ next = NothingOpen
  /\ outbox = <<>> /\ events = <<>> /\ errors = 0 /\ done = FALSE
  /\ main = "loop" /\ open = {"events", "errors"} /\ signalled = FALSE
  /\ view = NothingOpen

Next == TargetStep \/ PollerStep \/ ServiceStep \/ Signal \/ Terminated

\* The ticker ticks, goroutines run, and a select picks at random among its
\* ready cases, so that none of them waits forever.
Fairness ==
  /\ WF_vars(PollerStep) /\ SF_vars(PollerDone)
  /\ WF_vars(ServiceStep) /\ SF_vars(HandleEvent) /\ SF_vars(HandleError)
  /\ SF_vars(HandleSignal)

Spec == Init /\ [][Next]_vars
FairSpec == Spec /\ Fairness

-----------------------------------------------------------------------------
\* TypeOK: the ranges of the variables, with the capacity of the channel
\* (NewNetWatcherComponent).
TypeOK ==
  /\ alive \in BOOLEAN /\ created \subseteq Inodes
  /\ fds \in [Fds -> created \cup {NoSocket}] /\ shared \subseteq created
  /\ tables \in [Inodes -> Conns \cup {NoConn}] /\ gone \subseteq created
  /\ slipped \subseteq Inodes /\ changes \in 0 .. MaxChanges
  /\ poller \in {"start", "idle", "listing", "reading", "sending", "failing",
                 "closing", "exited"}
  /\ first \in BOOLEAN /\ listed \subseteq Fds /\ inodes \subseteq Inodes /\ unread \subseteq Inodes
  /\ previous \in Snapshots /\ next \in Snapshots
  /\ outbox \in Seq(NetEvents)
  /\ events \in Seq(NetEvents) /\ Len(events) <= EventCap
  /\ errors \in 0 .. 1 /\ done \in BOOLEAN
  /\ main \in {"loop", "stopped", "ended"}
  /\ open \subseteq {"events", "errors"} /\ signalled \in BOOLEAN
  /\ view \in Snapshots

Latest == IF poller = "sending" THEN next ELSE previous

\* What the reports show of each socket once all that is on its way to the
\* service loop is handled.
Reported ==
  LET line == events \o outbox
      about(i) == {n \in DOMAIN line : line[n].inode = i}
      shown(e) == IF e.op = "TCP_CLOSE" THEN NoConn ELSE e.conn
  IN [i \in Inodes |-> IF about(i) = {} THEN view[i] ELSE shown(line[Max(about(i))])]

\* NetFaithful: what has been reported and what is on its way make up the
\* watcher's latest snapshot: the same sockets, a tcp one in the same state
\* (diffNetSnapshots, sendEvent, Run).
NetFaithful ==
  main = "loop" /\ ~first /\ poller \in {"idle", "listing", "reading", "sending"} =>
    \A i \in Inodes :
      /\ (Reported[i] = NoConn) <=> (Latest[i] = NoConn)
      /\ i \in Tcp /\ Latest[i] # NoConn => Reported[i].state = Latest[i].state

\* CloseExplained: a connection that is reported closed has left the tables,
\* or the process has let go of its last descriptor and another process goes
\* on with it, or a descriptor of it was closed while the links were read, or
\* its row was not read; nothing else in the order in which links and rows
\* are read makes a close (readProcessSocketInodes, ReadProcNetFiles,
\* diffNetSnapshots).
CloseExplained ==
  \A n \in DOMAIN events : events[n].op = "TCP_CLOSE" => events[n].inode \in gone \cup slipped

\* NoForeignSocket: what is reported is, or was, a socket of the process and
\* not of another one that the tables of /proc/net show as well
\* (ReadProcNetFiles).
NoForeignSocket == \A i \in Inodes : Reported[i] # NoConn => i \in created

\* AddressShown: an event shows the address of the peer, an IPv4 one as it is
\* written, and an IPv6 one in a form no other peer has (ParseHexIP; an IPv6
\* address comes out with its groups exchanged in pairs).
AddressShown ==
  \A n \in DOMAIN events :
    LET c == events[n].conn
        shown(a) == ParseHexIP(Printed(a))
    IN /\ Len(PeerOf[c.port]) = 4 => c.ip = PeerOf[c.port]
       /\ \A p \in DOMAIN PeerOf : c.ip = shown(PeerOf[p]) <=> PeerOf[p] = PeerOf[c.port]

\* NetEndedComplete: startNetwork returns by itself only when every event of
\* the watcher has been reported, whichever channel was seen closed first.
NetEndedComplete == main = "ended" => events = <<>> /\ errors = 0

\* NetEventuallySeen: once the process pauses and tables are read whole again,
\* what it has open and nothing else is in view, shown by the first snapshot
\* or reported since, whatever descriptors moved and rows missed before made
\* the service report (ReadProcNetFiles, diffNetSnapshots).
NetEventuallySeen ==
  <>[][\A i \in Inodes : ~MissRow(i) /\ ~SkipTable(i)]_vars =>
    <>[](main # "loop" \/ ~alive \/
       \A i \in Inodes \ Foreign :
         view[i] # NoConn <=> i \in held /\ tables[i] # NoConn)

\* NetExitEnds: when the process is gone the service ends by itself.
NetExitEnds == ~alive ~> main # "loop"

\* NetCloseStops: after a signal the poller returns, wherever it waited.
NetCloseStops == signalled ~> main # "loop" /\ poller = "exited"

=============================================================================
