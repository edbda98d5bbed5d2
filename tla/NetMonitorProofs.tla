-------------------------- MODULE NetMonitorProofs --------------------------
(***************************************************************************)
(* Theorems about NetMonitor and NetAddress: types, the end of the         *)
(* service, what an event shows of a peer, and the closes.                 *)
(***************************************************************************)
EXTENDS NetMonitor, SequenceLemmas, TLAPS

\* An error is the last that a poller makes.
ErrorOnce == poller \notin {"closing", "exited"} => errors = 0

\* A channel is dropped when it is closed and empty.
DroppedEmpty ==
  /\ "events" \notin open => poller = "exited" /\ events = <<>>
  /\ "errors" \notin open => poller = "exited" /\ errors = 0
  /\ main = "ended" => open = {}

Inv == TypeOK /\ ErrorOnce /\ DroppedEmpty

\* What a close may be reported of: what has left the tables, and what a
\* snapshot may not have shown.
Explained == gone \cup slipped

\* A socket that was seen is in its table still, or its close is explained.
Seen(s) == \A i \in Inodes : s[i] # NoConn => i \in Explained \/ (i \in held /\ tables[i] # NoConn)

\* No link and no row that has been read is without a socket seen before.
NoneMissed ==
  \A i \in Inodes : previous[i] # NoConn /\ i \notin Explained =>
    /\ poller = "listing" => i \in inodes \/ \E d \in listed : fds[d] = i
    /\ poller = "reading" => i \in inodes /\ (i \notin unread => next[i] # NoConn)
    /\ poller = "sending" => next[i] # NoConn

ClosesExplained(s) == \A n \in DOMAIN s : s[n].op = "TCP_CLOSE" => s[n].inode \in Explained

Closes ==
  /\ inodes \subseteq held \cup Explained
  /\ Seen(previous) /\ Seen(next) /\ NoneMissed
  /\ ClosesExplained(outbox) /\ ClosesExplained(events)

-----------------------------------------------------------------------------
(***************************************************************************)
(* Addresses.                                                              *)
(***************************************************************************)
\* ParseHexIP undoes what the kernel does to an IPv4 address.
LEMMA Ipv4Exact ==
  ASSUME NEW a \in [1 .. 4 -> Bytes]
  PROVE  ParseHexIP(Printed(a)) = a
<1>1. Printed(a) = [n \in 1 .. 4 |-> a[5 - n]]
  <2>1. \A n \in 1 .. 4 : 4 * ((n - 1) \div 4) + 4 - ((n - 1) % 4) = 5 - n
    OBVIOUS
  <2> QED BY <2>1 DEF Printed
<1>2. Printed(a) \in [1 .. 4 -> Bytes] /\ Len(Printed(a)) = 4
  <2>1. Printed(a) \in [1 .. 4 -> Bytes]
    BY <1>1
  <2> QED BY <2>1
<1>3. ParseHexIP(Printed(a)) = [n \in 1 .. 4 |-> Printed(a)[5 - n]]
  BY <1>2 DEF ParseHexIP
<1>4. \A n \in 1 .. 4 : Printed(a)[5 - n] = a[n]
  BY <1>1
<1> QED BY <1>3, <1>4

\* The group that a group changes places with.
Partner(n) == IF n % 2 = 1 THEN n + 1 ELSE n - 1
\* An IPv6 address comes out as eight groups of two of its bytes, those of a
\* word exchanged.
LEMMA Ipv6Groups ==
  ASSUME NEW a \in [1 .. 16 -> Bytes]
  PROVE  ParseHexIP(Printed(a)) = [n \in 1 .. 8 |-> 256 * a[2 * Partner(n) - 1] + a[2 * Partner(n)]]
<1> DEFINE from(n) == 4 * ((n - 1) \div 4) + 4 - ((n - 1) % 4)
<1>1. \A n \in 1 .. 16 : from(n) \in 1 .. 16
  OBVIOUS
<1>2. Printed(a) \in [1 .. 16 -> Bytes] /\ Len(Printed(a)) = 16 /\ \A n \in 1 .. 16 : Printed(a)[n] = a[from(n)]
  <2>1. Printed(a) = [n \in 1 .. 16 |-> a[from(n)]]
    BY DEF Printed
  <2>2. Printed(a) \in [1 .. 16 -> Bytes]
    BY <1>1, <2>1
  <2> QED BY <2>1, <2>2
<1>3. ParseHexIP(Printed(a)) = [n \in 1 .. 8 |-> 256 * Printed(a)[2 * n] + Printed(a)[2 * n - 1]]
  BY <1>2 DEF ParseHexIP
<1>4. \A n \in 1 .. 8 : /\ 2 * n \in 1 .. 16 /\ 2 * n - 1 \in 1 .. 16
                        /\ from(2 * n) = 2 * Partner(n) - 1 /\ from(2 * n - 1) = 2 * Partner(n)
  BY DEF Partner
<1> QED BY <1>2, <1>3, <1>4

\* So different IPv6 addresses come out differently.
LEMMA Ipv6Apart ==
  ASSUME NEW a \in [1 .. 16 -> Bytes], NEW b \in [1 .. 16 -> Bytes],
         ParseHexIP(Printed(a)) = ParseHexIP(Printed(b))
  PROVE  a = b
<1>1. \A n \in 1 .. 8 : 256 * a[2 * Partner(n) - 1] + a[2 * Partner(n)]
                          = 256 * b[2 * Partner(n) - 1] + b[2 * Partner(n)]
  <2> DEFINE group(c, n) == 256 * c[2 * Partner(n) - 1] + c[2 * Partner(n)]
  <2>1. ParseHexIP(Printed(a)) = [n \in 1 .. 8 |-> group(a, n)]
    BY Ipv6Groups
  <2>2. ParseHexIP(Printed(b)) = [n \in 1 .. 8 |-> group(b, n)]
    BY Ipv6Groups
  <2> SUFFICES \A n \in 1 .. 8 : group(a, n) = group(b, n)
    OBVIOUS
  <2> HIDE DEF group
  <2> QED BY <2>1, <2>2
<1>2. \A n \in 1 .. 8 : /\ Partner(n) \in 1 .. 8 /\ Partner(Partner(n)) = n
                        /\ 2 * Partner(n) - 1 \in 1 .. 16 /\ 2 * Partner(n) \in 1 .. 16
  BY DEF Partner
<1>3. \A n \in 1 .. 8 : a[2 * Partner(n) - 1] = b[2 * Partner(n) - 1] /\ a[2 * Partner(n)] = b[2 * Partner(n)]
  <2> TAKE n \in 1 .. 8
  <2> DEFINE j == 2 * Partner(n) - 1
             k == 2 * Partner(n)
  <2>1. a[j] \in 0 .. 255 /\ a[k] \in 0 .. 255 /\ b[j] \in 0 .. 255 /\ b[k] \in 0 .. 255
    BY <1>2 DEF Bytes
  <2>2. 256 * a[j] + a[k] = 256 * b[j] + b[k]
    BY <1>1
  <2> HIDE DEF j, k
  <2>3. a[j] = b[j] /\ a[k] = b[k]
    <3> DEFINE x == a[j]  y == a[k]  u == b[j]  v == b[k]
    <3>1. /\ x \in 0 .. 255 /\ y \in 0 .. 255 /\ u \in 0 .. 255 /\ v \in 0 .. 255
          /\ 256 * x + y = 256 * u + v
      BY <2>1, <2>2
    <3> HIDE DEF x, y, u, v
    <3>2. x = u /\ y = v
      BY <3>1, SMTT(60)
    <3> QED BY <3>2 DEF x, y, u, v
  <2> QED BY <2>3 DEF j, k
<1>4. \A m \in 1 .. 8 : a[2 * m - 1] = b[2 * m - 1] /\ a[2 * m] = b[2 * m]
  BY <1>2, <1>3
<1>5. \A i \in 1 .. 16 : \E m \in 1 .. 8 : i = 2 * m - 1 \/ i = 2 * m
  <2> TAKE i \in 1 .. 16
  <2>1. CASE i % 2 = 1
    <3>1. (i + 1) \div 2 \in 1 .. 8 /\ i = 2 * ((i + 1) \div 2) - 1
      BY <2>1
    <3> QED BY <3>1
  <2>2. CASE i % 2 # 1
    <3>1. i \div 2 \in 1 .. 8 /\ i = 2 * (i \div 2)
      BY <2>2
    <3> QED BY <3>1
  <2> QED BY <2>1, <2>2
<1> QED BY <1>4, <1>5

\* IPv4 and IPv6 addresses come out with different lengths.
LEMMA ShownApart ==
  ASSUME NEW a \in Addresses, NEW b \in Addresses,
         ParseHexIP(Printed(a)) = ParseHexIP(Printed(b))
  PROVE  a = b
<1>1. CASE a \in [1 .. 4 -> Bytes] /\ b \in [1 .. 4 -> Bytes]
  BY <1>1, Ipv4Exact
<1>2. CASE a \in [1 .. 16 -> Bytes] /\ b \in [1 .. 16 -> Bytes]
  BY <1>2, Ipv6Apart
<1>3. \A c \in [1 .. 4 -> Bytes] : DOMAIN ParseHexIP(Printed(c)) = 1 .. 4
  BY Ipv4Exact
<1>4. \A c \in [1 .. 16 -> Bytes] : DOMAIN ParseHexIP(Printed(c)) = 1 .. 8
  BY Ipv6Groups
<1>5. 1 .. 4 # 1 .. 8
  OBVIOUS
<1> QED BY <1>1, <1>2, <1>3, <1>4, <1>5 DEF Addresses

\* What the events of the channel show.
LEMMA TypeShows == TypeOK => AddressShown
<1> SUFFICES ASSUME TypeOK, NEW n \in DOMAIN events
             PROVE  LET c == events[n].conn
                        shown(a) == ParseHexIP(Printed(a))
                    IN /\ Len(PeerOf[c.port]) = 4 => c.ip = PeerOf[c.port]
                       /\ \A p \in DOMAIN PeerOf : c.ip = shown(PeerOf[p]) <=> PeerOf[p] = PeerOf[c.port]
  BY DEF AddressShown
<1>1. events[n].conn \in Infos
  <2>1. events \in Seq(NetEvents)
    BY DEF TypeOK
  <2>2. events[n] \in NetEvents
    BY <2>1
  <2> QED BY <2>2 DEF NetEvents
<1>2. PICK d \in Conns : events[n].conn = ParseProcNetLine(Line(d))
  BY <1>1 DEF Infos
<1>3. events[n].conn.port = d.port /\ events[n].conn.ip = ParseHexIP(Printed(PeerOf[d.port]))
  BY <1>2 DEF ParseProcNetLine, Line
<1>4. d.port \in DOMAIN PeerOf
  BY PeerAssumption DEF Conns
<1>5. \A p \in DOMAIN PeerOf : PeerOf[p] \in Addresses
  BY PeerAssumption
<1>6. Len(PeerOf[d.port]) = 4 => ParseHexIP(Printed(PeerOf[d.port])) = PeerOf[d.port]
  <2>1. \A a \in [1 .. 16 -> Bytes] : Len(a) = 16
    OBVIOUS
  <2> QED BY <1>4, <1>5, <2>1, Ipv4Exact DEF Addresses
<1> QED BY <1>3, <1>4, <1>5, <1>6, ShownApart

-----------------------------------------------------------------------------
(***************************************************************************)
(* Types.                                                                  *)
(***************************************************************************)
\* A table line is never taken for none.
LEMMA InfoType ==
  /\ NoConn \notin Infos /\ NoConn \notin Conns /\ NothingOpen \in Snapshots
  /\ \A c \in Conns : NetConnInfo(c) \in Infos
  /\ \A c \in Conns \cup {NoConn} : /\ NetConnInfo(c) \in Infos \cup {NoConn}
                                   /\ NetConnInfo(c) = NoConn <=> c = NoConn
<1>1. NoConn \notin Infos /\ NoConn \notin Conns /\ NothingOpen \in Snapshots
  BY NoConnAssumption DEF NothingOpen, Snapshots
<1>2. \A c \in Conns : NetConnInfo(c) \in Infos
  BY <1>1 DEF NetConnInfo, Infos
<1>3. NetConnInfo(NoConn) = NoConn
  BY DEF NetConnInfo
<1> QED BY <1>1, <1>2, <1>3

\* What the assumptions say of the constants.
LEMMA ConstantTypes ==
  /\ EventCap \in Nat \ {0} /\ MaxChanges \in Nat /\ LastInode \in Nat
  /\ Inodes \subseteq 1 .. LastInode /\ Foreign \subseteq Inodes /\ NoSocket \notin Inodes
BY BoundAssumption, InodeAssumption DEF Inodes, NoSocket

\* Events that may tell two snapshots apart: they are about what is in one of
\* them, a close about what the new one lacks.
Differences(old, new) ==
  {e \in NetEvents :
     /\ old[e.inode] # NoConn \/ new[e.inode] # NoConn
     /\ e.op = "TCP_CLOSE" => old[e.inode] # NoConn /\ new[e.inode] = NoConn}

\* diffNetSnapshots reports nothing else.
LEMMA DiffType ==
  ASSUME NEW old \in Snapshots, NEW new \in Snapshots
  PROVE  /\ \A i \in Inodes : DiffAt(old, new, i) \in Seq(Differences(old, new))
         /\ Diff(old, new) \in Seq(Differences(old, new))
<1> DEFINE D == Differences(old, new)
<1>1. \A i \in Inodes : DiffAt(old, new, i) \in Seq(D)
  <2> TAKE i \in Inodes
  <2>1. i \in Tcp \/ i \in Udp
    BY DEF Inodes
  <2>2. old[i] \in Infos \cup {NoConn} /\ new[i] \in Infos \cup {NoConn}
    BY DEF Snapshots
  <2>3. CASE old[i] = NoConn /\ new[i] = NoConn
    BY <2>3 DEF DiffAt
  <2>4. CASE old[i] = NoConn /\ new[i] # NoConn
    <3>1. NewOp(i, new[i]) \in NetOps \ {"TCP_CLOSE"}
      BY <2>1 DEF NewOp, NetOps
    <3>2. [inode |-> i, op |-> NewOp(i, new[i]), conn |-> new[i]] \in D
      BY <2>2, <2>4, <3>1 DEF Differences, NetEvents
    <3>3. DiffAt(old, new, i) = <<[inode |-> i, op |-> NewOp(i, new[i]), conn |-> new[i]]>>
      BY <2>4 DEF DiffAt
    <3> QED BY <3>2, <3>3
  <2>5. CASE old[i] # NoConn /\ new[i] = NoConn
    <3>1. [inode |-> i, op |-> "TCP_CLOSE", conn |-> old[i]] \in D
      BY <2>2, <2>5 DEF Differences, NetEvents, NetOps
    <3>2. DiffAt(old, new, i) = <<[inode |-> i, op |-> "TCP_CLOSE", conn |-> old[i]]>>
      BY <2>5 DEF DiffAt
    <3> QED BY <3>1, <3>2
  <2>6. CASE old[i] # NoConn /\ new[i] # NoConn
    <3>1. [inode |-> i, op |-> "TCP_STATE", conn |-> new[i]] \in D
      BY <2>2, <2>6 DEF Differences, NetEvents, NetOps
    <3>2. DiffAt(old, new, i) \in {<<>>, <<[inode |-> i, op |-> "TCP_STATE", conn |-> new[i]]>>}
      BY <2>6 DEF DiffAt
    <3>3. <<>> \in Seq(D) /\ <<[inode |-> i, op |-> "TCP_STATE", conn |-> new[i]]>> \in Seq(D)
      BY <3>1
    <3> QED BY <3>2, <3>3
  <2> QED BY <2>3, <2>4, <2>5, <2>6
<1> HIDE DEF D
<1>2. [i \in 1 .. LastInode |-> IF i \in Inodes THEN DiffAt(old, new, i) ELSE <<>>] \in Seq(Seq(D))
  BY <1>1, ConstantTypes
<1>3. Diff(old, new) \in Seq(D)
  BY <1>2, FlattenSeqType DEF Diff
<1> QED BY <1>1, <1>3 DEF D

\* The first state has no error and both channels open (NewNetWatcherComponent).
LEMMA InitInv == Init => Inv
<1> SUFFICES ASSUME Init PROVE Inv
  OBVIOUS
<1>1. TypeOK
  <2>1. /\ created \subseteq Inodes /\ tables \in [Inodes -> Conns \cup {NoConn}]
        /\ fds \in [Fds -> created \cup {NoSocket}]
    BY DEF Init, held
  <2>2. outbox \in Seq(NetEvents) /\ events \in Seq(NetEvents) /\ Len(events) <= EventCap
    BY ConstantTypes DEF Init
  <2>3. /\ previous \in Snapshots /\ next \in Snapshots /\ view \in Snapshots
    BY InfoType DEF Init
  <2>4. changes \in 0 .. MaxChanges /\ errors \in 0 .. 1
    BY ConstantTypes DEF Init
  <2> QED BY <2>1, <2>2, <2>3, <2>4 DEF Init, TypeOK
<1> QED BY <1>1 DEF Init, Inv, ErrorOnce, DroppedEmpty

\* What the process holds is what it made.
LEMMA HeldMade == TypeOK => held \subseteq created /\ held \subseteq Inodes
BY DEF TypeOK, held

\* The process changes nothing of the watcher and of the service.
LEMMA TargetInv ==
  ASSUME Inv, TargetStep
  PROVE  Inv'
<1>1. UNCHANGED <<poller, snapshot, outbox, channels, done, service, view>>
  BY DEF TargetStep, Socket, Dup, Connect, Reset, Fork, ChildExit, CloseFd, Exit, NotTarget
<1> DEFINE Kept == /\ alive' \in BOOLEAN /\ created' \subseteq Inodes
                   /\ fds' \in [Fds -> created' \cup {NoSocket}] /\ shared' \subseteq created'
                   /\ gone' \subseteq created' /\ slipped' \subseteq Inodes
                   /\ changes' \in 0 .. MaxChanges
<1>2. Kept
  <2>1. ASSUME Step PROVE alive' = alive => alive' \in BOOLEAN /\ changes' \in 0 .. MaxChanges
    BY <2>1, ConstantTypes DEF Inv, TypeOK, Step
  <2>2. ASSUME NEW i \in Inodes, NEW d \in Fds, Socket(i, d) PROVE Kept
    BY <2>1, <2>2 DEF Inv, TypeOK, Socket
  <2>3. ASSUME NEW d \in Fds, NEW e \in Fds, Dup(d, e) PROVE Kept
    BY <2>1, <2>3 DEF Inv, TypeOK, Dup
  <2>4. ASSUME NEW i \in Inodes, NEW c \in Conns, Connect(i, c) PROVE Kept
    BY <2>1, <2>4 DEF Inv, TypeOK, Connect
  <2>5. ASSUME NEW i \in Inodes, Reset(i) PROVE Kept
    BY <2>1, <2>5, HeldMade DEF Inv, TypeOK, Reset
  <2>6. CASE Fork
    BY <2>1, <2>6, HeldMade DEF Inv, TypeOK, Fork
  <2>7. CASE ChildExit
    BY <2>7 DEF Inv, TypeOK, ChildExit, Leave
  <2>8. ASSUME NEW d \in Fds, CloseFd(d) PROVE Kept
    <3>1. fds[d] \in created /\ created' = created /\ shared' = shared /\ alive' = alive
      BY <2>8 DEF Inv, TypeOK, CloseFd
    <3>2. gone' \subseteq gone \cup {fds[d]} /\ slipped' \subseteq slipped \cup {fds[d]}
      BY <2>8 DEF CloseFd, Leave
    <3> QED BY <2>1, <2>8, <3>1, <3>2 DEF Inv, TypeOK, CloseFd
  <2>9. CASE Exit
    BY <2>9, HeldMade DEF Inv, TypeOK, Exit, Leave
  <2> QED BY <2>2, <2>3, <2>4, <2>5, <2>6, <2>7, <2>8, <2>9 DEF TargetStep
<1>3. tables' \in [Inodes -> Conns \cup {NoConn}]
  BY DEF Inv, TypeOK, TargetStep, Socket, Dup, Connect, Reset, Fork, ChildExit, CloseFd, Exit, Leave
<1>4. TypeOK'
  BY <1>1, <1>2, <1>3 DEF Inv, TypeOK, snapshot, channels, service
<1>5. ErrorOnce' /\ DroppedEmpty'
  BY <1>1 DEF Inv, ErrorOnce, DroppedEmpty, snapshot, channels, service
<1> QED BY <1>4, <1>5 DEF Inv

\* What ReadRow finds is a snapshot.
LEMMA FoundType ==
  ASSUME TypeOK, NEW i \in Inodes
  PROVE  /\ Found(i) \in Snapshots
         /\ \A j \in Inodes : Found(i)[j] = IF j = i /\ i \in inodes THEN NetConnInfo(tables[i])
                                            ELSE next[j]
<1>1. NetConnInfo(tables[i]) \in Infos \cup {NoConn} /\ next \in Snapshots
  BY InfoType DEF TypeOK
<1> QED BY <1>1 DEF Found, Snapshots

\* The poller.
LEMMA SnapshotInv ==
  ASSUME Inv, \/ ReadDir \/ (\E d \in Fds : Readlink(d)) \/ ListDone \/ SnapshotDone
              \/ \E i \in Inodes : ReadRow(i) \/ MissRow(i) \/ SkipTable(i)
  PROVE  Inv'
<1> USE DEF vars, target, snapshot, channels, service
<1>1. CASE ReadDir \/ ListDone
  <2>1. next' \in Snapshots
    BY <1>1, InfoType DEF Inv, TypeOK, ReadDir, ListDone
  <2>2. TypeOK'
    BY <1>1, <2>1 DEF Inv, TypeOK, ReadDir, ListDone
  <2>3. ErrorOnce' /\ DroppedEmpty'
    BY <1>1 DEF Inv, ErrorOnce, DroppedEmpty, ReadDir, ListDone
  <2> QED BY <2>2, <2>3 DEF Inv
<1>4. ASSUME NEW d \in Fds, Readlink(d) PROVE Inv'
  <2>1. inodes' \subseteq Inodes
    BY <1>4 DEF Inv, TypeOK, Readlink
  <2>2. TypeOK'
    BY <1>4, <2>1 DEF Inv, TypeOK, Readlink
  <2>3. ErrorOnce' /\ DroppedEmpty'
    BY <1>4 DEF Inv, ErrorOnce, DroppedEmpty, Readlink
  <2> QED BY <2>2, <2>3 DEF Inv
<1>2. ASSUME NEW i \in Inodes, ReadRow(i) \/ MissRow(i) \/ SkipTable(i) PROVE Inv'
  <2>1. TypeOK'
    <3>1. next' \in Snapshots
      BY <1>2, FoundType DEF Inv, TypeOK, Snapshots, ReadRow, MissRow, SkipTable
    <3>2. slipped' \subseteq Inodes
      BY <1>2 DEF Inv, TypeOK, ReadRow, MissRow, SkipTable, TableOf, Inodes
    <3> QED BY <1>2, <3>1, <3>2 DEF Inv, TypeOK, ReadRow, MissRow, SkipTable
  <2>2. ErrorOnce' /\ DroppedEmpty'
    BY <1>2 DEF Inv, ErrorOnce, DroppedEmpty, ReadRow, MissRow, SkipTable
  <2> QED BY <2>1, <2>2 DEF Inv
<1>3. CASE SnapshotDone
  <2>1. TypeOK'
    <3>1. outbox' \in Seq(NetEvents)
      <4>1. Diff(previous, next) \in Seq(Differences(previous, next))
        BY DiffType DEF Inv, TypeOK
      <4>2. Differences(previous, next) \subseteq NetEvents
        BY DEF Differences
      <4>3. Diff(previous, next) \in Seq(NetEvents)
        BY <4>1, <4>2
      <4> QED BY <1>3, <4>3 DEF Inv, TypeOK, SnapshotDone
    <3>2. previous' \in Snapshots /\ view' \in Snapshots
      BY <1>3 DEF Inv, TypeOK, SnapshotDone
    <3> QED BY <1>3, <3>1, <3>2 DEF Inv, TypeOK, SnapshotDone
  <2>2. ErrorOnce' /\ DroppedEmpty'
    BY <1>3 DEF Inv, ErrorOnce, DroppedEmpty, SnapshotDone
  <2> QED BY <2>1, <2>2 DEF Inv
<1> QED BY <1>1, <1>2, <1>3, <1>4

\* sendEvent, sendError, and the end of Run: the error is the last thing
\* before the closes.
LEMMA SendInv ==
  ASSUME Inv, SendEvent \/ SendDone \/ SendError \/ PollerDone \/ PollerExit
  PROVE  Inv'
<1> USE DEF vars, target, snapshot, channels, service
<1>1. CASE SendEvent
  <2>1. outbox \in Seq(NetEvents) /\ outbox # <<>> /\ events \in Seq(NetEvents)
    BY <1>1 DEF SendEvent, Inv, TypeOK
  <2>2. Head(outbox) \in NetEvents /\ Tail(outbox) \in Seq(NetEvents)
    BY <2>1, TakeHead
  <2>3. Append(events, Head(outbox)) \in Seq(NetEvents) /\ Len(Append(events, Head(outbox))) = Len(events) + 1
    BY <2>1, <2>2, PutLast
  <2>4. outbox' \in Seq(NetEvents) /\ events' \in Seq(NetEvents) /\ Len(events') <= EventCap
    BY <1>1, <2>1, <2>2, <2>3, ConstantTypes DEF SendEvent, HasRoom
  <2>5. TypeOK'
    BY <1>1, <2>4 DEF Inv, TypeOK, SendEvent
  <2>6. ErrorOnce' /\ DroppedEmpty'
    BY <1>1 DEF Inv, ErrorOnce, DroppedEmpty, SendEvent
  <2> QED BY <2>5, <2>6 DEF Inv
<1>2. CASE SendDone
  BY <1>2 DEF Inv, TypeOK, ErrorOnce, DroppedEmpty, SendDone
<1>3. CASE SendError
  BY <1>3 DEF Inv, TypeOK, ErrorOnce, DroppedEmpty, SendError
<1>4. CASE PollerDone \/ PollerExit
  BY <1>4 DEF Inv, TypeOK, ErrorOnce, DroppedEmpty, PollerDone, PollerExit
<1> QED BY <1>1, <1>2, <1>3, <1>4

\* The service.
LEMMA ServiceInv ==
  ASSUME Inv, ServiceStep \/ Signal
  PROVE  Inv'
<1> USE DEF vars, target, snapshot, channels, service
<1>1. CASE HandleEvent
  <2>1. Head(events) \in NetEvents /\ Tail(events) \in Seq(NetEvents) /\ Len(Tail(events)) = Len(events) - 1
        /\ Len(events) \in Nat
    BY <1>1, TakeHead DEF HandleEvent, Inv, TypeOK
  <2>2. view' \in Snapshots
    BY <1>1, <2>1 DEF HandleEvent, Inv, TypeOK, Snapshots, NetEvents
  <2>3. events' \in Seq(NetEvents) /\ Len(events') <= EventCap
    BY <1>1, <2>1, ConstantTypes DEF HandleEvent, Inv, TypeOK
  <2>4. TypeOK'
    BY <1>1, <2>2, <2>3 DEF Inv, TypeOK, HandleEvent
  <2>5. ErrorOnce' /\ DroppedEmpty'
    BY <1>1 DEF Inv, ErrorOnce, DroppedEmpty, HandleEvent
  <2> QED BY <2>4, <2>5 DEF Inv
<1>2. CASE HandleError
  BY <1>2 DEF Inv, TypeOK, ErrorOnce, DroppedEmpty, HandleError
<1>3. CASE HandleSignal \/ Signal
  BY <1>3 DEF Inv, TypeOK, ErrorOnce, DroppedEmpty, HandleSignal, Signal
<1>4. ASSUME NEW c \in {"events", "errors"}, ChannelClosed(c) PROVE Inv'
  <2>1. open' = open \ {c} /\ main' = IF open \ {c} = {} THEN "ended" ELSE "loop"
    BY <1>4 DEF ChannelClosed, StillOpen
  <2>2. UNCHANGED <<target, poller, snapshot, outbox, channels, done, signalled, view>>
    BY <1>4 DEF ChannelClosed
  <2>3. TypeOK' /\ ErrorOnce'
    BY <2>1, <2>2 DEF Inv, TypeOK, ErrorOnce
  <2>4. DroppedEmpty'
    BY <1>4, <2>1, <2>2 DEF Inv, DroppedEmpty, ChannelClosed
  <2> QED BY <2>3, <2>4 DEF Inv
<1> QED BY <1>1, <1>2, <1>3, <1>4 DEF ServiceStep

\* Every step keeps the invariant, and so does no step.
LEMMA NextInv == Inv /\ [Next]_vars => Inv'
<1> SUFFICES ASSUME Inv, [Next]_vars PROVE Inv'
  OBVIOUS
<1>1. CASE UNCHANGED vars
  BY <1>1 DEF vars, target, snapshot, channels, service, Inv, TypeOK, ErrorOnce, DroppedEmpty
<1>2. CASE PollerStep
  BY <1>2, SnapshotInv, SendInv DEF PollerStep
<1>3. CASE TargetStep \/ ServiceStep \/ Signal
  BY <1>3, TargetInv, ServiceInv
<1>4. CASE Terminated
  BY <1>1, <1>4 DEF Terminated
<1> QED BY <1>1, <1>2, <1>3, <1>4 DEF Next

\* The inductive invariant holds.
LEMMA AlwaysInv == Spec => []Inv
BY InitInv, NextInv, PTL DEF Spec

\* The variables stay in their ranges, the channel within its capacity
\* (NewNetWatcherComponent).
THEOREM NetTyped == Spec => []TypeOK
<1>1. Inv => TypeOK
  BY DEF Inv
<1> QED BY <1>1, AlwaysInv, PTL

\* startNetwork returns by itself only with both channels empty
\* (NetEndedComplete, for all sockets and capacities).
THEOREM EndsComplete == Spec => []NetEndedComplete
<1>1. Inv => NetEndedComplete
  BY DEF Inv, DroppedEmpty, NetEndedComplete
<1> QED BY <1>1, AlwaysInv, PTL

\* What an event shows of a peer tells it from all others, for every choice of
\* addresses (ParseHexIP).
THEOREM PeersShown == Spec => []AddressShown
BY NetTyped, TypeShows, PTL

-----------------------------------------------------------------------------
(***************************************************************************)
(* What a close is reported of.                                            *)
(***************************************************************************)
\* At first nothing has been seen.
LEMMA InitCloses == Init => Closes
BY DEF Init, Closes, Seen, NoneMissed, ClosesExplained, NothingOpen

\* A socket never leaves a table, the process or, while links are read, a
\* descriptor without its close being explained.
LEMMA TargetCloses ==
  ASSUME Inv, Closes, TargetStep
  PROVE  Closes'
<1> DEFINE Stays(j) == /\ j \in held => j \in held' \cup Explained'
                       /\ j \in held /\ tables[j] # NoConn =>
                            j \in Explained' \/ (j \in held' /\ tables'[j] # NoConn)
           Moves(j) == poller = "listing" /\ (\E d \in listed : fds[d] = j) =>
                         j \in Explained' \/ \E d \in listed : fds'[d] = j
           Kept == Explained \subseteq Explained' /\ \A j \in Inodes : Stays(j) /\ Moves(j)
<1>0. held \subseteq Inodes /\ listed \subseteq Fds /\ fds \in [Fds -> created \cup {NoSocket}]
      /\ tables \in [Inodes -> Conns \cup {NoConn}] /\ NoSocket \notin Inodes /\ NoConn \notin Conns
  BY HeldMade, ConstantTypes, InfoType DEF Inv, TypeOK
<1>1. Kept
  <2>1. ASSUME NEW i \in Inodes, NEW d \in Fds, Socket(i, d) PROVE Kept
    BY <1>0, <2>1 DEF Socket, held, Explained
  <2>2. ASSUME NEW d \in Fds, NEW e \in Fds, Dup(d, e) PROVE Kept
    BY <1>0, <2>2 DEF Dup, held, Explained
  <2>3. ASSUME NEW i \in Inodes, NEW c \in Conns, Connect(i, c) PROVE Kept
    <3>1. UNCHANGED <<fds, gone, slipped>> /\ tables' = [tables EXCEPT ![i] = c]
      BY <2>3 DEF Connect
    <3> QED BY <1>0, <3>1 DEF held, Explained
  <2>4. ASSUME NEW i \in Inodes, Reset(i) PROVE Kept
    <3>1. /\ UNCHANGED <<fds, slipped>> /\ gone' = gone \cup {i}
          /\ tables' = [tables EXCEPT ![i] = NoConn]
      BY <2>4 DEF Reset
    <3> QED BY <1>0, <3>1 DEF held, Explained
  <2>5. CASE Fork
    BY <2>5 DEF Fork, held, Explained
  <2>6. CASE ChildExit
    BY <1>0, <2>6 DEF ChildExit, Leave, held, Explained
  <2>7. ASSUME NEW d \in Fds, CloseFd(d) PROVE Kept
    <3> DEFINE i == fds[d]
               last == fds[d] \notin {fds[e] : e \in Fds \ {d}}
    <3>1. /\ fds' = [fds EXCEPT ![d] = NoSocket] /\ i # NoSocket
          /\ Leave(IF last THEN {i} \ shared ELSE {})
          /\ slipped' = IF (IF last THEN i \in shared ELSE poller = "listing")
                        THEN slipped \cup {i} ELSE slipped
      BY <2>7 DEF CloseFd
    <3> HIDE DEF last
    <3>2. Explained \subseteq Explained' /\ (last => i \in Explained')
          /\ (poller = "listing" => i \in Explained')
      BY <3>1 DEF Explained, Leave
    <3>3. \A j \in Inodes : tables'[j] = tables[j] \/ j \in Explained'
      BY <3>1 DEF Explained, Leave
    <3>4. \A j \in held \ {i} : j \in held'
      BY <1>0, <3>1 DEF held
    <3>5. ~last => i \in held'
      BY <1>0, <3>1 DEF held, last
    <3>6. \A j \in Inodes : Stays(j)
      BY <3>2, <3>3, <3>4, <3>5
    <3>7. \A j \in Inodes : Moves(j)
      BY <1>0, <3>1, <3>2
    <3> QED BY <3>2, <3>6, <3>7
  <2>8. CASE Exit
    BY <1>0, <2>8 DEF Exit, Leave, held, Explained
  <2> QED BY <2>1, <2>2, <2>3, <2>4, <2>5, <2>6, <2>7, <2>8 DEF TargetStep
<1>2. UNCHANGED <<poller, listed, inodes, unread, previous, next, outbox, events>>
  BY DEF TargetStep, Socket, Dup, Connect, Reset, Fork, ChildExit, CloseFd, Exit, NotTarget,
         snapshot, channels
<1> HIDE DEF Stays, Moves
<1>3. inodes' \subseteq held' \cup Explained'
  BY <1>0, <1>1, <1>2 DEF Closes, Stays
<1>4. Seen(previous)' /\ Seen(next)'
  BY <1>1, <1>2 DEF Closes, Seen, Stays
<1>5. NoneMissed'
  BY <1>1, <1>2 DEF Closes, NoneMissed, Moves
<1>6. ClosesExplained(outbox)' /\ ClosesExplained(events)'
  BY <1>1, <1>2 DEF Closes, ClosesExplained
<1> QED BY <1>3, <1>4, <1>5, <1>6 DEF Closes

\* The descriptors, one after the other.
LEMMA ListingCloses ==
  ASSUME Inv, Closes, ReadDir \/ (\E d \in Fds : Readlink(d)) \/ ListDone
  PROVE  Closes'
<1>0. held \subseteq Inodes /\ listed \subseteq Fds /\ fds \in [Fds -> created \cup {NoSocket}]
      /\ NoSocket \notin Inodes
  BY HeldMade, ConstantTypes DEF Inv, TypeOK
<1>1. UNCHANGED <<gone, slipped, fds, tables, previous, outbox, events>>
  BY DEF ReadDir, Readlink, ListDone, target, channels
<1>2. Seen(previous)' /\ ClosesExplained(outbox)' /\ ClosesExplained(events)'
  BY <1>1 DEF Closes, Seen, ClosesExplained, Explained, held
<1>3. CASE ReadDir
  <2>1. /\ UNCHANGED <<next, inodes>> \/ (next' = next /\ inodes' = {})
        /\ poller' \in {"listing", "failing"}
        /\ poller' = "listing" => listed' = Fds
    BY <1>3 DEF ReadDir
  <2>2. inodes' \subseteq held' \cup Explained' /\ Seen(next)'
    BY <1>1, <2>1 DEF Closes, Seen, Explained, held
  <2>3. \A i \in Inodes : previous[i] # NoConn /\ i \notin Explained => \E d \in Fds : fds[d] = i
    BY <1>0 DEF Closes, Seen, held
  <2>4. NoneMissed'
    BY <1>1, <2>1, <2>3 DEF NoneMissed, Explained
  <2> QED BY <1>2, <2>2, <2>4 DEF Closes
<1>4. ASSUME NEW d \in Fds, Readlink(d) PROVE Closes'
  <2>1. /\ inodes' = inodes \cup ({fds[d]} \ {NoSocket}) /\ listed' = listed \ {d}
        /\ UNCHANGED <<poller, next>> /\ poller = "listing"
    BY <1>4 DEF Readlink
  <2>2. inodes' \subseteq held' \cup Explained' /\ Seen(next)'
    BY <1>1, <2>1 DEF Closes, Seen, Explained, held
  <2>3. NoneMissed'
    BY <1>0, <1>1, <2>1 DEF Closes, NoneMissed, Explained
  <2> QED BY <1>2, <2>2, <2>3 DEF Closes
<1>5. CASE ListDone
  <2>1. /\ UNCHANGED inodes /\ poller = "listing" /\ listed = {} /\ poller' = "reading"
        /\ next' = NothingOpen /\ unread' = IF inodes = {} THEN {} ELSE Inodes
    BY <1>5 DEF ListDone
  <2>2. inodes' \subseteq held' \cup Explained' /\ Seen(next)'
    BY <1>1, <2>1 DEF Closes, Seen, Explained, held, NothingOpen
  <2>3. NoneMissed'
    BY <1>1, <2>1 DEF Closes, NoneMissed, Explained
  <2> QED BY <1>2, <2>2, <2>3 DEF Closes
<1> QED BY <1>3, <1>4, <1>5

\* The rows, one after the other.
LEMMA RowCloses ==
  ASSUME Inv, Closes, NEW i \in Inodes, ReadRow(i) \/ MissRow(i) \/ SkipTable(i)
  PROVE  Closes'
<1>1. UNCHANGED <<gone, fds, tables, previous, outbox, events, inodes, poller>>
      /\ poller = "reading" /\ Explained \subseteq Explained' /\ held' = held
  BY DEF ReadRow, MissRow, SkipTable, Reading, target, channels, Explained, held
<1>2. /\ inodes' \subseteq held' \cup Explained' /\ Seen(previous)'
      /\ ClosesExplained(outbox)' /\ ClosesExplained(events)'
  BY <1>1 DEF Closes, Seen, ClosesExplained
<1>3. \A j \in Inodes : previous[j] # NoConn /\ j \notin Explained' =>
        j \in inodes /\ (j \notin unread => next[j] # NoConn) /\ tables[j] # NoConn
  BY <1>1 DEF Closes, Seen, NoneMissed
<1>4. \A j \in Inodes : NetConnInfo(tables[j]) = NoConn <=> tables[j] = NoConn
  BY InfoType DEF Inv, TypeOK
<1>5. CASE ReadRow(i)
  <2>1. /\ next' = Found(i) /\ unread' = unread \ {i}
        /\ \A j \in Inodes : Found(i)[j] = IF j = i /\ i \in inodes THEN NetConnInfo(tables[i])
                                           ELSE next[j]
    BY <1>5, FoundType DEF ReadRow, Inv
  <2>2. Seen(next)'
    <3> SUFFICES ASSUME NEW j \in Inodes, next'[j] # NoConn
                 PROVE  j \in Explained' \/ (j \in held /\ tables[j] # NoConn)
      BY <1>1 DEF Seen
    <3>1. CASE j = i /\ i \in inodes
      BY <1>1, <1>2, <1>4, <2>1, <3>1
    <3>2. CASE ~(j = i /\ i \in inodes)
      <4>1. next[j] # NoConn
        BY <2>1, <3>2
      <4> QED BY <1>1, <4>1 DEF Closes, Seen
    <3> QED BY <3>1, <3>2
  <2>3. NoneMissed'
    BY <1>1, <1>3, <1>4, <2>1 DEF NoneMissed
  <2> QED BY <1>2, <2>2, <2>3 DEF Closes
<1>6. CASE MissRow(i)
  <2>1. next' = next /\ unread' = unread \ {i} /\ i \in Explained'
    BY <1>6 DEF MissRow, Explained
  <2>2. Seen(next)' /\ NoneMissed'
    BY <1>1, <1>3, <2>1 DEF Closes, Seen, NoneMissed
  <2> QED BY <1>2, <2>2 DEF Closes
<1>7. CASE SkipTable(i)
  <2>1. /\ next' = [j \in Inodes |-> IF j \in TableOf(i) THEN NoConn ELSE next[j]]
        /\ unread' = unread \ TableOf(i) /\ TableOf(i) \subseteq Explained'
    BY <1>7 DEF SkipTable, Explained
  <2> HIDE DEF TableOf
  <2>2. Seen(next)' /\ NoneMissed'
    BY <1>1, <1>3, <2>1 DEF Closes, Seen, NoneMissed
  <2> QED BY <1>2, <2>2 DEF Closes
<1> QED BY <1>5, <1>6, <1>7

\* A whole snapshot is compared with the last one.
LEMMA SnapshotCloses ==
  ASSUME Inv, Closes, SnapshotDone
  PROVE  Closes'
<1>1. UNCHANGED <<gone, slipped, fds, tables, next, events, inodes>> /\ poller = "reading" /\ unread = {}
  BY DEF SnapshotDone, target, channels
<1>2. \A i \in Inodes : previous[i] # NoConn /\ i \notin Explained => next[i] # NoConn
  BY <1>1 DEF Closes, NoneMissed
<1>3. inodes' \subseteq held' \cup Explained' /\ Seen(next)' /\ ClosesExplained(events)'
      /\ Explained' = Explained /\ held' = held
  BY <1>1 DEF Closes, Seen, ClosesExplained, Explained, held
<1>4. CASE first
  <2>1. previous' = next /\ outbox' = outbox /\ poller' = "idle"
    BY <1>4 DEF SnapshotDone
  <2> QED BY <1>1, <1>3, <2>1 DEF Closes, Seen, NoneMissed, ClosesExplained
<1>5. CASE ~first
  <2>1. previous' = previous /\ outbox' = Diff(previous, next) /\ poller' = "sending"
    BY <1>5 DEF SnapshotDone
  <2>2. ClosesExplained(outbox)'
    <3>1. outbox' \in Seq(Differences(previous, next))
      BY <2>1, DiffType DEF Inv, TypeOK
    <3>2. \A e \in Differences(previous, next) : e.op = "TCP_CLOSE" => e.inode \in Explained
      BY <1>2 DEF Differences, NetEvents
    <3> QED BY <1>3, <3>1, <3>2 DEF ClosesExplained
  <2>3. NoneMissed' /\ Seen(previous)'
    BY <1>1, <1>2, <1>3, <2>1 DEF Closes, Seen, NoneMissed
  <2> QED BY <1>3, <2>2, <2>3 DEF Closes
<1> QED BY <1>4, <1>5 DEF Inv, TypeOK

\* Sending and handling only move events along.
LEMMA RestCloses ==
  ASSUME Inv, Closes,
         SendEvent \/ SendDone \/ SendError \/ PollerDone \/ PollerExit \/ ServiceStep \/ Signal
  PROVE  Closes'
<1> USE DEF target, snapshot, channels, service, Explained, held
<1>1. CASE SendEvent
  <2>1. outbox \in Seq(NetEvents) /\ outbox # <<>> /\ events \in Seq(NetEvents)
    BY <1>1 DEF SendEvent, Inv, TypeOK
  <2>2. outbox' = Tail(outbox) /\ events' = Append(events, Head(outbox)) /\ UNCHANGED <<gone, slipped>>
    BY <1>1 DEF SendEvent
  <2>3. ClosesExplained(outbox)' /\ ClosesExplained(events)'
    BY <2>1, <2>2 DEF Closes, ClosesExplained
  <2> QED BY <1>1, <2>3 DEF Closes, Seen, NoneMissed, SendEvent
<1>2. CASE SendDone
  BY <1>2 DEF Closes, Seen, NoneMissed, ClosesExplained, SendDone
<1>3. CASE SendError \/ PollerDone \/ PollerExit
  BY <1>3 DEF Closes, Seen, NoneMissed, ClosesExplained, SendError, PollerDone, PollerExit
<1>4. CASE HandleEvent
  <2>1. events \in Seq(NetEvents) /\ events # <<>> /\ events' = Tail(events) /\ UNCHANGED <<gone, slipped>>
    BY <1>4 DEF HandleEvent, Inv, TypeOK
  <2>2. ClosesExplained(events)'
    BY <2>1 DEF Closes, ClosesExplained
  <2> QED BY <1>4, <2>2 DEF Closes, Seen, NoneMissed, ClosesExplained, HandleEvent
<1>5. CASE HandleError \/ HandleSignal \/ Signal
  BY <1>5 DEF Closes, Seen, NoneMissed, ClosesExplained, HandleError, HandleSignal, Signal
<1>6. CASE \E c \in {"events", "errors"} : ChannelClosed(c)
  BY <1>6 DEF Closes, Seen, NoneMissed, ClosesExplained, ChannelClosed
<1> QED BY <1>1, <1>2, <1>3, <1>4, <1>5, <1>6 DEF ServiceStep

\* Every step keeps Closes.
LEMMA NextCloses ==
  ASSUME Inv, Closes, [Next]_vars
  PROVE  Closes'
<1>1. CASE UNCHANGED vars
  BY <1>1 DEF vars, target, snapshot, channels, Closes, Seen, NoneMissed, ClosesExplained, Explained, held
<1>2. CASE TargetStep
  BY <1>2, TargetCloses
<1>3. CASE PollerStep
  BY <1>3, ListingCloses, RowCloses, SnapshotCloses, RestCloses DEF PollerStep
<1>4. CASE ServiceStep \/ Signal
  BY <1>4, RestCloses
<1>5. CASE Terminated
  BY <1>1, <1>5 DEF Terminated
<1> QED BY <1>1, <1>2, <1>3, <1>4, <1>5 DEF Next

\* CloseReasons: however the process, the reading of its descriptors and the
\* reading of the tables interleave, a socket that the service is told is
\* closed has left the tables, or one of the four things has come to pass that
\* CloseExplained names (readProcessSocketInodes, ReadProcNetFiles,
\* diffNetSnapshots).
THEOREM CloseReasons == Spec => []CloseExplained
<1>1. Inv /\ Closes /\ [Next]_vars => Closes'
  BY NextCloses
<1>2. Closes => CloseExplained
  BY DEF Closes, ClosesExplained, Explained, CloseExplained
<1> QED BY <1>1, <1>2, InitCloses, AlwaysInv, PTL DEF Spec
-----------------------------------------------------------------------------
(***************************************************************************)
(* What the reports show.                                                  *)
(***************************************************************************)
Values == Infos \cup {NoConn}

\* What an event shows of its socket.
ShownBy(e) == IF e.op = "TCP_CLOSE" THEN NoConn ELSE e.conn

\* Events about i say what it is now, others leave it alone.
Telling(i) ==
  {t \in Values \X NetEvents \X Values :
     IF t[2].inode = i THEN t[3] = ShownBy(t[2]) ELSE t[1] = t[3]}

\* What is reported need not be all that the snapshot shows.
Same(i, told, seen) ==
  /\ told = NoConn <=> seen = NoConn
  /\ i \in Tcp /\ seen # NoConn => told.state = seen.state

\* Until a signal is handled nothing is given up.
NothingLost ==
  main = "loop" =>
    /\ ~done /\ (poller # "sending" => outbox = <<>>)
    /\ first => events = <<>> /\ poller # "sending"
    /\ poller = "start" => first

\* What is handled, what is in the channel and what is still to send lead
\* from one another to the latest snapshot.
Ordered ==
  main = "loop" /\ ~first /\ poller \in {"idle", "listing", "reading", "sending"} =>
    \A i \in Inodes : \E u, w \in Values :
      /\ Trail(Telling(i), events, view[i], u) /\ Trail(Telling(i), outbox, u, w)
      /\ Same(i, w, Latest[i])

LEMMA TellingAs ==
  ASSUME NEW i \in Inodes, NEW e \in NetEvents, NEW v \in Values, NEW w \in Values
  PROVE  <<v, e, w>> \in Telling(i) <=> IF e.inode = i THEN w = ShownBy(e) ELSE v = w
BY DEF Telling

\* The differences of two snapshots lead from what is told of one to what is
\* to be told of the other.
LEMMA DiffTrail ==
  ASSUME NEW i \in Inodes, NEW old \in Snapshots, NEW new \in Snapshots,
         NEW u \in Values, Same(i, u, old[i])
  PROVE  \E w \in Values : Trail(Telling(i), Diff(old, new), u, w) /\ Same(i, w, new[i])
<1> DEFINE R == Telling(i)
           seqs == [j \in 1 .. LastInode |-> IF j \in Inodes THEN DiffAt(old, new, j) ELSE <<>>]
<1>1. /\ LastInode \in Nat /\ i \in 1 .. LastInode /\ seqs \in Seq(Seq(NetEvents))
      /\ Len(seqs) = LastInode
  <2>1. \A j \in Inodes : DiffAt(old, new, j) \in Seq(NetEvents)
    <3>1. Differences(old, new) \subseteq NetEvents
      BY DEF Differences
    <3> QED BY <3>1, DiffType
  <2> QED BY <2>1, ConstantTypes
<1>2. \A j \in 1 .. LastInode : seqs[j] = IF j \in Inodes THEN DiffAt(old, new, j) ELSE <<>>
  OBVIOUS
<1> HIDE DEF R, seqs
<1>3. old[i] \in Values /\ new[i] \in Values /\ NoConn \in Values
  BY DEF Snapshots, Values
<1>4. \E w \in Values : Trail(R, DiffAt(old, new, i), u, w) /\ Same(i, w, new[i])
  <2>1. CASE DiffAt(old, new, i) = <<>>
    <3>1. Same(i, u, new[i])
      BY <2>1 DEF DiffAt, Same
    <3> QED BY <2>1, <3>1, TrailEmpty
  <2>2. CASE DiffAt(old, new, i) # <<>>
    <3>1. PICK e : DiffAt(old, new, i) = <<e>> /\ e.inode = i /\ e.op \in NetOps /\ e.conn \in Infos
                   /\ ShownBy(e) = new[i] /\ e \in NetEvents
      <4> DEFINE event(op, c) == [inode |-> i, op |-> op, conn |-> c]
      <4>1. CASE old[i] = NoConn /\ new[i] # NoConn
        <5>1. NewOp(i, new[i]) \in NetOps \ {"TCP_CLOSE"}
          BY DEF NewOp, NetOps, Inodes
        <5>2. DiffAt(old, new, i) = <<event(NewOp(i, new[i]), new[i])>>
          BY <4>1 DEF DiffAt
        <5> QED BY <1>3, <4>1, <5>1, <5>2 DEF NetEvents, ShownBy, Values
      <4>2. CASE old[i] # NoConn /\ new[i] = NoConn
        <5>1. DiffAt(old, new, i) = <<event("TCP_CLOSE", old[i])>>
          BY <4>2 DEF DiffAt
        <5> QED BY <1>3, <4>2, <5>1 DEF NetEvents, NetOps, ShownBy, Values
      <4>3. CASE old[i] # NoConn /\ new[i] # NoConn
        <5>1. DiffAt(old, new, i) = <<event("TCP_STATE", new[i])>>
          BY <2>2, <4>3 DEF DiffAt
        <5> QED BY <1>3, <4>3, <5>1 DEF NetEvents, NetOps, ShownBy, Values
      <4>4. ~(old[i] = NoConn /\ new[i] = NoConn)
        BY <2>2 DEF DiffAt
      <4> QED BY <4>1, <4>2, <4>3, <4>4
    <3>2. <<u, e, new[i]>> \in R
      BY <1>3, <3>1, TellingAs DEF R
    <3>3. Same(i, new[i], new[i])
      BY DEF Same
    <3> QED BY <1>3, <3>1, <3>2, <3>3, TrailOne
  <2> QED BY <2>1, <2>2
<1>5. PICK w \in Values : Trail(R, DiffAt(old, new, i), u, w) /\ Same(i, w, new[i])
  BY <1>4
<1> DEFINE h == [j \in 0 .. LastInode |-> IF j < i THEN u ELSE w]
<1>6. \A j \in 0 .. LastInode : h[j] = IF j < i THEN u ELSE w
  OBVIOUS
<1> HIDE DEF h
<1>7. \A j \in 1 .. LastInode : Trail(R, seqs[j], h[j - 1], h[j])
  <2> TAKE j \in 1 .. LastInode
  <2>1. j - 1 \in 0 .. LastInode /\ j \in 0 .. LastInode
    BY <1>1
  <2>2. CASE j = i
    <3>1. h[j - 1] = u /\ h[j] = w
      BY <1>1, <1>6, <2>1, <2>2
    <3> QED BY <1>2, <1>5, <2>2, <3>1
  <2>3. CASE j # i
    <3>1. h[j - 1] = h[j] /\ h[j] \in Values
      BY <1>1, <1>6, <2>1, <2>3
    <3>2. seqs[j] \in Seq(NetEvents) /\ \A n \in DOMAIN seqs[j] : seqs[j][n].inode = j
      <4>1. seqs[j] \in Seq(NetEvents)
        BY <1>1
      <4>2. \A n \in DOMAIN DiffAt(old, new, j) : DiffAt(old, new, j)[n].inode = j
        BY DEF DiffAt
      <4> QED BY <1>2, <4>1, <4>2
    <3>3. \A n \in DOMAIN seqs[j] : <<h[j], seqs[j][n], h[j]>> \in R
      <4> TAKE n \in DOMAIN seqs[j]
      <4>1. seqs[j][n] \in NetEvents /\ seqs[j][n].inode # i
        BY <2>3, <3>2
      <4> QED BY <3>1, <4>1, TellingAs DEF R
    <3> QED BY <3>1, <3>2, <3>3, TrailStays
  <2> QED BY <2>2, <2>3
<1>8. Trail(R, FlattenSeq(seqs), h[0], h[LastInode])
  BY <1>1, <1>7, TrailFlatten
<1>9. h[0] = u /\ h[LastInode] = w
  BY <1>1, <1>6
<1> QED BY <1>5, <1>8, <1>9 DEF Diff, R, seqs

\* What the last event about a socket shows is where its trail leads.
LEMMA ReportedByTrail ==
  ASSUME Inv, NEW i \in Inodes, NEW w, Trail(Telling(i), events \o outbox, view[i], w)
  PROVE  Reported[i] = w
<1> DEFINE s == events \o outbox
           k == Len(s)
           about == {n \in DOMAIN s : s[n].inode = i}
<1>1. s \in Seq(NetEvents)
  BY DEF Inv, TypeOK
<1>2. Reported[i] = IF about = {} THEN view[i] ELSE ShownBy(s[Max(about)])
  BY DEF Reported, ShownBy
<1>3. Trail(Telling(i), s, view[i], w)
  OBVIOUS
<1> HIDE DEF s
<1>4. PICK g : /\ g[0] = view[i] /\ g[k] = w
               /\ \A n \in 1 .. k : <<g[n - 1], s[n], g[n]>> \in Telling(i)
  BY <1>3 DEF Trail
<1>5. k \in Nat /\ DOMAIN s = 1 .. k /\ \A n \in 1 .. k : s[n] \in NetEvents
  BY <1>1
<1>6. \A n \in 1 .. k : IF n \in about THEN g[n] = ShownBy(s[n]) ELSE g[n] = g[n - 1]
  <2> TAKE n \in 1 .. k
  <2>1. <<g[n - 1], s[n], g[n]>> \in Telling(i) /\ s[n] \in NetEvents
    BY <1>4, <1>5
  <2>2. g[n - 1] \in Values /\ g[n] \in Values
    BY <2>1 DEF Telling
  <2> QED BY <1>5, <2>1, <2>2, TellingAs
<1>7. about \subseteq 1 .. k
  BY <1>5
<1> HIDE DEF about, k
<1>8. CASE about = {}
  <2>1. (\A n \in 0 + 1 .. k : g[n] = g[n - 1]) /\ 0 \in 0 .. k
    BY <1>5, <1>6, <1>8
  <2>2. g[k] = g[0]
    BY <1>5, <2>1, Unchanging
  <2> QED BY <1>2, <1>4, <1>8, <2>2
<1>9. CASE about # {}
  <2> DEFINE m == Max(about)
  <2>1. m \in about /\ \A n \in about : n <= m
    BY <1>5, <1>7, <1>9, Greatest
  <2> HIDE DEF m
  <2>2. m \in 1 .. k /\ m \in 0 .. k
    BY <1>5, <1>7, <2>1
  <2>3. \A n \in m + 1 .. k : g[n] = g[n - 1]
    <3> TAKE n \in m + 1 .. k
    <3>1. n \in 1 .. k /\ ~(n <= m)
      BY <1>5, <2>2
    <3> QED BY <1>6, <2>1, <3>1
  <2>4. g[k] = g[m]
    BY <1>5, <2>2, <2>3, Unchanging
  <2>5. g[m] = ShownBy(s[m])
    BY <1>6, <2>1, <2>2
  <2> QED BY <1>2, <1>4, <1>9, <2>4, <2>5 DEF m
<1> QED BY <1>8, <1>9
LEMMA InitOrdered == Init => NothingLost /\ Ordered
BY DEF Init, NothingLost, Ordered

LEMMA NextNothingLost ==
  ASSUME Inv, NothingLost, [Next]_vars
  PROVE  NothingLost'
<1> USE DEF vars, target, snapshot, channels, service
<1>1. CASE UNCHANGED vars \/ Terminated
  BY <1>1 DEF NothingLost, Terminated
<1>2. CASE TargetStep
  BY <1>2 DEF NothingLost, TargetStep, Socket, Dup, Connect, Reset, Fork,
                    ChildExit, CloseFd, Exit, NotTarget
<1>3. CASE PollerStep
  BY <1>3 DEF NothingLost, PollerStep, ReadDir, Readlink, ListDone, ReadRow, MissRow, SkipTable,
              SnapshotDone, SendEvent,
              SendDone, SendError, PollerDone, PollerExit
<1>4. CASE ServiceStep \/ Signal
  BY <1>4 DEF NothingLost, ServiceStep, HandleEvent, HandleError, HandleSignal, ChannelClosed, Signal
<1> QED BY <1>1, <1>2, <1>3, <1>4 DEF Next

\* The types of what the steps below are about.
LEMMA StreamTypes ==
  ASSUME Inv
  PROVE  /\ outbox \in Seq(NetEvents) /\ events \in Seq(NetEvents)
         /\ view \in [Inodes -> Values] /\ previous \in Snapshots /\ next \in Snapshots
         /\ first \in BOOLEAN
BY DEF Inv, TypeOK, Values, Snapshots

\* A new snapshot is the first, or its differences are to be sent.
LEMMA SnapshotDoneOrdered ==
  ASSUME Inv, NothingLost, Ordered, SnapshotDone
  PROVE  Ordered'
<1> SUFFICES ASSUME main = "loop", NEW i \in Inodes
             PROVE  \E u, w \in Values :
                      /\ Trail(Telling(i), events', view'[i], u) /\ Trail(Telling(i), outbox', u, w)
                      /\ Same(i, w, Latest'[i])
  BY DEF SnapshotDone, Ordered, Telling, service
<1>1. outbox = <<>> /\ events' = events /\ next' = next /\ poller = "reading"
  BY DEF SnapshotDone, NothingLost, channels
<1>2. CASE first
  <2>1. /\ events = <<>> /\ outbox' = <<>> /\ view'[i] = next[i] /\ Latest'[i] = next[i]
        /\ next[i] \in Values
    BY <1>1, <1>2 DEF SnapshotDone, NothingLost, Latest, Inv, TypeOK, Snapshots, Values
  <2> QED BY <1>1, <2>1, TrailEmpty DEF Same
<1>3. CASE ~first
  <2>1. PICK u \in Values, w \in Values :
          /\ Trail(Telling(i), events, view[i], u) /\ Trail(Telling(i), outbox, u, w)
          /\ Same(i, w, Latest[i])
    BY <1>1, <1>3 DEF Ordered
  <2>2. /\ w = u /\ Latest[i] = previous[i] /\ Latest'[i] = next[i]
        /\ outbox' = Diff(previous, next) /\ view' = view
    BY <1>1, <1>3, <2>1, TrailEmpty DEF SnapshotDone, Latest
  <2>3. PICK x \in Values : Trail(Telling(i), Diff(previous, next), u, x) /\ Same(i, x, next[i])
    BY <2>1, <2>2, DiffTrail, StreamTypes
  <2> QED BY <1>1, <2>1, <2>2, <2>3
<1> QED BY <1>2, <1>3, StreamTypes

\* An event goes from the outbox into the channel.
LEMMA SendEventOrdered ==
  ASSUME Inv, NothingLost, Ordered, SendEvent
  PROVE  Ordered'
<1> SUFFICES ASSUME main = "loop", ~first, NEW i \in Inodes
             PROVE  \E u, w \in Values :
                      /\ Trail(Telling(i), events', view'[i], u) /\ Trail(Telling(i), outbox', u, w)
                      /\ Same(i, w, Latest'[i])
  BY DEF SendEvent, Ordered, Telling, service, snapshot
<1>1. /\ outbox # <<>> /\ outbox' = Tail(outbox) /\ events' = Append(events, Head(outbox))
      /\ view' = view /\ Latest' = Latest /\ poller = "sending"
  BY DEF SendEvent, Latest, snapshot
<1>2. PICK u \in Values, w \in Values :
        /\ Trail(Telling(i), events, view[i], u) /\ Trail(Telling(i), outbox, u, w)
        /\ Same(i, w, Latest[i])
  BY <1>1 DEF Ordered
<1>3. PICK x : <<u, Head(outbox), x>> \in Telling(i) /\ Trail(Telling(i), Tail(outbox), x, w)
  BY <1>1, <1>2, TrailHead, StreamTypes
<1>4. x \in Values /\ Head(outbox) \in NetEvents
  BY <1>3 DEF Telling
<1>5. Trail(Telling(i), Append(events, Head(outbox)), view[i], x)
  BY <1>2, <1>3, <1>4, TrailAppend, StreamTypes
<1> QED BY <1>1, <1>2, <1>3, <1>4, <1>5

\* A report shows what its event says.
LEMMA HandleEventOrdered ==
  ASSUME Inv, NothingLost, Ordered, HandleEvent
  PROVE  Ordered'
<1> SUFFICES ASSUME main = "loop", ~first, poller \in {"idle", "listing", "reading", "sending"}, NEW i \in Inodes
             PROVE  \E u, w \in Values :
                      /\ Trail(Telling(i), events', view'[i], u) /\ Trail(Telling(i), outbox', u, w)
                      /\ Same(i, w, Latest'[i])
  BY DEF HandleEvent, Ordered, Telling, service, snapshot
<1> DEFINE e == Head(events)
<1>1. /\ events # <<>> /\ events' = Tail(events) /\ outbox' = outbox /\ Latest' = Latest
      /\ view' = [view EXCEPT ![e.inode] = ShownBy(e)]
  BY DEF HandleEvent, Latest, snapshot, ShownBy
<1>2. PICK u \in Values, w \in Values :
        /\ Trail(Telling(i), events, view[i], u) /\ Trail(Telling(i), outbox, u, w)
        /\ Same(i, w, Latest[i])
  BY DEF Ordered
<1>3. PICK x : <<view[i], e, x>> \in Telling(i) /\ Trail(Telling(i), Tail(events), x, u)
  BY <1>1, <1>2, TrailHead, StreamTypes
<1>4. x \in Values /\ view[i] \in Values /\ e \in NetEvents
  BY <1>3 DEF Telling
<1> HIDE DEF e
<1>5. x = view'[i]
  <2>1. view'[i] = IF e.inode = i THEN ShownBy(e) ELSE view[i]
    BY <1>1, StreamTypes
  <2> QED BY <1>3, <1>4, <2>1, TellingAs
<1> QED BY <1>1, <1>2, <1>3, <1>5

\* The other steps move no event.
LEMMA NextOrdered ==
  ASSUME Inv, NothingLost, Ordered, [Next]_vars
  PROVE  Ordered'
<1> DEFINE Quiet == /\ UNCHANGED <<view, events, outbox, first>> /\ (main' = "loop" => main = "loop")
                    /\ poller' \in {"idle", "listing", "reading", "sending"} /\ main' = "loop" /\ ~first =>
                         poller \in {"idle", "listing", "reading", "sending"} /\ Latest' = Latest
<1>1. ASSUME Quiet PROVE Ordered'
  <2> SUFFICES ASSUME main' = "loop", ~first', poller' \in {"idle", "listing", "reading", "sending"}
               PROVE  Ordered'
    BY DEF Ordered
  <2>1. main = "loop" /\ ~first /\ poller \in {"idle", "listing", "reading", "sending"} /\ Latest' = Latest
        /\ UNCHANGED <<view, events, outbox, first>>
    BY <1>1
  <2> QED BY <2>1 DEF Ordered, Telling
<1> HIDE DEF Quiet
<1> USE DEF vars, target, snapshot, channels, service
<1>2. CASE TargetStep
  <2>1. Quiet
    BY <1>2 DEF Quiet, Latest, TargetStep, Socket, Dup, Connect, Reset, Fork,
                    ChildExit, CloseFd, Exit, NotTarget
  <2> QED BY <1>1, <2>1
<1>3. CASE \/ ReadDir \/ (\E d \in Fds : Readlink(d)) \/ ListDone
           \/ \E i \in Inodes : ReadRow(i) \/ MissRow(i) \/ SkipTable(i)
  <2>1. Quiet
    BY <1>3 DEF Quiet, NothingLost, Latest, ReadDir, Readlink, ListDone, ReadRow, MissRow,
                SkipTable, Reading
  <2> QED BY <1>1, <2>1
<1>4. CASE SnapshotDone
  BY <1>4, SnapshotDoneOrdered
<1>5. CASE SendEvent
  BY <1>5, SendEventOrdered
<1>6. CASE SendDone \/ SendError \/ PollerDone \/ PollerExit
  <2>1. Quiet
    BY <1>6 DEF Quiet, Latest, SendDone, SendError, PollerDone, PollerExit
  <2> QED BY <1>1, <2>1
<1>7. CASE HandleEvent
  BY <1>7, HandleEventOrdered
<1>8. CASE HandleError \/ HandleSignal \/ Signal \/ UNCHANGED vars \/ Terminated
  <2>1. Quiet
    BY <1>8 DEF Quiet, Latest, HandleError, HandleSignal, Signal, Terminated
  <2> QED BY <1>1, <2>1
<1>9. CASE \E c \in {"events", "errors"} : ChannelClosed(c)
  <2>1. Quiet
    BY <1>9 DEF Quiet, Latest, ChannelClosed
  <2> QED BY <1>1, <2>1
<1> QED BY <1>2, <1>3, <1>4, <1>5, <1>6, <1>7, <1>8, <1>9 DEF Next, PollerStep, ServiceStep

\* FaithfulNet: what is reported and what is on its way show the latest snapshot, the
\* same sockets and a tcp one in the same state (diffNetSnapshots, sendEvent,
\* Run).
THEOREM FaithfulNet == Spec => []NetFaithful
<1>1. Inv /\ Ordered => NetFaithful
  <2> SUFFICES ASSUME Inv, Ordered, main = "loop", ~first, poller \in {"idle", "listing", "reading", "sending"},
                      NEW i \in Inodes
               PROVE  Same(i, Reported[i], Latest[i])
    BY DEF NetFaithful, Same
  <2>1. PICK u \in Values, w \in Values :
          /\ Trail(Telling(i), events, view[i], u) /\ Trail(Telling(i), outbox, u, w)
          /\ Same(i, w, Latest[i])
    BY DEF Ordered
  <2>2. Trail(Telling(i), events \o outbox, view[i], w)
    BY <2>1, TrailConcat, StreamTypes
  <2> QED BY <2>1, <2>2, ReportedByTrail
<1> QED BY <1>1, AlwaysInv, InitOrdered, NextNothingLost, NextOrdered, PTL DEF Spec

-----------------------------------------------------------------------------
(***************************************************************************)
(* Only sockets of the process are reported.                               *)
(***************************************************************************)
OnlyOwn(s) == \A i \in Inodes : s[i] # NoConn => i \in created
EventsOwn(s) == \A n \in DOMAIN s : s[n].inode \in created

\* Sockets of other processes are in the tables and nowhere else.
OwnOnly ==
  /\ inodes \subseteq created
  /\ OnlyOwn(previous) /\ OnlyOwn(next) /\ OnlyOwn(view)
  /\ EventsOwn(outbox) /\ EventsOwn(events)

LEMMA InitOwn == Init => OwnOnly
BY DEF Init, OwnOnly, OnlyOwn, EventsOwn, NothingOpen

LEMMA NextOwn ==
  ASSUME Inv, OwnOnly, [Next]_vars
  PROVE  OwnOnly'
<1> USE DEF vars, target, snapshot, channels, service
<1>1. CASE UNCHANGED vars \/ Terminated \/ HandleError \/ HandleSignal \/ Signal
  BY <1>1 DEF OwnOnly, OnlyOwn, EventsOwn, Terminated, HandleError, HandleSignal, Signal
<1>2. CASE TargetStep
  <2>1. created \subseteq created' /\ UNCHANGED <<inodes, previous, next, view, outbox, events>>
    BY <1>2 DEF TargetStep, Socket, Dup, Connect, Reset, Fork,
                    ChildExit, CloseFd, Exit, NotTarget
  <2> QED BY <2>1 DEF OwnOnly, OnlyOwn, EventsOwn
<1>3. CASE ReadDir \/ (\E d \in Fds : Readlink(d)) \/ ListDone
  BY <1>3 DEF OwnOnly, OnlyOwn, EventsOwn, ReadDir, Readlink, ListDone, NothingOpen, Inv, TypeOK
<1>4. ASSUME NEW i \in Inodes, ReadRow(i) \/ MissRow(i) \/ SkipTable(i) PROVE OwnOnly'
  <2>1. \A j \in Inodes : Found(i)[j] # NoConn => j \in inodes \/ next[j] # NoConn
    BY FoundType DEF Inv
  <2> HIDE DEF Found
  <2> QED BY <1>4, <2>1 DEF OwnOnly, OnlyOwn, EventsOwn, ReadRow, MissRow, SkipTable
<1>5. CASE SnapshotDone
  <2>1. \A e \in Differences(previous, next) : e.inode \in created
    BY DEF Differences, NetEvents, OwnOnly, OnlyOwn
  <2>2. Diff(previous, next) \in Seq(Differences(previous, next))
    BY DiffType DEF Inv, TypeOK
  <2>3. EventsOwn(Diff(previous, next))
    BY <2>1, <2>2 DEF EventsOwn
  <2>4. outbox' = outbox \/ outbox' = Diff(previous, next)
    BY <1>5 DEF SnapshotDone
  <2>5. EventsOwn(outbox)'
    BY <1>5, <2>3, <2>4 DEF OwnOnly, EventsOwn, SnapshotDone
  <2> QED BY <1>5, <2>5 DEF OwnOnly, OnlyOwn, EventsOwn, SnapshotDone
<1>6. CASE SendEvent
  <2>1. outbox \in Seq(NetEvents) /\ outbox # <<>> /\ events \in Seq(NetEvents)
    BY <1>6 DEF SendEvent, Inv, TypeOK
  <2>2. outbox' = Tail(outbox) /\ events' = Append(events, Head(outbox)) /\ created' = created
    BY <1>6 DEF SendEvent
  <2>3. EventsOwn(outbox)' /\ EventsOwn(events)'
    BY <2>1, <2>2 DEF OwnOnly, EventsOwn
  <2> QED BY <1>6, <2>3 DEF OwnOnly, OnlyOwn, SendEvent
<1>7. CASE SendDone \/ SendError \/ PollerDone \/ PollerExit
  BY <1>7 DEF OwnOnly, OnlyOwn, EventsOwn, SendDone, SendError, PollerDone, PollerExit
<1>8. CASE HandleEvent
  <2>1. events \in Seq(NetEvents) /\ events # <<>> /\ events' = Tail(events) /\ created' = created
    BY <1>8 DEF HandleEvent, Inv, TypeOK
  <2>2. EventsOwn(events)' /\ Head(events).inode \in created
    BY <2>1 DEF OwnOnly, EventsOwn
  <2>3. OnlyOwn(view)'
    BY <1>8, <2>1, <2>2 DEF HandleEvent, OwnOnly, OnlyOwn, Inv, TypeOK, Snapshots
  <2> QED BY <1>8, <2>2, <2>3 DEF OwnOnly, OnlyOwn, EventsOwn, HandleEvent
<1>9. CASE \E c \in {"events", "errors"} : ChannelClosed(c)
  BY <1>9 DEF OwnOnly, OnlyOwn, EventsOwn, ChannelClosed
<1> QED BY <1>1, <1>2, <1>3, <1>4, <1>5, <1>6, <1>7, <1>8, <1>9 DEF Next, PollerStep, ServiceStep

\* NoneForeign: the sockets of other processes, which the tables show as well, are never
\* reported (ReadProcNetFiles).
THEOREM NoneForeign == Spec => []NoForeignSocket
<1>1. Inv /\ OwnOnly => NoForeignSocket
  <2> SUFFICES ASSUME Inv, OwnOnly, NEW i \in Inodes, Reported[i] # NoConn
               PROVE  i \in created
    BY DEF NoForeignSocket
  <2> DEFINE s == events \o outbox
             about == {n \in DOMAIN s : s[n].inode = i}
  <2>1. s \in Seq(NetEvents) /\ DOMAIN s = 1 .. Len(s) /\ Len(s) \in Nat
    BY DEF Inv, TypeOK
  <2>2. \A n \in DOMAIN s : s[n].inode \in created
    BY DEF Inv, TypeOK, OwnOnly, EventsOwn
  <2>3. about = {} => Reported[i] = view[i]
    BY DEF Reported
  <2> HIDE DEF s
  <2>4. CASE about = {}
    BY <2>3, <2>4 DEF OwnOnly, OnlyOwn
  <2>5. CASE about # {}
    BY <2>2, <2>5
  <2> QED BY <2>4, <2>5
<1> QED BY <1>1, AlwaysInv, InitOwn, NextOwn, PTL DEF Spec
=============================================================================
