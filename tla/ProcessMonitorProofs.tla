------------------------ MODULE ProcessMonitorProofs ------------------------
(***************************************************************************)
(* Theorems about ProcessMonitor: its types, its channels, and that it     *)
(* implements ProcessStream.                                               *)
(***************************************************************************)
EXTENDS ProcessMonitor, SequenceLemmas, SequenceTheorems, TLAPS

Closing(p) == poller[p] \in {"closing", "exited"}

\* An error is made by a poller that ends, and a forwarder that has returned
\* holds nothing.
ErrorsKept ==
  /\ \A p \in Pids :
       /\ subErrors[p] > 0 \/ carriedErr[p] > 0 => Closing(p)
       /\ "errors" \notin running[p] => carriedErr[p] = 0
       /\ "events" \notin running[p] => carried[p] = <<>>
  /\ \A n \in DOMAIN aggErrors : Closing(aggErrors[n])

ClosedLast == aggClosed # {} => AllReturned

\* The error of p has been reported or is on its way.
ToldOf(p) ==
  \/ subErrors[p] > 0 \/ carriedErr[p] > 0 \/ p \in failed
  \/ \E n \in DOMAIN aggErrors : aggErrors[n] = p

\* Until a signal is handled nothing is given up: a forwarder returns from an
\* empty channel, a poller ends with an error, and the service loop drops a
\* channel that is closed and empty.
NothingLost ==
  main \in {"loop", "ended"} =>
    /\ subDone = {} /\ ~aggDone
    /\ \A p \in Pids :
         /\ "events" \notin running[p] => poller[p] = "exited" /\ subEvents[p] = <<>>
         /\ "errors" \notin running[p] => poller[p] = "exited" /\ subErrors[p] = 0
         /\ poller[p] # "sending" => outbox[p] = <<>>
         /\ Closing(p) => ToldOf(p)
    /\ Channels \subseteq open \cup aggClosed
    /\ "events" \notin open => aggEvents = <<>>
    /\ "errors" \notin open => aggErrors = <<>>
    /\ main = "ended" => open = {}

Inv == TypeOK /\ ErrorsKept /\ ClosedLast /\ NothingLost

-----------------------------------------------------------------------------
(***************************************************************************)
(* Sequences.                                                              *)
(***************************************************************************)
\* What one poller has under way, in three places.
Queue(a, b, c) == a \o b \o c

\* Three sequences may be bracketed either way.
LEMMA Associative ==
  ASSUME NEW S, NEW a \in Seq(S), NEW b \in Seq(S), NEW c \in Seq(S)
  PROVE  a \o b \o c = a \o (b \o c)
OBVIOUS

\* The head of the last of three sequences moves to the one before.
LEMMA ShiftHead ==
  ASSUME NEW S, NEW a \in Seq(S), NEW b \in Seq(S), NEW c \in Seq(S), c # <<>>
  PROVE  Queue(a, Append(b, Head(c)), Tail(c)) = Queue(a, b, c)
<1> DEFINE moved == Append(b, Head(c))
           rest  == Tail(c)
<1>1. moved \in Seq(S) /\ rest \in Seq(S)
  OBVIOUS
<1>2. moved \o rest = b \o c
  <2> DEFINE l == moved \o rest
             r == b \o c
  <2>1. l \in Seq(S) /\ r \in Seq(S) /\ Len(l) = Len(r)
    BY <1>1
  <2>2. \A i \in 1 .. Len(l) : l[i] = r[i]
    BY <1>1
  <2> HIDE DEF l, r
  <2>3. l = r
    BY <2>1, <2>2, SeqEqual
  <2> QED BY <2>3 DEF l, r
<1> HIDE DEF moved, rest
<1>3. a \o moved \o rest = a \o (moved \o rest)
  BY <1>1, Associative
<1>4. a \o b \o c = a \o (b \o c)
  BY Associative
<1>5. a \o moved \o rest = a \o b \o c
  BY <1>2, <1>3, <1>4
<1> QED BY <1>5 DEF Queue, moved, rest

\* The empty sequence at the end is nothing.
LEMMA NothingAdded ==
  ASSUME NEW S, NEW a \in Seq(S), NEW b \in Seq(S)
  PROVE  a \o b \o <<>> = a \o b
BY ConcatProperties, ConcatEmptySeq

\* A sequence of at most one element.
LEMMA OneElement ==
  ASSUME NEW S, NEW s \in Seq(S), s # <<>>, Len(s) <= 1
  PROVE  s = <<s[1]>> /\ s[1] \in S
<1>1. Len(s) \in Nat /\ Len(s) # 0
  OBVIOUS
<1>2. Len(s) = 1
  BY <1>1
<1>3. s[1] \in S
  BY <1>2
<1>4. <<s[1]>> \in Seq(S) /\ Len(<<s[1]>>) = 1
  BY <1>3
<1>5. \A i \in 1 .. Len(s) : i = 1
  BY <1>2
<1> QED BY <1>2, <1>3, <1>4, <1>5, SeqEqual

\* The first of three sequences, which holds one element, is their head.
LEMMA DropHead ==
  ASSUME NEW S, NEW s \in Seq(S), NEW a \in Seq(S), NEW b \in Seq(S), s # <<>>, Len(s) <= 1
  PROVE  /\ Queue(s, a, b) # <<>> /\ Head(Queue(s, a, b)) \in S
         /\ s = <<Head(Queue(s, a, b))>> /\ Tail(Queue(s, a, b)) = Queue(<<>>, a, b)
<1>1. s = <<s[1]>> /\ s[1] \in S
  BY OneElement
<1> DEFINE rest == a \o b
<1>2. rest \in Seq(S) /\ <<>> \o a \o b = rest /\ s \o a \o b = s \o rest
  BY Associative
<1> HIDE DEF rest
<1>4. s \o rest # <<>> /\ Head(s \o rest) = s[1] 
  BY <1>1, <1>2
<1>5. Tail(s \o rest) = rest
  <2> DEFINE t == <<s[1]>> \o rest
  <2>1. s \o rest = t
    BY <1>1
  <2>2. t \in Seq(S) /\ t # <<>> /\ Len(t) = Len(rest) + 1 /\ \A i \in 1 .. Len(rest) : t[i + 1] = rest[i]
    BY <1>1, <1>2
  <2> HIDE DEF t
  <2>4. Tail(t) \in Seq(S) /\ Len(Tail(t)) = Len(rest) /\ \A i \in 1 .. Len(Tail(t)) : Tail(t)[i] = rest[i]
    BY <1>2, <2>2, HeadTailProperties
  <2>5. Tail(t) = rest
    BY <1>2, <2>4, SeqEqual
  <2> QED BY <2>1, <2>5
<1>6. /\ s \o a \o b # <<>> /\ Head(s \o a \o b) = s[1] /\ Tail(s \o a \o b) = <<>> \o a \o b
  BY <1>2, <1>4, <1>5
<1> QED BY <1>1, <1>6 DEF Queue

\* The difference of two snapshots.
EventsOf(p) == {e \in Events : e.pid = p}

LEMMA DiffType ==
  ASSUME NEW p \in Pids, NEW old \in Snapshots, NEW new \in Snapshots
  PROVE  /\ [fd \in Fds |-> DiffAt(p, old, new, fd)] \in Seq(Seq(EventsOf(p)))
         /\ Diff(p, old, new) \in Seq(EventsOf(p)) /\ Diff(p, old, new) \in Seq(Events)
<1>1. \A fd \in Fds : DiffAt(p, old, new, fd) \in Seq(EventsOf(p))
  <2> TAKE fd \in Fds
  <2>1. old[fd] \in Names \cup {NoName} /\ new[fd] \in Names \cup {NoName}
    BY DEF Snapshots
  <2>2. \A op \in {"open", "close"}, path \in Names :
          <<[pid |-> p, fd |-> fd, op |-> op, path |-> path]>> \in Seq(EventsOf(p))
    BY DEF Events, EventsOf
  <2>3. <<>> \in Seq(EventsOf(p)) /\ \A s, t \in Seq(EventsOf(p)) : s \o t \in Seq(EventsOf(p))
    OBVIOUS
  <2> QED BY <2>1, <2>2, <2>3 DEF DiffAt
<1>2. [fd \in Fds |-> DiffAt(p, old, new, fd)] \in Seq(Seq(EventsOf(p)))
  BY <1>1, CapAssumption DEF Fds
<1>3. Diff(p, old, new) \in Seq(EventsOf(p))
  BY <1>2, FlattenSeqType DEF Diff
<1>4. EventsOf(p) \subseteq Events
  BY DEF EventsOf
<1>5. Diff(p, old, new) \in Seq(Events)
  BY <1>3, <1>4
<1> QED BY <1>2, <1>3, <1>5

\* The assumptions, as the steps below use them.
LEMMA ConstantTypes ==
  /\ NothingOpen \in Snapshots
  /\ SubCap \in Nat \ {0} /\ AggCap \in Nat \ {0} /\ ErrCap \in Nat \ {0} /\ MaxChanges \in Nat
BY CapAssumption DEF NothingOpen, Snapshots

-----------------------------------------------------------------------------
(***************************************************************************)
(* The invariant holds at the start and is kept by every step.             *)
(***************************************************************************)
LEMMA InitInv == Init => Inv
<1> SUFFICES ASSUME Init PROVE Inv
  OBVIOUS
<1>1. TypeOK
  <2>1. /\ poller \in [Pids -> {"start"}] /\ outbox \in [Pids -> {<<>>}]
        /\ subEvents \in [Pids -> {<<>>}] /\ carried \in [Pids -> {<<>>}]
        /\ \A S : <<>> \in Seq(S) /\ Len(<<>>) = 0
    BY DEF Init
  <2>2. /\ subErrors \in [Pids -> 0 .. 1] /\ carriedErr \in [Pids -> 0 .. 1]
        /\ running \in [Pids -> SUBSET Channels] /\ entries \in [Pids -> SUBSET Fds]
    BY DEF Init
  <2>3. /\ previous \in [Pids -> Snapshots] /\ next \in [Pids -> Snapshots]
        /\ view \in [Pids -> Snapshots]
    BY ConstantTypes DEF Init
  <2>4. /\ \A p \in Pids : Len(subEvents[p]) <= SubCap /\ Len(carried[p]) <= 1
        /\ Len(aggEvents) <= AggCap /\ Len(aggErrors) <= ErrCap /\ changes \in 0 .. MaxChanges
    BY <2>1, ConstantTypes DEF Init
  <2>5. /\ outbox \in [Pids -> Seq(Events)] /\ subEvents \in [Pids -> Seq(Events)]
        /\ carried \in [Pids -> Seq(Events)]
        /\ aggEvents \in Seq(Events) /\ aggErrors \in Seq(Pids)
    BY <2>1 DEF Init
  <2> QED BY <2>1, <2>2, <2>3, <2>4, <2>5 DEF Init, TypeOK
<1>2. ErrorsKept /\ ClosedLast /\ NothingLost
  BY DEF Init, ErrorsKept, ClosedLast, NothingLost, Closing, Channels
<1> QED BY <1>1, <1>2 DEF Inv

\* The processes change nothing of the watchers.
LEMMA TargetInv ==
  ASSUME Inv, TargetStep
  PROVE  Inv'
<1>1. UNCHANGED <<polling, sub, forward, agg, service, handled>>
  BY DEF TargetStep, Open, Close, Rename, Exit
<1>2. alive' \subseteq Pids /\ links' \in [Pids -> Snapshots] /\ changes' \in 0 .. MaxChanges
  <2>1. changes' \in 0 .. MaxChanges /\ alive' \subseteq Pids
    BY ConstantTypes DEF Inv, TypeOK, TargetStep, Open, Close, Rename, Exit, Step
  <2>2. CASE \E p \in Pids : Exit(p)
    BY <2>1, <2>2, ConstantTypes DEF Inv, TypeOK, Exit
  <2>3. CASE \E p \in Pids, fd \in Fds, n \in Names : Open(p, fd, n)
    BY <2>1, <2>3 DEF Inv, TypeOK, Open, Snapshots
  <2>4. CASE \E p \in Pids, fd \in Fds : Close(p, fd)
    BY <2>1, <2>4 DEF Inv, TypeOK, Close, Snapshots
  <2>5. CASE \E n, m \in Names : Rename(n, m)
    <3>1. PICK n \in Names, m \in Names : Rename(n, m)
      BY <2>5
    <3>2. links' = [p \in Pids |-> [fd \in Fds |-> IF links[p][fd] = n THEN m ELSE links[p][fd]]]
      BY <3>1 DEF Rename
    <3> QED BY <2>1, <3>2 DEF Inv, TypeOK, Snapshots
  <2> QED BY <2>2, <2>3, <2>4, <2>5 DEF TargetStep
<1>3. TypeOK'
  BY <1>1, <1>2 DEF Inv, TypeOK, polling, sub, forward, agg, service, handled
<1>4. ErrorsKept' /\ ClosedLast' /\ NothingLost'
  BY <1>1 DEF Inv, ErrorsKept, ClosedLast, AllReturned, NothingLost, ToldOf, Closing,
              polling, sub, forward, agg, service, handled
<1> QED BY <1>3, <1>4 DEF Inv

\* The poller.
LEMMA SnapshotListInv ==
  ASSUME Inv, NEW p \in Pids, SnapshotList(p)
  PROVE  Inv'
<1> USE DEF vars, target, polling, sub, forward, agg, service, handled, Channels
<1>1. TypeOK'
  <2>1. poller' \in [Pids -> {"start", "idle", "reading", "sending", "failing", "closing", "exited"}]
    BY DEF Inv, TypeOK, SnapshotList
  <2>2. entries' \in [Pids -> SUBSET Fds] /\ next' \in [Pids -> Snapshots]
    <3>1. CASE p \in alive
      <4>1. {fd \in Fds : links[p][fd] # NoName} \in SUBSET Fds
        OBVIOUS
      <4>2. /\ entries' = [entries EXCEPT ![p] = {fd \in Fds : links[p][fd] # NoName}]
            /\ next' = [next EXCEPT ![p] = NothingOpen]
        BY <3>1 DEF SnapshotList
      <4> QED BY <4>1, <4>2, ConstantTypes DEF Inv, TypeOK
    <3>2. CASE p \notin alive
      BY <3>2 DEF Inv, TypeOK, SnapshotList
    <3> QED BY <3>1, <3>2
  <2> QED BY <2>1, <2>2 DEF Inv, TypeOK, SnapshotList
<1>2. \A q \in Pids : Closing(q)' <=> Closing(q)
  BY DEF Inv, TypeOK, SnapshotList, Closing
<1>3. ErrorsKept'
  BY <1>2 DEF Inv, TypeOK, ErrorsKept, SnapshotList
<1>4. ClosedLast'
  BY DEF Inv, TypeOK, ClosedLast, AllReturned, SnapshotList
<1>5. NothingLost'
  <2>1. \A q \in Pids : /\ poller[q] = "exited" => poller'[q] = "exited"
                        /\ poller'[q] # "sending" => poller[q] # "sending"
    BY DEF Inv, TypeOK, SnapshotList
  <2> QED BY <1>2, <2>1 DEF Inv, TypeOK, NothingLost, ToldOf, SnapshotList
<1> QED BY <1>1, <1>3, <1>4, <1>5 DEF Inv

LEMMA SnapshotReadInv ==
  ASSUME Inv, NEW p \in Pids, NEW fd \in Fds, SnapshotRead(p, fd)
  PROVE  Inv'
<1> USE DEF vars, target, polling, sub, forward, agg, service, handled, Channels
<1>1. TypeOK'
  BY CapAssumption DEF Inv, TypeOK, ErrorsKept, Closing, SnapshotRead, Snapshots, NothingOpen, Events, HasRoom, ApplyEvent
<1>2. ErrorsKept'
  BY DEF Inv, TypeOK, ErrorsKept, ClosedLast, AllReturned, Closing, SnapshotRead
<1>3. ClosedLast'
  BY DEF Inv, TypeOK, ErrorsKept, ClosedLast, AllReturned, Closing, SnapshotRead
<1>4. NothingLost'
  BY DEF Inv, TypeOK, ErrorsKept, ClosedLast, AllReturned, NothingLost, ToldOf, Closing, SnapshotRead
<1> QED BY <1>1, <1>2, <1>3, <1>4 DEF Inv

LEMMA SnapshotDoneInv ==
  ASSUME Inv, NEW p \in Pids, SnapshotDone(p)
  PROVE  Inv'
<1> USE DEF vars, target, polling, sub, forward, agg, service, handled, Channels
<1>1. TypeOK'
  <2>1. Diff(p, previous[p], next[p]) \in Seq(Events)
    BY DiffType DEF Inv, TypeOK
  <2>2. /\ poller' \in [Pids -> {"start", "idle", "reading", "sending", "failing", "closing", "exited"}]
        /\ first' \subseteq Pids
    BY DEF Inv, TypeOK, SnapshotDone
  <2>3. /\ previous' \in [Pids -> Snapshots] /\ view' \in [Pids -> Snapshots]
    BY DEF Inv, TypeOK, SnapshotDone
  <2>4. outbox' \in [Pids -> Seq(Events)]
    <3>1. outbox' = outbox \/ outbox' = [outbox EXCEPT ![p] = Diff(p, previous[p], next[p])]
      BY DEF SnapshotDone
    <3> QED BY <2>1, <3>1 DEF Inv, TypeOK
  <2> QED BY <2>2, <2>3, <2>4 DEF Inv, TypeOK, SnapshotDone
<1>2. \A q \in Pids : Closing(q)' <=> Closing(q)
  BY DEF Inv, TypeOK, SnapshotDone, Closing
<1>3. ErrorsKept'
  BY <1>2 DEF Inv, TypeOK, ErrorsKept, SnapshotDone
<1>4. ClosedLast'
  BY DEF Inv, TypeOK, ClosedLast, AllReturned, SnapshotDone
<1>5. NothingLost'
  <2>1. \A q \in Pids : /\ poller[q] = "exited" => poller'[q] = "exited"
                        /\ poller'[q] # "sending" => poller[q] # "sending" /\ outbox'[q] = outbox[q]
    BY DEF Inv, TypeOK, SnapshotDone
  <2> QED BY <1>2, <2>1 DEF Inv, TypeOK, NothingLost, ToldOf, SnapshotDone
<1> QED BY <1>1, <1>3, <1>4, <1>5 DEF Inv

LEMMA SendEventInv ==
  ASSUME Inv, NEW p \in Pids, SendEvent(p)
  PROVE  Inv'
<1> USE DEF vars, target, polling, sub, forward, agg, service, handled, Channels
<1>1. TypeOK'
  <2>1. outbox[p] \in Seq(Events) /\ outbox[p] # <<>> /\ subEvents[p] \in Seq(Events)
    BY DEF Inv, TypeOK, SendEvent
  <2>2. /\ Head(outbox[p]) \in Events /\ Tail(outbox[p]) \in Seq(Events)
    BY <2>1, TakeHead
  <2>3. /\ Append(subEvents[p], Head(outbox[p])) \in Seq(Events)
        /\ Len(Append(subEvents[p], Head(outbox[p]))) = Len(subEvents[p]) + 1
        /\ Len(subEvents[p]) \in Nat
    BY <2>1, <2>2, PutLast
  <2>4. outbox' \in [Pids -> Seq(Events)] /\ subEvents' \in [Pids -> Seq(Events)]
    BY <2>2, <2>3 DEF Inv, TypeOK, SendEvent
  <2>5. \A q \in Pids : Len(subEvents'[q]) <= SubCap
    BY <2>3, ConstantTypes DEF Inv, TypeOK, SendEvent
  <2> QED BY <2>4, <2>5 DEF Inv, TypeOK, SendEvent
<1>2. ErrorsKept' /\ ClosedLast'
  BY DEF Inv, TypeOK, ErrorsKept, ClosedLast, AllReturned, Closing, SendEvent
<1>3. NothingLost'
  <2>1. \A q \in Pids : q # p => outbox'[q] = outbox[q] /\ subEvents'[q] = subEvents[q]
    BY DEF Inv, TypeOK, SendEvent
  <2>2. poller[p] = "sending" /\ poller' = poller
    BY DEF SendEvent
  <2>3. main \in {"loop", "ended"} => "events" \in running[p]
    BY <2>2 DEF Inv, NothingLost
  <2>4. /\ \A q \in Pids : (ToldOf(q)' <=> ToldOf(q)) /\ (Closing(q)' <=> Closing(q))
        /\ UNCHANGED <<running, main, open, aggEvents, aggErrors, aggClosed, aggDone, subDone, subErrors>>
    BY DEF ToldOf, Closing, SendEvent
  <2> QED BY <2>1, <2>2, <2>3, <2>4 DEF Inv, NothingLost
<1> QED BY <1>1, <1>2, <1>3 DEF Inv

LEMMA SendDoneInv ==
  ASSUME Inv, NEW p \in Pids, SendDone(p)
  PROVE  Inv'
<1> USE DEF vars, target, polling, sub, forward, agg, service, handled, Channels
<1>1. TypeOK'
  BY CapAssumption DEF Inv, TypeOK, ErrorsKept, Closing, SendDone, Snapshots, NothingOpen, Events, HasRoom, ApplyEvent
<1>2. ErrorsKept'
  BY DEF Inv, TypeOK, ErrorsKept, ClosedLast, AllReturned, Closing, SendDone
<1>3. ClosedLast'
  BY DEF Inv, TypeOK, ErrorsKept, ClosedLast, AllReturned, Closing, SendDone
<1>4. NothingLost'
  BY DEF Inv, TypeOK, ErrorsKept, ClosedLast, AllReturned, NothingLost, ToldOf, Closing, SendDone
<1> QED BY <1>1, <1>2, <1>3, <1>4 DEF Inv

LEMMA SendErrorInv ==
  ASSUME Inv, NEW p \in Pids, SendError(p)
  PROVE  Inv'
<1> USE DEF vars, target, polling, sub, forward, agg, service, handled, Channels
<1>1. subErrors[p] = 0 /\ subErrors' = [subErrors EXCEPT ![p] = 1]
  <2>1. subErrors[p] \in 0 .. 1 /\ ~(subErrors[p] > 0)
    BY DEF Inv, TypeOK, ErrorsKept, Closing, SendError
  <2>2. subErrors[p] = 0
    BY <2>1
  <2> QED BY <2>2 DEF SendError
<1>2. TypeOK'
  BY <1>1 DEF Inv, TypeOK, SendError
<1>3. ErrorsKept' /\ ClosedLast'
  BY DEF Inv, TypeOK, ErrorsKept, ClosedLast, AllReturned, Closing, SendError
<1>4. NothingLost'
  BY DEF Inv, TypeOK, NothingLost, ToldOf, Closing, SendError
<1> QED BY <1>2, <1>3, <1>4 DEF Inv

LEMMA PollerDoneInv ==
  ASSUME Inv, NEW p \in Pids, PollerDone(p)
  PROVE  Inv'
<1> USE DEF vars, target, polling, sub, forward, agg, service, handled, Channels
<1>1. TypeOK'
  BY CapAssumption DEF Inv, TypeOK, ErrorsKept, Closing, PollerDone, Snapshots, NothingOpen, Events, HasRoom, ApplyEvent
<1>2. ErrorsKept'
  BY DEF Inv, TypeOK, ErrorsKept, ClosedLast, AllReturned, Closing, PollerDone
<1>3. ClosedLast'
  BY DEF Inv, TypeOK, ErrorsKept, ClosedLast, AllReturned, Closing, PollerDone
<1>4. NothingLost'
  BY DEF Inv, TypeOK, ErrorsKept, ClosedLast, AllReturned, NothingLost, ToldOf, Closing, PollerDone
<1> QED BY <1>1, <1>2, <1>3, <1>4 DEF Inv

LEMMA PollerExitInv ==
  ASSUME Inv, NEW p \in Pids, PollerExit(p)
  PROVE  Inv'
<1> USE DEF vars, target, polling, sub, forward, agg, service, handled, Channels
<1>1. TypeOK'
  BY CapAssumption DEF Inv, TypeOK, ErrorsKept, Closing, PollerExit, Snapshots, NothingOpen, Events, HasRoom, ApplyEvent
<1>2. ErrorsKept'
  BY DEF Inv, TypeOK, ErrorsKept, ClosedLast, AllReturned, Closing, PollerExit
<1>3. ClosedLast'
  BY DEF Inv, TypeOK, ErrorsKept, ClosedLast, AllReturned, Closing, PollerExit
<1>4. NothingLost'
  BY DEF Inv, TypeOK, ErrorsKept, ClosedLast, AllReturned, NothingLost, ToldOf, Closing, PollerExit
<1> QED BY <1>1, <1>2, <1>3, <1>4 DEF Inv

\* The forwarders.
LEMMA TakeEventInv ==
  ASSUME Inv, NEW p \in Pids, TakeEvent(p)
  PROVE  Inv'
<1> USE DEF vars, target, polling, sub, forward, agg, service, handled, Channels
<1>1. TypeOK'
  <2>1. subEvents[p] \in Seq(Events) /\ subEvents[p] # <<>>
    BY DEF Inv, TypeOK, TakeEvent
  <2>2. /\ Head(subEvents[p]) \in Events /\ Tail(subEvents[p]) \in Seq(Events)
        /\ Len(Tail(subEvents[p])) = Len(subEvents[p]) - 1 /\ Len(subEvents[p]) \in Nat
    BY <2>1, TakeHead
  <2>3. <<Head(subEvents[p])>> \in Seq(Events) /\ Len(<<Head(subEvents[p])>>) = 1
    BY <2>2
  <2>4. subEvents' \in [Pids -> Seq(Events)] /\ carried' \in [Pids -> Seq(Events)]
    BY <2>2, <2>3 DEF Inv, TypeOK, TakeEvent
  <2>5. \A q \in Pids : Len(subEvents'[q]) <= SubCap /\ Len(carried'[q]) <= 1
    BY <2>2, <2>3, ConstantTypes DEF Inv, TypeOK, TakeEvent
  <2> QED BY <2>4, <2>5 DEF Inv, TypeOK, TakeEvent
<1>2. ErrorsKept' /\ ClosedLast'
  BY DEF Inv, TypeOK, ErrorsKept, ClosedLast, AllReturned, Closing, TakeEvent
<1>3. NothingLost'
  <2>1. /\ "events" \in running[p]
        /\ \A q \in Pids : q # p => subEvents'[q] = subEvents[q]
    BY DEF Inv, TypeOK, TakeEvent
  <2> QED BY <2>1 DEF Inv, TypeOK, NothingLost, ToldOf, Closing, TakeEvent
<1> QED BY <1>1, <1>2, <1>3 DEF Inv

LEMMA PutEventInv ==
  ASSUME Inv, NEW p \in Pids, PutEvent(p)
  PROVE  Inv'
<1> USE DEF vars, target, polling, sub, forward, agg, service, handled, Channels
<1>1. TypeOK'
  <2>1. carried[p] \in Seq(Events) /\ aggEvents \in Seq(Events) /\ Len(carried[p]) <= 1
        /\ Len(aggEvents) < AggCap
    BY DEF Inv, TypeOK, PutEvent, HasRoom
  <2>2. /\ aggEvents \o carried[p] \in Seq(Events)
        /\ Len(aggEvents \o carried[p]) = Len(aggEvents) + Len(carried[p])
        /\ Len(aggEvents) \in Nat /\ Len(carried[p]) \in Nat
    BY <2>1
  <2>3. aggEvents' \in Seq(Events) /\ Len(aggEvents') <= AggCap
    BY <2>1, <2>2, ConstantTypes DEF PutEvent
  <2>4. carried' \in [Pids -> Seq(Events)] /\ \A q \in Pids : Len(carried'[q]) <= 1
    BY DEF Inv, TypeOK, PutEvent
  <2> QED BY <2>3, <2>4 DEF Inv, TypeOK, PutEvent
<1>2. ErrorsKept' /\ ClosedLast'
  BY DEF Inv, TypeOK, ErrorsKept, ClosedLast, AllReturned, Closing, PutEvent
<1>3. NothingLost'
  BY DEF Inv, TypeOK, NothingLost, ErrorsKept, ClosedLast, AllReturned, ToldOf, Closing, PutEvent
<1> QED BY <1>1, <1>2, <1>3 DEF Inv

LEMMA TakeErrorInv ==
  ASSUME Inv, NEW p \in Pids, TakeError(p)
  PROVE  Inv'
<1> USE DEF vars, target, polling, sub, forward, agg, service, handled, Channels
<1>1. subErrors[p] = 1 /\ subErrors' = [subErrors EXCEPT ![p] = 0]
  <2>1. subErrors[p] \in 0 .. 1 /\ subErrors[p] > 0
    BY DEF Inv, TypeOK, TakeError
  <2>2. subErrors[p] = 1
    BY <2>1
  <2> QED BY <2>2 DEF TakeError
<1>2. TypeOK'
  BY <1>1 DEF Inv, TypeOK, TakeError
<1>3. ErrorsKept' /\ ClosedLast'
  BY DEF Inv, TypeOK, ErrorsKept, ClosedLast, AllReturned, Closing, TakeError
<1>4. NothingLost'
  BY DEF Inv, TypeOK, NothingLost, ToldOf, Closing, TakeError
<1> QED BY <1>2, <1>3, <1>4 DEF Inv

LEMMA PutErrorInv ==
  ASSUME Inv, NEW p \in Pids, PutError(p)
  PROVE  Inv'
<1> USE DEF vars, target, polling, sub, forward, agg, service, handled, Channels
<1>1. aggErrors \in Seq(Pids) /\ aggErrors' = Append(aggErrors, p) /\ Len(aggErrors) < ErrCap
  BY DEF Inv, TypeOK, PutError
<1>2. /\ aggErrors' \in Seq(Pids) /\ Len(aggErrors') = Len(aggErrors) + 1 /\ Len(aggErrors) \in Nat
      /\ DOMAIN aggErrors' = DOMAIN aggErrors \cup {Len(aggErrors) + 1}
      /\ \A n \in DOMAIN aggErrors : aggErrors'[n] = aggErrors[n]
      /\ aggErrors'[Len(aggErrors) + 1] = p
  BY <1>1, PutLast
<1>3. TypeOK'
  <2>1. Len(aggErrors') <= ErrCap
    BY <1>1, <1>2, ConstantTypes
  <2> QED BY <1>2, <2>1 DEF Inv, TypeOK, PutError
<1>4. ErrorsKept' /\ ClosedLast'
  <2>1. Closing(p)
    BY DEF Inv, TypeOK, ErrorsKept, PutError
  <2> QED BY <1>2, <2>1 DEF Inv, TypeOK, ErrorsKept, ClosedLast, AllReturned, Closing, PutError
<1>5. NothingLost'
  <2>1. ToldOf(p)'
    BY <1>2 DEF ToldOf
  <2>2. \A q \in Pids : q # p /\ ToldOf(q) => ToldOf(q)'
    BY <1>2 DEF ToldOf, PutError, Inv, TypeOK
  <2>3. "errors" \in running[p]
    BY DEF Inv, TypeOK, ErrorsKept, PutError
  <2>4. main \in {"loop", "ended"} => "errors" \in open
    BY <2>3 DEF Inv, TypeOK, NothingLost, ClosedLast, AllReturned
  <2> QED BY <2>1, <2>2, <2>4 DEF Inv, TypeOK, NothingLost, Closing, PutError
<1> QED BY <1>3, <1>4, <1>5 DEF Inv

LEMMA EventForwarderReturnsInv ==
  ASSUME Inv, NEW p \in Pids, EventForwarderReturns(p)
  PROVE  Inv'
<1> USE DEF vars, target, polling, sub, forward, agg, service, handled, Channels
<1>1. TypeOK'
  <2>1. carried' \in [Pids -> Seq(Events)] /\ \A q \in Pids : Len(carried'[q]) <= 1
    BY DEF Inv, TypeOK, EventForwarderReturns
  <2>2. running' \in [Pids -> SUBSET Channels]
    BY DEF Inv, TypeOK, EventForwarderReturns
  <2> QED BY <2>1, <2>2 DEF Inv, TypeOK, EventForwarderReturns
<1>2. ErrorsKept' /\ ClosedLast'
  BY DEF Inv, TypeOK, ErrorsKept, ClosedLast, AllReturned, Closing, EventForwarderReturns
<1>3. NothingLost'
  <2>1. main \in {"loop", "ended"} => poller[p] = "exited" /\ subEvents[p] = <<>>
    BY DEF Inv, NothingLost, EventForwarderReturns
  <2>2. \A q \in Pids : q # p => running'[q] = running[q]
    BY DEF Inv, TypeOK, EventForwarderReturns
  <2>3. \A q \in Pids : "errors" \in running[q] => "errors" \in running'[q]
    BY DEF Inv, TypeOK, EventForwarderReturns
  <2> QED BY <2>1, <2>2, <2>3 DEF Inv, TypeOK, NothingLost, ToldOf, Closing, EventForwarderReturns
<1> QED BY <1>1, <1>2, <1>3 DEF Inv

LEMMA ErrorForwarderReturnsInv ==
  ASSUME Inv, NEW p \in Pids, ErrorForwarderReturns(p)
  PROVE  Inv'
<1> USE DEF vars, target, polling, sub, forward, agg, service, handled, Channels
<1>1. TypeOK'
  <2>1. carriedErr' \in [Pids -> 0 .. 1]
    BY DEF Inv, TypeOK, ErrorForwarderReturns
  <2>2. running' \in [Pids -> SUBSET Channels]
    BY DEF Inv, TypeOK, ErrorForwarderReturns
  <2> QED BY <2>1, <2>2 DEF Inv, TypeOK, ErrorForwarderReturns
<1>2. ErrorsKept' /\ ClosedLast'
  BY DEF Inv, TypeOK, ErrorsKept, ClosedLast, AllReturned, Closing, ErrorForwarderReturns
<1>3. NothingLost'
  BY DEF Inv, TypeOK, NothingLost, ErrorsKept, ToldOf, Closing, ErrorForwarderReturns
<1> QED BY <1>1, <1>2, <1>3 DEF Inv

\* The aggregator's Run, once all forwarders have returned.
LEMMA CloseAggInv ==
  ASSUME Inv, NEW c \in Channels, CloseAgg(c)
  PROVE  Inv'
<1> USE DEF vars, target, polling, sub, forward, agg, service, handled, Channels
<1>1. TypeOK'
  BY CapAssumption DEF Inv, TypeOK, ErrorsKept, Closing, CloseAgg, Snapshots, NothingOpen, Events, HasRoom, ApplyEvent
<1>2. ErrorsKept'
  BY DEF Inv, TypeOK, ErrorsKept, ClosedLast, AllReturned, Closing, CloseAgg
<1>3. ClosedLast'
  BY DEF Inv, TypeOK, ErrorsKept, ClosedLast, AllReturned, Closing, CloseAgg
<1>4. NothingLost'
  BY DEF Inv, TypeOK, ErrorsKept, ClosedLast, AllReturned, NothingLost, ToldOf, Closing, CloseAgg
<1> QED BY <1>1, <1>2, <1>3, <1>4 DEF Inv

\* The service loop and Close.
LEMMA HandleEventInv ==
  ASSUME Inv, HandleEvent
  PROVE  Inv'
<1> USE DEF vars, target, polling, sub, forward, agg, service, handled, Channels
<1>1. /\ Head(aggEvents) \in Events /\ Tail(aggEvents) \in Seq(Events)
      /\ Len(Tail(aggEvents)) = Len(aggEvents) - 1 /\ Len(aggEvents) \in Nat
  BY TakeHead DEF Inv, TypeOK, HandleEvent
<1>2. TypeOK'
  <2>1. ApplyEvent(view, Head(aggEvents)) \in [Pids -> Snapshots]
    BY <1>1 DEF Inv, TypeOK, ApplyEvent, Snapshots, Events
  <2>2. aggEvents' \in Seq(Events) /\ Len(aggEvents') <= AggCap
    BY <1>1, ConstantTypes DEF Inv, TypeOK, HandleEvent
  <2> QED BY <2>1, <2>2 DEF Inv, TypeOK, HandleEvent
<1>3. ErrorsKept' /\ ClosedLast'
  BY DEF Inv, TypeOK, ErrorsKept, ClosedLast, AllReturned, Closing, HandleEvent
<1>4. NothingLost'
  BY DEF Inv, TypeOK, NothingLost, ToldOf, Closing, HandleEvent
<1> QED BY <1>2, <1>3, <1>4 DEF Inv

LEMMA HandleErrorInv ==
  ASSUME Inv, HandleError
  PROVE  Inv'
<1> USE DEF vars, target, polling, sub, forward, agg, service, handled, Channels
<1>1. /\ aggErrors \in Seq(Pids) /\ aggErrors # <<>> /\ aggErrors' = Tail(aggErrors)
      /\ failed' = failed \cup {Head(aggErrors)}
  BY DEF Inv, TypeOK, HandleError
<1>2. /\ Head(aggErrors) \in Pids /\ Tail(aggErrors) \in Seq(Pids)
      /\ Len(Tail(aggErrors)) = Len(aggErrors) - 1 /\ Len(aggErrors) \in Nat
      /\ \A n \in DOMAIN Tail(aggErrors) : n + 1 \in DOMAIN aggErrors /\ Tail(aggErrors)[n] = aggErrors[n + 1]
  BY <1>1, TakeHead
<1>3. TypeOK'
  <2>1. aggErrors' \in Seq(Pids) /\ Len(aggErrors') <= ErrCap /\ failed' \subseteq Pids
    BY <1>1, <1>2, ConstantTypes DEF Inv, TypeOK
  <2> QED BY <2>1 DEF Inv, TypeOK, HandleError
<1>4. ErrorsKept' /\ ClosedLast'
  BY <1>1, <1>2 DEF Inv, TypeOK, ErrorsKept, ClosedLast, AllReturned, Closing, HandleError
<1>5. NothingLost'
  <2>1. \A q \in Pids : ToldOf(q) => ToldOf(q)'
    <3> SUFFICES ASSUME NEW q \in Pids, NEW n \in DOMAIN aggErrors, aggErrors[n] = q
                 PROVE  q \in failed' \/ \E m \in DOMAIN aggErrors' : aggErrors'[m] = q
      BY <1>1 DEF ToldOf, HandleError
    <3>1. n \in 1 .. Len(aggErrors) /\ DOMAIN aggErrors' = 1 .. Len(aggErrors) - 1
      BY <1>1, <1>2
    <3>2. CASE n = 1
      BY <1>1, <3>2
    <3>3. CASE n # 1
      <4>1. n - 1 \in DOMAIN aggErrors' /\ aggErrors'[n - 1] = q
        BY <1>1, <1>2, <3>1, <3>3
      <4> QED BY <4>1
    <3> QED BY <3>2, <3>3
  <2> QED BY <1>1, <2>1 DEF Inv, TypeOK, NothingLost, Closing, HandleError
<1> QED BY <1>3, <1>4, <1>5 DEF Inv

LEMMA ChannelClosedInv ==
  ASSUME Inv, NEW c \in Channels, ChannelClosed(c)
  PROVE  Inv'
<1> USE DEF vars, target, polling, sub, forward, agg, service, handled, Channels
<1>1. open' = open \ {c} /\ main = "loop" /\ c \in aggClosed /\ main' \in {"loop", "ended"}
      /\ (main' = "ended" => open' = {})
  BY DEF ChannelClosed, StillOpen
<1>2. TypeOK'
  BY <1>1 DEF Inv, TypeOK, ChannelClosed
<1>3. ErrorsKept' /\ ClosedLast'
  BY DEF Inv, TypeOK, ErrorsKept, ClosedLast, AllReturned, Closing, ChannelClosed
<1>4. NothingLost'
  <2>1. \A q \in Pids : (ToldOf(q)' <=> ToldOf(q)) /\ (Closing(q)' <=> Closing(q))
    BY DEF ToldOf, Closing, ChannelClosed
  <2>2. /\ "events" \notin open' => aggEvents' = <<>>
        /\ "errors" \notin open' => aggErrors' = <<>>
        /\ Channels \subseteq open' \cup aggClosed'
    BY <1>1 DEF Inv, NothingLost, ChannelClosed
  <2> QED BY <1>1, <2>1, <2>2 DEF Inv, NothingLost, ChannelClosed
<1> QED BY <1>2, <1>3, <1>4 DEF Inv

LEMMA SignalInv ==
  ASSUME Inv, Signal
  PROVE  Inv'
<1> USE DEF vars, target, polling, sub, forward, agg, service, handled, Channels
<1>1. TypeOK'
  BY CapAssumption DEF Inv, TypeOK, ErrorsKept, Closing, Signal, Snapshots, NothingOpen, Events, HasRoom, ApplyEvent
<1>2. ErrorsKept'
  BY DEF Inv, TypeOK, ErrorsKept, ClosedLast, AllReturned, Closing, Signal
<1>3. ClosedLast'
  BY DEF Inv, TypeOK, ErrorsKept, ClosedLast, AllReturned, Closing, Signal
<1>4. NothingLost'
  BY DEF Inv, TypeOK, ErrorsKept, ClosedLast, AllReturned, NothingLost, ToldOf, Closing, Signal
<1> QED BY <1>1, <1>2, <1>3, <1>4 DEF Inv

LEMMA HandleSignalInv ==
  ASSUME Inv, HandleSignal
  PROVE  Inv'
<1> USE DEF vars, target, polling, sub, forward, agg, service, handled, Channels
<1>1. TypeOK'
  BY CapAssumption DEF Inv, TypeOK, ErrorsKept, Closing, HandleSignal, Snapshots, NothingOpen, Events, HasRoom, ApplyEvent
<1>2. ErrorsKept'
  BY DEF Inv, TypeOK, ErrorsKept, ClosedLast, AllReturned, Closing, HandleSignal
<1>3. ClosedLast'
  BY DEF Inv, TypeOK, ErrorsKept, ClosedLast, AllReturned, Closing, HandleSignal
<1>4. NothingLost'
  BY DEF Inv, TypeOK, ErrorsKept, ClosedLast, AllReturned, NothingLost, ToldOf, Closing, HandleSignal
<1> QED BY <1>1, <1>2, <1>3, <1>4 DEF Inv

LEMMA CloseWatcherInv ==
  ASSUME Inv, NEW p \in Pids, CloseWatcher(p)
  PROVE  Inv'
<1> USE DEF vars, target, polling, sub, forward, agg, service, handled, Channels
<1>1. TypeOK'
  BY CapAssumption DEF Inv, TypeOK, ErrorsKept, Closing, CloseWatcher, Snapshots, NothingOpen, Events, HasRoom, ApplyEvent
<1>2. ErrorsKept'
  BY DEF Inv, TypeOK, ErrorsKept, ClosedLast, AllReturned, Closing, CloseWatcher
<1>3. ClosedLast'
  BY DEF Inv, TypeOK, ErrorsKept, ClosedLast, AllReturned, Closing, CloseWatcher
<1>4. NothingLost'
  BY DEF Inv, TypeOK, ErrorsKept, ClosedLast, AllReturned, NothingLost, ToldOf, Closing, CloseWatcher
<1> QED BY <1>1, <1>2, <1>3, <1>4 DEF Inv

LEMMA StoppedInv ==
  ASSUME Inv, Stopped
  PROVE  Inv'
<1> USE DEF vars, target, polling, sub, forward, agg, service, handled, Channels
<1>1. TypeOK'
  BY CapAssumption DEF Inv, TypeOK, ErrorsKept, Closing, Stopped, Snapshots, NothingOpen, Events, HasRoom, ApplyEvent
<1>2. ErrorsKept'
  BY DEF Inv, TypeOK, ErrorsKept, ClosedLast, AllReturned, Closing, Stopped
<1>3. ClosedLast'
  BY DEF Inv, TypeOK, ErrorsKept, ClosedLast, AllReturned, Closing, Stopped
<1>4. NothingLost'
  BY DEF Inv, TypeOK, ErrorsKept, ClosedLast, AllReturned, NothingLost, ToldOf, Closing, Stopped
<1> QED BY <1>1, <1>2, <1>3, <1>4 DEF Inv

\* All steps together.
LEMMA NextInv == Inv /\ [Next]_vars => Inv'
<1> SUFFICES ASSUME Inv, [Next]_vars PROVE Inv'
  OBVIOUS
<1>1. CASE TargetStep
  BY <1>1, TargetInv
<1>2. CASE \E p \in Pids : PollerStep(p)
  BY <1>2, SnapshotListInv, SnapshotReadInv, SnapshotDoneInv, SendEventInv, SendDoneInv,
     SendErrorInv, PollerDoneInv, PollerExitInv DEF PollerStep
<1>3. CASE \E p \in Pids : EventForwarder(p) \/ ErrorForwarder(p)
  BY <1>3, TakeEventInv, PutEventInv, EventForwarderReturnsInv, TakeErrorInv, PutErrorInv,
     ErrorForwarderReturnsInv DEF EventForwarder, ErrorForwarder
<1>4. CASE RunStep \/ Signal
  BY <1>4, CloseAggInv, SignalInv DEF RunStep
<1>5. CASE ServiceStep
  BY <1>5, HandleEventInv, HandleErrorInv, ChannelClosedInv, HandleSignalInv, CloseWatcherInv,
     StoppedInv DEF ServiceStep
<1>6. CASE UNCHANGED vars
  BY <1>6 DEF Inv, TypeOK, ErrorsKept, ClosedLast, AllReturned, NothingLost, ToldOf, Closing,
              vars, target, polling, sub, forward, agg, service, handled
<1> QED BY <1>1, <1>2, <1>3, <1>4, <1>5, <1>6 DEF Next, Terminated

\* The invariant holds in every reachable state.
LEMMA AlwaysInv == Spec => []Inv
BY InitInv, NextInv, PTL DEF Spec

\* ProcessTyped: the ranges of all variables, with the bounds of every channel, for any
\* number of processes and descriptors (newProcessWatcherComponent,
\* NewMultiProcessWatcherComponent).
THEOREM ProcessTyped == Spec => []TypeOK
BY AlwaysInv, PTL DEF Inv

\* NeverPanics: no forwarder sends to a channel that Run has closed, signal or none
\* (Run's WaitGroup).
THEOREM NeverPanics == Spec => []NoSendOnClosed
<1>1. Inv => NoSendOnClosed
  BY DEF Inv, ErrorsKept, ClosedLast, AllReturned, NoSendOnClosed
<1> QED BY <1>1, AlwaysInv, PTL

-----------------------------------------------------------------------------
(***************************************************************************)
(* The refinement.  The variables of ProcessStream that are not variables  *)
(* here, by the definitions that Stream substitutes for them:              *)
(***************************************************************************)
Gone == {p \in Pids : poller[p] \in {"failing", "closing", "exited"}}
Known == [p \in Pids |-> IF poller[p] = "sending" THEN next[p] ELSE previous[p]]
Pending == [p \in Pids |-> carried[p] \o subEvents[p] \o outbox[p]]
Status == CASE main = "loop" -> "running" [] main = "ended" -> "ended"
            [] OTHER -> "stopped"

\* The initial states.
LEMMA StreamInit == Init => Stream!Init
<1> SUFFICES ASSUME Init PROVE Stream!Init
  OBVIOUS
<1>1. Pids \ first = {} /\ Gone = {} /\ Status = "running"
  BY DEF Init, Gone, Status
<1>2. Known = view /\ Known \in [Pids -> Snapshots]
  BY ConstantTypes DEF Init, Known
<1>3. Pending = [p \in Pids |-> <<>>]
  BY DEF Init, Pending
<1> QED BY <1>1, <1>2, <1>3 DEF Stream!Init, Init, Known, Gone, Pending, Status

\* What ProcessStream does not see.
LEMMA Stutter ==
  ASSUME UNCHANGED <<first, Known, Pending, aggEvents, view, Gone, failed, main>>
  PROVE  UNCHANGED Stream!vars
BY DEF Stream!vars, Known, Pending, Gone, Status

\* Steps of which ProcessStream sees nothing.
LEMMA QuietSteps ==
  ASSUME Inv, main = "loop",
         \/ TargetStep \/ Signal \/ RunStep
         \/ \E p \in Pids : \/ TakeError(p) \/ PutError(p) \/ ErrorForwarderReturns(p)
                           \/ EventForwarderReturns(p) \/ \E fd \in Fds : SnapshotRead(p, fd)
  PROVE  UNCHANGED Stream!vars
<1> USE DEF vars, target, polling, sub, forward, agg, service, handled, Channels
<1>1. CASE TargetStep \/ Signal \/ RunStep
  <2>1. UNCHANGED <<polling, sub, forward, aggEvents, view, failed, main>>
    BY <1>1 DEF TargetStep, Open, Close, Rename, Exit, Step, Signal, RunStep, CloseAgg
  <2> QED BY <2>1, Stutter DEF Known, Pending, Gone
<1>2. CASE \E p \in Pids : TakeError(p) \/ PutError(p) \/ ErrorForwarderReturns(p)
  <2>1. UNCHANGED <<polling, subEvents, carried, aggEvents, view, failed, main>>
    BY <1>2 DEF TakeError, PutError, ErrorForwarderReturns
  <2> QED BY <2>1, Stutter DEF Known, Pending, Gone
<1>3. CASE \E p \in Pids : EventForwarderReturns(p)
  <2>1. PICK p \in Pids : EventForwarderReturns(p)
    BY <1>3
  <2>2. carried[p] = <<>> /\ carried' = [carried EXCEPT ![p] = <<>>]
    BY <2>1 DEF EventForwarderReturns, Inv, NothingLost
  <2>3. UNCHANGED <<polling, subEvents, carried, aggEvents, view, failed, main>>
    BY <2>1, <2>2 DEF EventForwarderReturns, Inv, TypeOK
  <2> QED BY <2>3, Stutter DEF Known, Pending, Gone
<1>4. CASE \E p \in Pids, fd \in Fds : SnapshotRead(p, fd)
  <2>1. PICK p \in Pids, fd \in Fds : SnapshotRead(p, fd)
    BY <1>4
  <2>2. UNCHANGED <<poller, first, previous, outbox, sub, forward, aggEvents, view, failed, main>>
        /\ poller[p] # "sending" /\ \A q \in Pids : q # p => next'[q] = next[q]
    BY <2>1 DEF SnapshotRead, Inv, TypeOK
  <2>3. UNCHANGED <<Known, Pending, Gone>>
    BY <2>2 DEF Known, Pending, Gone
  <2> QED BY <2>2, <2>3, Stutter
<1> QED BY <1>1, <1>2, <1>3, <1>4

\* A list that fails is the end of the process's stream.
LEMMA SnapshotListStep ==
  ASSUME Inv, main = "loop", NEW p \in Pids, SnapshotList(p)
  PROVE  [Stream!Next]_(Stream!vars)
<1> USE DEF vars, target, polling, sub, forward, agg, service, handled, Channels
<1>1. /\ UNCHANGED <<first, previous, outbox, sub, forward, aggEvents, view, failed, main>>
      /\ poller[p] \in {"start", "idle"} /\ poller'[p] \in {"reading", "failing"}
      /\ \A q \in Pids : q # p => next'[q] = next[q] /\ poller'[q] = poller[q]
  BY DEF SnapshotList, Inv, TypeOK
<1>2. UNCHANGED <<Known, Pending>>
  BY <1>1 DEF Known, Pending
<1>3. CASE poller'[p] = "reading"
  <2>1. UNCHANGED Gone
    BY <1>1, <1>3 DEF Gone
  <2> QED BY <1>1, <1>2, <2>1, Stutter
<1>4. CASE poller'[p] = "failing"
  <2>1. Gone' = Gone \cup {p}
    BY <1>1, <1>4 DEF Gone
  <2>2. Stream!Go(p)
    BY <1>1, <1>2, <2>1 DEF Stream!Go, Known, Pending, Gone
  <2> QED BY <2>2 DEF Stream!Next
<1> QED BY <1>1, <1>3, <1>4

\* A snapshot is the first one, or makes its differences pending.
LEMMA SnapshotDoneStep ==
  ASSUME Inv, main = "loop", NEW p \in Pids, SnapshotDone(p)
  PROVE  [Stream!Next]_(Stream!vars)
<1> USE DEF vars, target, polling, sub, forward, agg, service, handled, Channels
<1>1. /\ UNCHANGED <<next, sub, forward, aggEvents, failed, main>>
      /\ poller[p] = "reading" /\ first' = first \ {p}
      /\ \A q \in Pids : q # p => poller'[q] = poller[q] /\ previous'[q] = previous[q]
  BY DEF SnapshotDone, Inv, TypeOK
<1>2. Gone' = Gone /\ p \notin Gone
  BY <1>1 DEF Gone, SnapshotDone, Inv, TypeOK
<1>3. Known' = [Known EXCEPT ![p] = next[p]] /\ next[p] \in Snapshots /\ Known[p] = previous[p]
  BY <1>1 DEF Known, SnapshotDone, Inv, TypeOK
<1>4. CASE p \in first
  <2>1. view' = [view EXCEPT ![p] = next[p]] /\ outbox' = outbox
    BY <1>4 DEF SnapshotDone
  <2>2. Pending' = Pending
    BY <1>1, <2>1 DEF Pending
  <2>3. Pids \ first' = (Pids \ first) \cup {p}
    BY <1>1, <1>4
  <2>4. Stream!Begin(p)
    BY <1>1, <1>2, <1>3, <1>4, <2>1, <2>2, <2>3 DEF Stream!Begin, Known, Pending, Gone
  <2> QED BY <2>4 DEF Stream!Next
<1>5. CASE p \notin first
  <2>1. /\ view' = view /\ first' = first
        /\ outbox' = [outbox EXCEPT ![p] = Diff(p, previous[p], next[p])]
    BY <1>5 DEF SnapshotDone
  <2>2. outbox[p] = <<>> /\ carried[p] \in Seq(Events) /\ subEvents[p] \in Seq(Events)
    BY <1>1 DEF Inv, TypeOK, NothingLost
  <2>3. Pending[p] = carried[p] \o subEvents[p]
    BY <2>2, NothingAdded DEF Pending
  <2>4. Pending' = [Pending EXCEPT ![p] = @ \o Diff(p, Known[p], next[p])]
    BY <1>1, <1>3, <2>1, <2>3 DEF Pending, Inv, TypeOK
  <2>5. Stream!Observe(p)
    BY <1>1, <1>2, <1>3, <1>5, <2>1, <2>4 DEF Stream!Observe, Known, Pending, Gone
  <2> QED BY <2>5 DEF Stream!Next
<1> QED BY <1>4, <1>5

\* How a poller ends is not seen.
LEMMA PollerSteps ==
  ASSUME Inv, main = "loop", NEW p \in Pids, SendDone(p) \/ SendError(p) \/ PollerDone(p) \/ PollerExit(p)
  PROVE  UNCHANGED Stream!vars
<1> USE DEF vars, target, polling, sub, forward, agg, service, handled, Channels
<1>1. /\ UNCHANGED <<first, next, outbox, subEvents, carried, aggEvents, view, failed, main>>
      /\ \A q \in Pids : q # p => poller'[q] = poller[q] /\ previous'[q] = previous[q]
  BY DEF Inv, TypeOK, SendDone, SendError, PollerDone, PollerExit
<1>2. ~PollerDone(p)
  BY DEF Inv, NothingLost, PollerDone
<1>3. Known' = Known /\ Gone' = Gone
  BY <1>1, <1>2 DEF Known, Gone, Inv, TypeOK, SendDone, SendError, PollerExit
<1>4. Pending' = Pending
  BY <1>1 DEF Pending
<1> QED BY <1>1, <1>3, <1>4, Stutter

\* Events that go from place to place stay pending, in their order.
LEMMA CarryingSteps ==
  ASSUME Inv, main = "loop", NEW p \in Pids, SendEvent(p) \/ TakeEvent(p)
  PROVE  UNCHANGED Stream!vars
<1> USE DEF vars, target, polling, sub, forward, agg, service, handled, Channels
<1>1. /\ UNCHANGED <<poller, first, next, previous, aggEvents, view, failed, main>>
      /\ carried[p] \in Seq(Events) /\ subEvents[p] \in Seq(Events) /\ outbox[p] \in Seq(Events)
      /\ \A q \in Pids : q # p => /\ carried'[q] = carried[q] /\ subEvents'[q] = subEvents[q]
                                /\ outbox'[q] = outbox[q]
  BY DEF Inv, TypeOK, SendEvent, TakeEvent
<1>2. Known' = Known /\ Gone' = Gone
  BY <1>1 DEF Known, Gone
<1>3. Pending'[p] = Pending[p]
  <2>1. CASE SendEvent(p)
    <3>1. /\ outbox[p] # <<>> /\ outbox'[p] = Tail(outbox[p]) /\ carried'[p] = carried[p]
          /\ subEvents'[p] = Append(subEvents[p], Head(outbox[p]))
      BY <2>1 DEF SendEvent, Inv, TypeOK
    <3>2. Queue(carried[p], Append(subEvents[p], Head(outbox[p])), Tail(outbox[p]))
            = Queue(carried[p], subEvents[p], outbox[p])
      BY <1>1, <3>1, ShiftHead
    <3> QED BY <3>1, <3>2 DEF Pending, Queue
  <2>2. CASE TakeEvent(p)
    <3>1. /\ subEvents[p] # <<>> /\ carried[p] = <<>> /\ outbox'[p] = outbox[p]
          /\ carried'[p] = <<Head(subEvents[p])>> /\ subEvents'[p] = Tail(subEvents[p])
      BY <2>2 DEF TakeEvent, Inv, TypeOK
    <3>2. <<Head(subEvents[p])>> \o Tail(subEvents[p]) = <<>> \o subEvents[p]
      BY <1>1, <3>1
    <3> QED BY <3>1, <3>2 DEF Pending
  <2> QED BY <2>1, <2>2
<1>4. Pending' = Pending
  BY <1>1, <1>3 DEF Pending
<1> QED BY <1>1, <1>2, <1>4, Stutter

\* What a forwarder hands on is merged.
LEMMA PutEventStep ==
  ASSUME Inv, main = "loop", NEW p \in Pids, PutEvent(p)
  PROVE  Stream!Merge(p)
<1> USE DEF vars, target, polling, sub, forward, agg, service, handled, Channels
<1>1. /\ UNCHANGED <<poller, first, next, previous, subEvents, outbox, view, failed, main>>
      /\ carried' = [carried EXCEPT ![p] = <<>>] /\ aggEvents' = aggEvents \o carried[p]
      /\ carried[p] # <<>> /\ carried[p] \in Seq(Events) /\ Len(carried[p]) <= 1
      /\ subEvents[p] \in Seq(Events) /\ outbox[p] \in Seq(Events) /\ aggEvents \in Seq(Events)
  BY DEF PutEvent, Inv, TypeOK
<1>2. /\ Pending[p] = Queue(carried[p], subEvents[p], outbox[p])
      /\ Pending'[p] = Queue(<<>>, subEvents[p], outbox[p])
  BY <1>1 DEF Pending, Queue, Inv, TypeOK
<1>3. /\ Pending[p] # <<>> /\ carried[p] = <<Head(Pending[p])>>
      /\ Tail(Pending[p]) = Pending'[p] /\ Head(Pending[p]) \in Events
  <2> DEFINE all == Queue(carried[p], subEvents[p], outbox[p])
  <2>1. /\ all # <<>> /\ Head(all) \in Events /\ carried[p] = <<Head(all)>>
        /\ Tail(all) = Queue(<<>>, subEvents[p], outbox[p])
    BY <1>1, DropHead
  <2> QED BY <1>2, <2>1
<1>4. Pending' = [Pending EXCEPT ![p] = Tail(@)]
  <2>1. \A q \in Pids : q # p => Pending'[q] = Pending[q]
    BY <1>1 DEF Pending, Inv, TypeOK
  <2> QED BY <1>3, <2>1 DEF Pending
<1>6. aggEvents' = Append(aggEvents, Head(Pending[p]))
  BY <1>1, <1>3
<1>7. Known' = Known /\ Gone' = Gone
  BY <1>1 DEF Known, Gone
<1> QED BY <1>1, <1>3, <1>4, <1>6, <1>7 DEF Stream!Merge, Known, Pending, Gone

\* Handling is handling.
LEMMA HandleEventStep ==
  ASSUME HandleEvent
  PROVE  Stream!Handle
<1> USE DEF vars, target, polling, sub, forward, agg, service, handled, Channels
<1>1. UNCHANGED <<first, poller, next, previous, carried, subEvents, outbox, failed, main>>
  BY DEF HandleEvent
<1>2. Known' = Known /\ Gone' = Gone /\ Pending' = Pending
  BY <1>1 DEF Known, Gone, Pending
<1> QED BY <1>1, <1>2 DEF HandleEvent, Stream!Handle, Known, Gone, Pending

\* An error that arrives is that of a process that is gone.
LEMMA HandleErrorStep ==
  ASSUME Inv, HandleError
  PROVE  Stream!Next
<1> USE DEF vars, target, polling, sub, forward, agg, service, handled, Channels
<1>1. UNCHANGED <<first, poller, next, previous, carried, subEvents, outbox, aggEvents, view, main>>
  BY DEF HandleError
<1>2. Known' = Known /\ Gone' = Gone /\ Pending' = Pending
  BY <1>1 DEF Known, Gone, Pending
<1>3. Head(aggErrors) \in Pids /\ Head(aggErrors) \in Gone
  <2>1. aggErrors \in Seq(Pids) /\ aggErrors # <<>>
    BY DEF HandleError, Inv, TypeOK
  <2>2. Head(aggErrors) \in Pids /\ Head(aggErrors) = aggErrors[1] /\ 1 \in DOMAIN aggErrors
    BY <2>1
  <2> QED BY <2>2 DEF Gone, Inv, ErrorsKept, Closing
<1>4. Stream!Tell(Head(aggErrors))
  BY <1>1, <1>2, <1>3 DEF HandleError, Stream!Tell, Known, Gone, Pending
<1> QED BY <1>3, <1>4 DEF Stream!Next

\* The second of the two channels is the end of all: nothing is left anywhere.
LEMMA ChannelClosedStep ==
  ASSUME Inv, NEW c \in Channels, ChannelClosed(c)
  PROVE  [Stream!Next]_(Stream!vars)
<1> USE DEF vars, target, polling, sub, forward, agg, service, handled, Channels
<1>1. /\ UNCHANGED <<polling, sub, forward, agg, view, failed>> /\ main = "loop"
      /\ main' = IF open \ {c} = {} THEN "ended" ELSE "loop"
  BY DEF ChannelClosed, StillOpen
<1>2. Known' = Known /\ Gone' = Gone /\ Pending' = Pending
  BY <1>1 DEF Known, Gone, Pending
<1>3. CASE open \ {c} # {}
  <2>1. main' = main
    BY <1>1, <1>3
  <2> QED BY <1>1, <1>2, <2>1, Stutter
<1>4. CASE open \ {c} = {}
  <2>1. aggEvents = <<>> /\ aggErrors = <<>>
    BY <1>4 DEF ChannelClosed, Inv, NothingLost
  <2>2. \A p \in Pids : poller[p] = "exited" /\ running[p] = {}
    BY DEF ChannelClosed, Inv, ClosedLast, AllReturned
  <2>3. \A p \in Pids : /\ carried[p] = <<>> /\ subEvents[p] = <<>> /\ outbox[p] = <<>>
                        /\ p \in failed
    <3> TAKE p \in Pids
    <3>1. /\ carried[p] = <<>> /\ subEvents[p] = <<>> /\ outbox[p] = <<>>
          /\ carriedErr[p] = 0 /\ subErrors[p] = 0
      BY <1>1, <2>2 DEF Inv, NothingLost, ErrorsKept
    <3>2. ToldOf(p)
      BY <1>1, <2>2 DEF Inv, NothingLost, Closing
    <3> QED BY <2>1, <3>1, <3>2 DEF ToldOf
  <2>4. failed = Pids
    BY <2>3 DEF Inv, TypeOK
  <2>5. \A p \in Pids : Pending[p] = <<>>
    BY <2>3 DEF Pending
  <2>6. main' = "ended"
    BY <1>1, <1>4
  <2>7. Stream!End
    BY <1>1, <1>2, <2>1, <2>4, <2>5, <2>6 DEF Stream!End, Known, Gone, Pending
  <2> QED BY <2>7 DEF Stream!Next
<1> QED BY <1>3, <1>4

\* While the loop runs.
LEMMA LoopStep ==
  ASSUME Inv, [Next]_vars, main = "loop"
  PROVE  [Stream!Next]_(Stream!vars)
<1>1. CASE TargetStep \/ RunStep \/ Signal
  BY <1>1, QuietSteps
<1>2. CASE \E p \in Pids : PollerStep(p)
  BY <1>2, SnapshotListStep, SnapshotDoneStep, PollerSteps, CarryingSteps, QuietSteps DEF PollerStep
<1>3. CASE \E p \in Pids : EventForwarder(p)
  BY <1>3, CarryingSteps, PutEventStep, QuietSteps DEF EventForwarder, Stream!Next
<1>4. CASE \E p \in Pids : ErrorForwarder(p)
  BY <1>4, QuietSteps DEF ErrorForwarder
<1>5. CASE HandleEvent \/ HandleError
  BY <1>5, HandleEventStep, HandleErrorStep DEF Stream!Next
<1>6. CASE \E c \in Channels : ChannelClosed(c)
  BY <1>6, ChannelClosedStep
<1>7. CASE HandleSignal
  <2>1. Stream!Stop
    BY <1>7 DEF HandleSignal, Stream!Stop
  <2> QED BY <2>1 DEF Stream!Next
<1>8. CASE UNCHANGED vars
  <2>1. UNCHANGED <<polling, sub, forward, agg, view, failed, main>>
    BY <1>8 DEF vars, service, handled
  <2> QED BY <2>1, Stutter DEF Known, Gone, Pending, polling, sub, forward, agg
<1>9. ~Stopped /\ ~Terminated /\ \A p \in Pids : ~CloseWatcher(p)
  BY DEF Stopped, Terminated, CloseWatcher
<1> QED BY <1>1, <1>2, <1>3, <1>4, <1>5, <1>6, <1>7, <1>8, <1>9 DEF Next, ServiceStep

\* After a signal ProcessStream allows everything.
LEMMA StoppedStep ==
  ASSUME Inv, [Next]_vars, main \in {"closing", "stopped"}
  PROVE  Stream!Next
<1>1. main' \in {"closing", "stopped"}
  BY DEF Next, vars, target, service, TargetStep, Open, Close, Rename, Exit, PollerStep, SnapshotList,
    SnapshotRead, SnapshotDone, SendEvent, SendDone, SendError, PollerDone, PollerExit,
    EventForwarder, TakeEvent, PutEvent, EventForwarderReturns, ErrorForwarder, TakeError,
    PutError, ErrorForwarderReturns, RunStep, CloseAgg, ServiceStep, HandleEvent, HandleError,
    ChannelClosed, HandleSignal, CloseWatcher, Stopped, Signal, Terminated
<1> QED BY <1>1 DEF Stream!Next, Stream!Stopped

\* Once the service has ended by itself nothing is left to run.
LEMMA EndedStep ==
  ASSUME Inv, [Next]_vars, main = "ended"
  PROVE  UNCHANGED Stream!vars
<1>1. open = {} /\ aggClosed = Channels
  BY DEF Inv, TypeOK, NothingLost
<1>2. \A p \in Pids : /\ poller[p] = "exited" /\ running[p] = {} /\ subDone = {}
                      /\ carried[p] = <<>> /\ carriedErr[p] = 0
  BY <1>1 DEF Inv, NothingLost, ErrorsKept, ClosedLast, AllReturned, Channels
<1>3. ~TargetStep /\ ~RunStep /\ ~ServiceStep /\ ~Signal
  BY <1>1 DEF TargetStep, Open, Close, Rename, Exit, Step, RunStep, CloseAgg, ServiceStep,
    HandleEvent, HandleError, ChannelClosed, HandleSignal, CloseWatcher, Stopped, Signal
<1>4. \A p \in Pids : ~PollerStep(p)
  BY <1>2 DEF PollerStep, SnapshotList, SnapshotRead, SnapshotDone, SendEvent, SendDone,
    SendError, PollerDone, PollerExit
<1>5. \A p \in Pids : ~EventForwarder(p) /\ ~ErrorForwarder(p)
  BY <1>2 DEF EventForwarder, TakeEvent, PutEvent, EventForwarderReturns, ErrorForwarder,
    TakeError, PutError, ErrorForwarderReturns
<1>6. UNCHANGED vars
  BY <1>3, <1>4, <1>5 DEF Next, Terminated
<1> QED BY <1>6, Stutter DEF vars, service, handled, polling, sub, forward, agg, Known, Gone, Pending

\* Implements: process mode keeps the promise of ProcessStream, for any processes,
\* descriptors, paths and capacities: the changes of each process arrive once
\* and in order, and the service ends by itself only when all of them are
\* handled and every error is told (MultiProcessWatcherComponent,
\* startProcess).
THEOREM Implements == Spec => StreamSpec
<1>1. Inv /\ [Next]_vars => [Stream!Next]_(Stream!vars)
  BY LoopStep, StoppedStep, EndedStep DEF Inv, TypeOK
<1> QED BY <1>1, StreamInit, AlwaysInv, PTL DEF Spec, StreamSpec, Stream!Spec
-----------------------------------------------------------------------------
(***************************************************************************)
(* What the stream tells.  Since ProcessMonitor implements ProcessStream,  *)
(* only the steps of that have to be looked at.                            *)
(***************************************************************************)
Values == Names \cup {NoName}

\* What an event makes of a descriptor: it is closed as what it was open as,
\* and opened when it was closed; events about others leave it alone.
Telling(p, fd) ==
  {t \in Values \X Events \X Values :
     IF t[2].pid = p /\ t[2].fd = fd
     THEN IF t[2].op = "open" THEN t[1] = NoName /\ t[3] = t[2].path
                              ELSE t[1] = t[2].path /\ t[3] = NoName
     ELSE t[1] = t[3]}

\* What has been handled, what is merged and what is pending lead from one
\* another to the latest snapshot.
Ordered ==
  main = "loop" =>
    /\ \A p \in Pids : Pending[p] \in Seq(EventsOf(p))
    /\ \A p \in first : Pending[p] = <<>> /\ \A n \in DOMAIN aggEvents : aggEvents[n].pid # p
    /\ \A p \in Pids \ first, fd \in Fds : \E u \in Values :
         /\ Trail(Telling(p, fd), aggEvents, view[p][fd], u)
         /\ Trail(Telling(p, fd), Pending[p], u, Known[p][fd])

LEMMA TellingAs ==
  ASSUME NEW p \in Pids, NEW fd \in Fds, NEW e \in Events, NEW v \in Values, NEW w \in Values
  PROVE  <<v, e, w>> \in Telling(p, fd) <=>
           IF e.pid = p /\ e.fd = fd
           THEN IF e.op = "open" THEN v = NoName /\ w = e.path ELSE v = e.path /\ w = NoName
           ELSE v = w
BY DEF Telling

\* The differences of two snapshots lead from one to the other.
LEMMA DiffTrail ==
  ASSUME NEW p \in Pids, NEW fd \in Fds, NEW old \in Snapshots, NEW new \in Snapshots
  PROVE  Trail(Telling(p, fd), Diff(p, old, new), old[fd], new[fd])
<1> DEFINE R == Telling(p, fd)
           seqs == [i \in Fds |-> DiffAt(p, old, new, i)]
           h == [i \in 0 .. NFd |-> IF i < fd THEN old[fd] ELSE new[fd]]
<1>1. NFd \in Nat /\ seqs \in Seq(Seq(EventsOf(p))) /\ Len(seqs) = NFd /\ fd \in 1 .. NFd
  BY DiffType, CapAssumption DEF Fds
<1>2. /\ \A i \in Fds : seqs[i] = DiffAt(p, old, new, i)
      /\ \A i \in 0 .. NFd : h[i] = IF i < fd THEN old[fd] ELSE new[fd]
  OBVIOUS
<1> HIDE DEF R, seqs, h
<1>3. \A i \in Fds : Trail(R, seqs[i], h[i - 1], h[i])
  <2> TAKE i \in Fds
  <2> DEFINE event(op, path) == [pid |-> p, fd |-> i, op |-> op, path |-> path]
  <2>1. old[i] \in Values /\ new[i] \in Values /\ old[fd] \in Values /\ new[fd] \in Values
    BY DEF Snapshots, Values
  <2>2. /\ old[i] # NoName => event("close", old[i]) \in Events
        /\ new[i] # NoName => event("open", new[i]) \in Events
    BY <2>1 DEF Events, Values
  <2>3. i \in 1 .. NFd /\ i - 1 \in 0 .. NFd /\ i \in 0 .. NFd
    BY <1>1 DEF Fds
  <2>4. CASE i = fd
    <3>1. h[i - 1] = old[i] /\ h[i] = new[i]
      BY <1>1, <1>2, <2>3, <2>4
    <3>2. old[i] # NoName => <<old[i], event("close", old[i]), NoName>> \in R
      <4> SUFFICES ASSUME old[i] # NoName PROVE <<old[i], event("close", old[i]), NoName>> \in R
        OBVIOUS
      <4> QED BY <2>1, <2>2, <2>4, TellingAs DEF R, Values
    <3>3. new[i] # NoName => <<NoName, event("open", new[i]), new[i]>> \in R
      <4> SUFFICES ASSUME new[i] # NoName PROVE <<NoName, event("open", new[i]), new[i]>> \in R
        OBVIOUS
      <4> QED BY <2>1, <2>2, <2>4, TellingAs DEF R, Values
    <3> DEFINE s == IF old[i] = NoName THEN <<>> ELSE <<event("close", old[i])>>
               t == IF new[i] = NoName THEN <<>> ELSE <<event("open", new[i])>>
    <3>4. s \in Seq(Events) /\ Trail(R, s, old[i], NoName)
      BY <2>2, <3>2, TrailEmpty, TrailOne
    <3>5. t \in Seq(Events) /\ Trail(R, t, NoName, new[i])
      BY <2>2, <3>3, TrailEmpty, TrailOne
    <3>6. DiffAt(p, old, new, i) = IF old[i] = new[i] THEN <<>> ELSE s \o t
      BY DEF DiffAt
    <3> HIDE DEF s, t
    <3>7. Trail(R, s \o t, old[i], new[i])
      BY <3>4, <3>5, TrailConcat
    <3> QED BY <1>2, <3>1, <3>6, <3>7, TrailEmpty
  <2>5. CASE i # fd
    <3>1. h[i - 1] = h[i] /\ h[i] \in Values
      BY <1>1, <1>2, <2>1, <2>3, <2>5
    <3>2. seqs[i] \in Seq(EventsOf(p)) /\ \A n \in DOMAIN seqs[i] : seqs[i][n].fd = i
      <4>1. seqs[i] \in Seq(EventsOf(p))
        BY <1>1, <2>3
      <4>2. \A n \in DOMAIN DiffAt(p, old, new, i) : DiffAt(p, old, new, i)[n].fd = i
        BY DEF DiffAt
      <4> QED BY <1>2, <4>1, <4>2
    <3>3. \A n \in DOMAIN seqs[i] : <<h[i], seqs[i][n], h[i]>> \in R
      <4> TAKE n \in DOMAIN seqs[i]
      <4>1. seqs[i][n] \in Events /\ seqs[i][n].fd # fd
        BY <2>5, <3>2 DEF EventsOf
      <4> QED BY <3>1, <4>1, TellingAs DEF R
    <3> QED BY <3>1, <3>2, <3>3, TrailStays
  <2> QED BY <2>4, <2>5
<1>4. Trail(R, FlattenSeq(seqs), h[0], h[NFd])
  BY <1>1, <1>3, TrailFlatten DEF Fds
<1>5. h[0] = old[fd] /\ h[NFd] = new[fd]
  BY <1>1, <1>2
<1> QED BY <1>4, <1>5 DEF Diff, R, seqs
LEMMA InitOrdered == Init => Ordered
<1> SUFFICES ASSUME Init PROVE Ordered
  OBVIOUS
<1>1. \A p \in Pids : Pending[p] = <<>> /\ <<>> \in Seq(EventsOf(p))
  BY DEF Init, Pending
<1>2. first = Pids /\ aggEvents = <<>> /\ DOMAIN <<>> = {}
  BY DEF Init
<1> QED BY <1>1, <1>2 DEF Ordered

\* The types of what the steps below are about.
LEMMA StreamTypes ==
  ASSUME Inv
  PROVE  /\ aggEvents \in Seq(Events) /\ view \in [Pids -> Snapshots] /\ first \subseteq Pids
         /\ Known \in [Pids -> Snapshots] /\ DOMAIN Pending = Pids
         /\ \A s \in Snapshots, fd \in Fds : s[fd] \in Values
BY DEF Inv, TypeOK, Known, Pending, Snapshots, Values

LEMMA BeginOrdered ==
  ASSUME Inv, Inv', Ordered, NEW p \in Pids, Stream!Begin(p)
  PROVE  Ordered'
<1>1. PICK s \in Snapshots : Known' = [Known EXCEPT ![p] = s] /\ view' = [view EXCEPT ![p] = s]
  BY DEF Stream!Begin, Known
<1>2. /\ main = "loop" /\ p \in first /\ first' = first \ {p}
      /\ Pending' = Pending /\ aggEvents' = aggEvents
  <2>1. p \notin Pids \ first /\ Pids \ first' = (Pids \ first) \cup {p}
    BY DEF Stream!Begin
  <2>2. first' = first \ {p}
    BY <2>1, StreamTypes DEF Inv, TypeOK
  <2> QED BY <2>1, <2>2 DEF Stream!Begin, Pending
<1>3. \A fd \in Fds : /\ Trail(Telling(p, fd), aggEvents, s[fd], s[fd])
                      /\ Trail(Telling(p, fd), Pending[p], s[fd], s[fd]) /\ s[fd] \in Values
  <2> TAKE fd \in Fds
  <2>1. s[fd] \in Values
    BY StreamTypes
  <2>2. \A n \in DOMAIN aggEvents : <<s[fd], aggEvents[n], s[fd]>> \in Telling(p, fd)
    <3> TAKE n \in DOMAIN aggEvents
    <3>1. aggEvents[n] \in Events /\ aggEvents[n].pid # p
      BY <1>2, StreamTypes DEF Ordered
    <3> QED BY <2>1, <3>1, TellingAs
  <2>3. Pending[p] = <<>>
    BY <1>2 DEF Ordered
  <2> QED BY <2>1, <2>2, <2>3, TrailStays, TrailEmpty, StreamTypes
<1>4. /\ Known'[p] = s /\ view'[p] = s
      /\ \A q \in Pids : q # p => Known'[q] = Known[q] /\ view'[q] = view[q]
  BY <1>1, StreamTypes
<1>5. \A q \in Pids \ first', fd \in Fds : \E u \in Values :
         /\ Trail(Telling(q, fd), aggEvents, view'[q][fd], u)
         /\ Trail(Telling(q, fd), Pending[q], u, Known'[q][fd])
  <2> TAKE q \in Pids \ first', fd \in Fds
  <2>1. CASE q = p
    BY <1>3, <1>4, <2>1
  <2>2. CASE q # p
    <3>1. q \in Pids \ first /\ Known'[q] = Known[q] /\ view'[q] = view[q]
      BY <1>2, <1>4, <2>2
    <3> QED BY <1>2, <3>1 DEF Ordered
  <2> QED BY <2>1, <2>2
<1> QED BY <1>2, <1>5 DEF Ordered, Telling, EventsOf

LEMMA ObserveOrdered ==
  ASSUME Inv, Inv', Ordered, NEW p \in Pids, Stream!Observe(p)
  PROVE  Ordered'
<1>1. PICK s \in Snapshots : /\ Known' = [Known EXCEPT ![p] = s]
                             /\ Pending' = [Pending EXCEPT ![p] = @ \o Diff(p, Known[p], s)]
  BY DEF Stream!Observe, Known, Pending
<1>2. /\ main = "loop" /\ p \notin first /\ first' = first
      /\ view' = view /\ aggEvents' = aggEvents
  <2>1. p \in Pids \ first /\ Pids \ first' = Pids \ first
    BY DEF Stream!Observe
  <2>2. first' = first
    BY <2>1, StreamTypes DEF Inv, TypeOK
  <2> QED BY <2>1, <2>2 DEF Stream!Observe
<1>3. Known[p] \in Snapshots /\ Diff(p, Known[p], s) \in Seq(EventsOf(p)) /\ Pending[p] \in Seq(EventsOf(p))
  BY <1>2, StreamTypes, DiffType DEF Ordered
<1>4. /\ Known'[p] = s /\ Pending'[p] = Pending[p] \o Diff(p, Known[p], s)
      /\ \A q \in Pids : q # p => Known'[q] = Known[q] /\ Pending'[q] = Pending[q]
  BY <1>1, StreamTypes
<1>5. \A q \in Pids : Pending'[q] \in Seq(EventsOf(q))
  <2> TAKE q \in Pids
  <2>1. CASE q = p
    <3> DEFINE d == Diff(p, Known[p], s)
    <3>1. Pending[p] \o d \in Seq(EventsOf(p))
      <4>1. d \in Seq(EventsOf(p)) /\ Pending[p] \in Seq(EventsOf(p))
        BY <1>3
      <4> HIDE DEF d
      <4> QED BY <4>1
    <3> QED BY <1>4, <2>1, <3>1
  <2>2. CASE q # p
    BY <1>2, <1>4, <2>2 DEF Ordered
  <2> QED BY <2>1, <2>2
<1>6. \A q \in Pids \ first, fd \in Fds : \E u \in Values :
         /\ Trail(Telling(q, fd), aggEvents, view[q][fd], u)
         /\ Trail(Telling(q, fd), Pending'[q], u, Known'[q][fd])
  <2> TAKE q \in Pids \ first, fd \in Fds
  <2>1. PICK u \in Values : /\ Trail(Telling(q, fd), aggEvents, view[q][fd], u)
                            /\ Trail(Telling(q, fd), Pending[q], u, Known[q][fd])
    BY <1>2 DEF Ordered
  <2>2. CASE q = p
    <3>1. Trail(Telling(p, fd), Diff(p, Known[p], s), Known[p][fd], s[fd])
      BY <1>3, DiffTrail
    <3>2. Trail(Telling(p, fd), Pending[p] \o Diff(p, Known[p], s), u, s[fd])
      BY <1>3, <2>1, <2>2, <3>1, TrailConcat
    <3> QED BY <1>4, <2>1, <2>2, <3>2
  <2>3. CASE q # p
    BY <1>4, <2>1, <2>3
  <2> QED BY <2>2, <2>3
<1>7. \A q \in first : Pending'[q] = <<>> /\ \A n \in DOMAIN aggEvents : aggEvents[n].pid # q
  BY <1>2, <1>4, StreamTypes DEF Ordered
<1> QED BY <1>2, <1>5, <1>6, <1>7 DEF Ordered, Telling, EventsOf

LEMMA MergeOrdered ==
  ASSUME Inv, Inv', Ordered, NEW p \in Pids, Stream!Merge(p)
  PROVE  Ordered'
<1> DEFINE e == Head(Pending[p])
<1>1. /\ main = "loop" /\ Pending[p] # <<>> /\ aggEvents' = Append(aggEvents, e)
      /\ Pending' = [Pending EXCEPT ![p] = Tail(@)] /\ Known' = Known /\ view' = view
  BY DEF Stream!Merge, Pending, Known
<1>2. first' = first
  <2>1. Pids \ first' = Pids \ first
    BY DEF Stream!Merge
  <2> QED BY <2>1, StreamTypes DEF Inv, TypeOK
<1>3. Pending[p] \in Seq(EventsOf(p)) /\ p \notin first
  BY <1>1, StreamTypes DEF Ordered
<1>4. Tail(Pending[p]) \in Seq(EventsOf(p)) /\ e \in EventsOf(p) /\ e \in Events /\ e.pid = p
  BY <1>1, <1>3, TakeHead DEF EventsOf
<1>5. /\ Pending'[p] = Tail(Pending[p])
      /\ \A q \in Pids : q # p => Pending'[q] = Pending[q]
  BY <1>1, StreamTypes
<1> HIDE DEF e
<1>6. \A q \in Pids : Pending'[q] \in Seq(EventsOf(q))
  <2> TAKE q \in Pids
  <2>1. CASE q = p
    BY <1>4, <1>5, <2>1
  <2>2. CASE q # p
    BY <1>1, <1>5, <2>2 DEF Ordered
  <2> QED BY <2>1, <2>2
<1>7. \A q \in Pids \ first, fd \in Fds : \E u \in Values :
         /\ Trail(Telling(q, fd), Append(aggEvents, e), view[q][fd], u)
         /\ Trail(Telling(q, fd), Pending'[q], u, Known[q][fd])
  <2> TAKE q \in Pids \ first, fd \in Fds
  <2>1. PICK u \in Values : /\ Trail(Telling(q, fd), aggEvents, view[q][fd], u)
                            /\ Trail(Telling(q, fd), Pending[q], u, Known[q][fd])
    BY <1>1 DEF Ordered
  <2>2. CASE q = p
    <3>1. PICK x : <<u, Head(Pending[p]), x>> \in Telling(p, fd) /\ Trail(Telling(p, fd), Tail(Pending[p]), x, Known[p][fd])
      BY <1>1, <1>3, <2>1, <2>2, TrailHead
    <3>2. x \in Values
      BY <3>1 DEF Telling
    <3>3. Trail(Telling(p, fd), Append(aggEvents, e), view[p][fd], x)
      BY <1>4, <2>1, <2>2, <3>1, TrailAppend, StreamTypes DEF e
    <3> QED BY <1>5, <2>2, <3>1, <3>2, <3>3
  <2>3. CASE q # p
    <3>1. <<u, e, u>> \in Telling(q, fd)
      BY <1>4, <2>1, <2>3, TellingAs
    <3>2. Trail(Telling(q, fd), Append(aggEvents, e), view[q][fd], u)
      BY <1>4, <2>1, <3>1, TrailAppend, StreamTypes
    <3> QED BY <1>5, <2>1, <2>3, <3>2
  <2> QED BY <2>2, <2>3
<1>8. \A q \in first : Pending'[q] = <<>> /\ \A n \in DOMAIN Append(aggEvents, e) : Append(aggEvents, e)[n].pid # q
  <2> TAKE q \in first
  <2>1. q # p /\ q \in Pids /\ Pending[q] = <<>> /\ \A n \in DOMAIN aggEvents : aggEvents[n].pid # q
    BY <1>1, <1>3, StreamTypes DEF Ordered
  <2>2. \A n \in DOMAIN Append(aggEvents, e) : Append(aggEvents, e)[n] = e \/
           (n \in DOMAIN aggEvents /\ Append(aggEvents, e)[n] = aggEvents[n])
    <3>1. aggEvents \in Seq(Events) /\ e \in Events
      BY <1>4, StreamTypes
    <3> QED BY <3>1, OldOrNew
  <2> QED BY <1>4, <1>5, <2>1, <2>2
<1> QED BY <1>1, <1>2, <1>6, <1>7, <1>8 DEF Ordered, Telling, EventsOf

LEMMA HandleOrdered ==
  ASSUME Inv, Inv', Ordered, Stream!Handle
  PROVE  Ordered'
<1> DEFINE e == Head(aggEvents)
<1>1. /\ main = "loop" /\ aggEvents # <<>> /\ aggEvents' = Tail(aggEvents)
      /\ view' = ApplyEvent(view, e) /\ Pending' = Pending /\ Known' = Known
  BY DEF Stream!Handle, Pending, Known
<1>2. first' = first
  <2>1. Pids \ first' = Pids \ first
    BY DEF Stream!Handle
  <2> QED BY <2>1, StreamTypes DEF Inv, TypeOK
<1>3. e \in Events /\ Tail(aggEvents) \in Seq(Events)
  BY <1>1, StreamTypes, TakeHead
<1> HIDE DEF e
<1>4. \A q \in Pids, fd \in Fds : view'[q][fd] =
        IF e.pid = q /\ e.fd = fd THEN IF e.op = "open" THEN e.path ELSE NoName ELSE view[q][fd]
  <2>1. \A q \in Pids : view[q] \in [Fds -> Values]
    BY StreamTypes DEF Snapshots, Values
  <2> QED BY <1>1, <1>3, <2>1, StreamTypes DEF ApplyEvent, Events
<1>5. \A q \in Pids \ first, fd \in Fds : \E u \in Values :
         /\ Trail(Telling(q, fd), Tail(aggEvents), view'[q][fd], u)
         /\ Trail(Telling(q, fd), Pending[q], u, Known[q][fd])
  <2> TAKE q \in Pids \ first, fd \in Fds
  <2>1. PICK u \in Values : /\ Trail(Telling(q, fd), aggEvents, view[q][fd], u)
                            /\ Trail(Telling(q, fd), Pending[q], u, Known[q][fd])
    BY <1>1 DEF Ordered
  <2>2. PICK x : <<view[q][fd], e, x>> \in Telling(q, fd) /\ Trail(Telling(q, fd), Tail(aggEvents), x, u)
    BY <1>1, <2>1, TrailHead, StreamTypes DEF e
  <2>3. x \in Values /\ view[q][fd] \in Values
    BY <2>2 DEF Telling
  <2>4. x = view'[q][fd]
    BY <1>3, <1>4, <2>2, <2>3, TellingAs
  <2> QED BY <2>1, <2>2, <2>4
<1>6. \A q \in first : \A n \in DOMAIN Tail(aggEvents) : Tail(aggEvents)[n].pid # q
  BY <1>1, StreamTypes, TakeHead DEF Ordered
<1> QED BY <1>1, <1>2, <1>5, <1>6 DEF Ordered, Telling, EventsOf

\* A step that moves no event, while the loop runs.
LEMMA OthersOrdered ==
  ASSUME Inv, Inv', Ordered, UNCHANGED <<Pids \ first, Known, Pending, aggEvents, view>>,
         main' = "loop" => main = "loop"
  PROVE  Ordered'
<1>1. first' = first
  BY StreamTypes DEF Inv, TypeOK
<1> QED BY <1>1 DEF Ordered, Telling, EventsOf

LEMMA NextOrdered ==
  ASSUME Inv, Inv', Ordered, [Next]_vars
  PROVE  Ordered'
<1>1. [Stream!Next]_(Stream!vars)
  BY LoopStep, StoppedStep, EndedStep DEF Inv, TypeOK
<1>2. CASE \E p \in Pids : Stream!Begin(p) \/ Stream!Observe(p) \/ Stream!Merge(p)
  BY <1>2, BeginOrdered, ObserveOrdered, MergeOrdered
<1>3. CASE Stream!Handle
  BY <1>3, HandleOrdered
<1>4. CASE \E p \in Pids : Stream!Go(p) \/ Stream!Tell(p)
  <2>1. UNCHANGED <<Pids \ first, Known, Pending, aggEvents, view>> /\ main = "loop"
    BY <1>4 DEF Stream!Go, Stream!Tell, Known, Pending
  <2> QED BY <2>1, OthersOrdered
<1>5. CASE Stream!End \/ Stream!Stop \/ Stream!Stopped
  <2>1. main' # "loop"
    BY <1>5 DEF Stream!End, Stream!Stop, Stream!Stopped
  <2> QED BY <2>1 DEF Ordered
<1>6. CASE UNCHANGED Stream!vars
  <2>1. UNCHANGED <<Pids \ first, Known, Pending, aggEvents, view>> /\ (main' = "loop" => main = "loop")
    BY <1>6 DEF Stream!vars, Known, Pending
  <2> QED BY <2>1, OthersOrdered
<1> QED BY <1>1, <1>2, <1>3, <1>4, <1>5, <1>6 DEF Stream!Next

LEMMA AlwaysOrdered == Spec => []Ordered
BY AlwaysInv, InitOrdered, NextOrdered, PTL DEF Spec

\* What the last event about a descriptor says is where its trail leads.
LEMMA ShownByTrail ==
  ASSUME Inv, NEW p \in Pids, NEW fd \in Fds, NEW s \in Seq(Events), NEW w,
         Trail(Telling(p, fd), s, view[p][fd], w)
  PROVE  Shown(p, fd, s) = w
<1> DEFINE k == Len(s)
           about == {n \in DOMAIN s : s[n].pid = p /\ s[n].fd = fd}
<1>1. PICK g : /\ g[0] = view[p][fd] /\ g[k] = w
               /\ \A n \in 1 .. k : <<g[n - 1], s[n], g[n]>> \in Telling(p, fd)
  BY DEF Trail
<1>2. k \in Nat /\ DOMAIN s = 1 .. k /\ \A n \in 1 .. k : s[n] \in Events
  OBVIOUS
<1>3. \A n \in 1 .. k : IF n \in about THEN g[n] = IF s[n].op = "open" THEN s[n].path ELSE NoName
                                       ELSE g[n] = g[n - 1]
  <2> TAKE n \in 1 .. k
  <2>1. <<g[n - 1], s[n], g[n]>> \in Telling(p, fd) /\ s[n] \in Events
    BY <1>1, <1>2
  <2>2. g[n - 1] \in Values /\ g[n] \in Values
    BY <2>1 DEF Telling
  <2> QED BY <1>2, <2>1, <2>2, TellingAs
<1>4. about \subseteq 1 .. k /\ \A n \in about : s[n].pid = p /\ s[n].fd = fd
  BY <1>2
<1>5. Shown(p, fd, s) = IF about = {} THEN view[p][fd] ELSE ApplyEvent(view, s[Max(about)])[p][fd]
  BY DEF Shown
<1> HIDE DEF about, k
<1>6. CASE about = {}
  <2>1. \A n \in 0 + 1 .. k : g[n] = g[n - 1]
    BY <1>3, <1>6
  <2>2. 0 \in 0 .. k
    BY <1>2
  <2>3. g[k] = g[0]
    BY <1>2, <2>1, <2>2, Unchanging
  <2> QED BY <1>1, <1>5, <1>6, <2>3
<1>7. CASE about # {}
  <2> DEFINE m == Max(about)
  <2>1. m \in about /\ \A n \in about : n <= m
    BY <1>2, <1>4, <1>7, Greatest
  <2> HIDE DEF m
  <2>2. m \in 1 .. k /\ m \in 0 .. k
    BY <1>2, <1>4, <2>1
  <2>3. \A n \in m + 1 .. k : g[n] = g[n - 1]
    <3> TAKE n \in m + 1 .. k
    <3>1. n \in 1 .. k /\ ~(n <= m)
      BY <1>2, <2>2
    <3> QED BY <1>3, <2>1, <3>1
  <2>4. g[k] = g[m]
    BY <1>2, <2>2, <2>3, Unchanging
  <2>5. g[m] = IF s[m].op = "open" THEN s[m].path ELSE NoName
    BY <1>3, <2>1, <2>2
  <2>6. ApplyEvent(view, s[m])[p][fd] = IF s[m].op = "open" THEN s[m].path ELSE NoName
    <3>1. s[m].pid = p /\ s[m].fd = fd
      BY <1>4, <2>1
    <3>2. view[p] \in [Fds -> Values] /\ DOMAIN view = Pids
      BY StreamTypes DEF Snapshots, Values
    <3> QED BY <3>1, <3>2 DEF ApplyEvent
  <2> QED BY <1>1, <1>5, <1>7, <2>4, <2>5, <2>6 DEF m
<1> QED BY <1>6, <1>7

\* Faithful: what has been handled of a process and what is on its way are its
\* latest snapshot, through all channels and forwarders and for any number of
\* processes (sendEvent, MultiProcessWatcherComponent.Run).
THEOREM Faithful == Spec => []StreamFaithful
<1>1. Inv /\ Ordered => StreamFaithful
  <2> SUFFICES ASSUME Inv, Ordered, main = "loop", NEW p \in Pids \ first, NEW fd \in Fds
               PROVE  Shown(p, fd, InFlight(p)) = Known[p][fd]
    BY DEF StreamFaithful, Known
  <2>1. PICK u \in Values : /\ Trail(Telling(p, fd), aggEvents, view[p][fd], u)
                            /\ Trail(Telling(p, fd), Pending[p], u, Known[p][fd])
    BY DEF Ordered
  <2>2. Pending[p] \in Seq(Events) /\ aggEvents \in Seq(Events)
    <3>1. Pending[p] \in Seq(EventsOf(p)) /\ EventsOf(p) \subseteq Events
      BY DEF Ordered, EventsOf
    <3> QED BY <3>1, StreamTypes
  <2>3. aggEvents \o Pending[p] \in Seq(Events) /\ Trail(Telling(p, fd), aggEvents \o Pending[p], view[p][fd], Known[p][fd])
    BY <2>1, <2>2, TrailConcat
  <2>4. Shown(p, fd, aggEvents \o Pending[p]) = Known[p][fd]
    BY <2>3, ShownByTrail
  <2> QED BY <2>4 DEF InFlight, Pending
<1> QED BY <1>1, AlwaysInv, AlwaysOrdered, PTL

\* Alternating: a descriptor is told closed as what it was told open, and told open
\* only while it is closed (diffProcessFDSnapshot sends the close first).
THEOREM Alternating == Spec => []StreamAlternates
<1>1. Inv /\ Ordered => StreamAlternates
  <2> SUFFICES ASSUME Inv, Ordered, main = "loop", aggEvents # <<>>
               PROVE  view[Head(aggEvents).pid][Head(aggEvents).fd] =
                        IF Head(aggEvents).op = "close" THEN Head(aggEvents).path ELSE NoName
    BY DEF StreamAlternates
  <2> DEFINE e == Head(aggEvents)
  <2>1. e \in Events /\ e = aggEvents[1] /\ 1 \in DOMAIN aggEvents
    BY StreamTypes
  <2> HIDE DEF e
  <2>2. e.pid \in Pids \ first /\ e.fd \in Fds /\ e.op \in {"open", "close"}
    BY <2>1 DEF Ordered, Events
  <2>3. PICK u \in Values : Trail(Telling(e.pid, e.fd), aggEvents, view[e.pid][e.fd], u)
    BY <2>2 DEF Ordered
  <2>4. PICK x : <<view[e.pid][e.fd], e, x>> \in Telling(e.pid, e.fd)
    BY <2>3, TrailHead, StreamTypes DEF e
  <2>5. x \in Values /\ view[e.pid][e.fd] \in Values
    BY <2>4 DEF Telling
  <2>6. view[e.pid][e.fd] = IF e.op = "close" THEN e.path ELSE NoName
    BY <2>1, <2>2, <2>4, <2>5, TellingAs
  <2> QED BY <2>6 DEF e
<1> QED BY <1>1, AlwaysInv, AlwaysOrdered, PTL
=============================================================================
