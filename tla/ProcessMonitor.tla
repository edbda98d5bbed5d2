--------------------------- MODULE ProcessMonitor ---------------------------
(***************************************************************************)
(* Process mode of binmonitor: one poller per process compares snapshots   *)
(* of /proc/<pid>/fd and sends the differences; two forwarders per process *)
(* carry its events and its errors into the channels of the aggregator,    *)
(* which the service loop reads until both are closed or a signal arrives. *)
(*                                                                         *)
(* Every goroutine of MultiProcessWatcherComponent.Run is a process here,  *)
(* every channel operation a step.  A snapshot is not atomic: the fd       *)
(* directory is listed first and its links are read one by one after that. *)
(* `log` is on, and both `open` and `close` are among the events; with     *)
(* `log` off the first record or error ends the program (DirMonitor).      *)
(***************************************************************************)
EXTENDS Integers, Sequences, FiniteSets, SequencesExt

CONSTANTS
  Pids,       \* the processes to monitor
  NFd,        \* file descriptors are 1 .. NFd
  Names,      \* paths of regular files
  NoName,     \* the descriptor is closed, or is no regular file
  SubCap,     \* capacity of ProcessWatcherComponent.events (128)
  AggCap,     \* capacity of MultiProcessWatcherComponent.events (128)
  ErrCap,     \* capacity of MultiProcessWatcherComponent.errors (64); one
              \* error is all a ProcessWatcherComponent.errors (64) ever holds
  Renames,    \* whether open files are renamed or unlinked (model only)
  MaxChanges  \* bound on what the processes do (Nat, model only)

ASSUME NameAssumption == NoName \notin Names /\ Renames \in BOOLEAN
ASSUME CapAssumption ==
  /\ NFd \in Nat /\ MaxChanges \in Nat
  /\ SubCap \in Nat \ {0} /\ AggCap \in Nat \ {0} /\ ErrCap \in Nat \ {0}

Fds == 1 .. NFd
Snapshots == [Fds -> Names \cup {NoName}]
Events == [pid : Pids, fd : Fds, op : {"open", "close"}, path : Names]
NothingOpen == [fd \in Fds |-> NoName]

VARIABLES
  \* the monitored processes
  alive,    \* those that have not exited
  links,    \* [Pids -> Snapshots], what /proc/<pid>/fd shows
  \* ProcessWatcherComponent.Run, one per process
  poller,   \* [Pids -> {"start", "idle", "reading", "sending", "failing",
            \*           "closing", "exited"}]
  first,    \* processes whose first snapshot has not been taken
  entries,  \* [Pids -> SUBSET Fds], listed and not yet read
  previous, \* [Pids -> Snapshots]
  next,     \* [Pids -> Snapshots]
  outbox,   \* [Pids -> Seq(Events)], the difference still to send
  subEvents,  \* [Pids -> Seq(Events)], ProcessWatcherComponent.events
  subErrors,  \* [Pids -> 0 .. 1], the errors in ProcessWatcherComponent.errors
  subDone,    \* watchers whose done is closed
  \* the forwarders
  carried,    \* [Pids -> Seq(Events)], what the event forwarder holds
  carriedErr, \* [Pids -> 0 .. 1], what the error forwarder holds
  running,    \* [Pids -> SUBSET {"events", "errors"}], forwarders not returned
  \* MultiProcessWatcherComponent
  aggEvents, aggErrors,   \* its channels: the events, the pids of the errors
  aggClosed,  \* those of its channels that are closed
  aggDone,    \* its done is closed
  \* startProcess
  main,       \* "loop", "closing", "stopped" (by a signal), "ended"
  open,       \* the channels the loop still selects on
  signalled,  \* SIGINT or SIGTERM has arrived
  \* history
  view,       \* [Pids -> Snapshots], the first snapshot with the events handled
  failed,     \* processes whose error has been reported
  changes     \* steps of the processes so far

target   == <<alive, links, changes>>
polling  == <<poller, first, entries, previous, next, outbox>>
sub      == <<subEvents, subErrors, subDone>>
forward  == <<carried, carriedErr, running>>
agg      == <<aggEvents, aggErrors, aggClosed, aggDone>>
service  == <<main, open, signalled>>
handled  == <<view, failed>>
vars == <<target, polling, sub, forward, agg, service, handled>>

Channels == {"events", "errors"}

-----------------------------------------------------------------------------
(***************************************************************************)
(* The monitored processes (external).                                     *)
(***************************************************************************)
Step == main \in {"loop", "closing"} /\ changes < MaxChanges /\ changes' = changes + 1

\* open, or dup2 over what was there.
Open(p, fd, n) ==
  /\ Step /\ p \in alive /\ links[p][fd] # n
  /\ links' = [links EXCEPT ![p][fd] = n]
  /\ UNCHANGED <<alive, polling, sub, forward, agg, service, handled>>

Close(p, fd) ==
  /\ Step /\ p \in alive /\ links[p][fd] # NoName
  /\ links' = [links EXCEPT ![p][fd] = NoName]
  /\ UNCHANGED <<alive, polling, sub, forward, agg, service, handled>>

\* Somebody renames or unlinks a file: the links to it show another path.
Rename(n, m) ==
  /\ Renames /\ Step
  /\ \A p \in Pids, fd \in Fds : links[p][fd] # m
  /\ links' = [p \in Pids |-> [fd \in Fds |-> IF links[p][fd] = n THEN m
                                              ELSE links[p][fd]]]
  /\ UNCHANGED <<alive, polling, sub, forward, agg, service, handled>>

Exit(p) ==
  /\ main \in {"loop", "closing"} /\ p \in alive
  /\ alive' = alive \ {p} /\ links' = [links EXCEPT ![p] = NothingOpen]
  /\ UNCHANGED <<changes, polling, sub, forward, agg, service, handled>>

TargetStep ==
  \/ \E p \in Pids : Exit(p) \/ \E fd \in Fds : Close(p, fd) \/
                                                \E n \in Names : Open(p, fd, n)
  \/ \E n, m \in Names : n # m /\ Rename(n, m)

-----------------------------------------------------------------------------
(***************************************************************************)
(* ProcessWatcherComponent.Run.                                            *)
(***************************************************************************)
\* diffProcessFDSnapshot at one descriptor: the close goes first.
DiffAt(p, old, new, fd) ==
  LET event(op, path) == [pid |-> p, fd |-> fd, op |-> op, path |-> path]
  IN IF old[fd] = new[fd] THEN <<>>
     ELSE (IF old[fd] = NoName THEN <<>> ELSE <<event("close", old[fd])>>) \o
          (IF new[fd] = NoName THEN <<>> ELSE <<event("open", new[fd])>>)

\* diffProcessFDSnapshot, in the order of the descriptors.
\* Mutant: no close is sent where the descriptor shows another path.
DiffOpensOnly(p, old, new) ==
  FlattenSeq([fd \in Fds |->
    IF old[fd] # NoName /\ new[fd] # NoName
    THEN SelectSeq(DiffAt(p, old, new, fd), LAMBDA e : e.op = "open")
    ELSE DiffAt(p, old, new, fd)])
Diff(p, old, new) == FlattenSeq([fd \in Fds |-> DiffAt(p, old, new, fd)])

\* snapshotProcessFDs lists the directory; a process that is gone has none.
SnapshotList(p) ==
  /\ poller[p] \in {"start", "idle"}
  /\ IF p \in alive
     THEN /\ poller' = [poller EXCEPT ![p] = "reading"]
          /\ entries' = [entries EXCEPT ![p] = {fd \in Fds : links[p][fd] # NoName}]
          /\ next' = [next EXCEPT ![p] = NothingOpen]
     ELSE poller' = [poller EXCEPT ![p] = "failing"] /\ UNCHANGED <<entries, next>>
  /\ UNCHANGED <<target, first, previous, outbox, sub, forward, agg, service, handled>>

\* ... and reads a listed link; one that is gone by now is skipped.
SnapshotRead(p, fd) ==
  /\ poller[p] = "reading" /\ fd \in entries[p]
  /\ entries' = [entries EXCEPT ![p] = @ \ {fd}]
  /\ next' = [next EXCEPT ![p][fd] = links[p][fd]]
  /\ UNCHANGED <<target, poller, first, previous, outbox, sub, forward, agg,
                 service, handled>>

\* The first snapshot is what later ones are compared with.
SnapshotDone(p) ==
  /\ poller[p] = "reading" /\ entries[p] = {}
  /\ IF p \in first
     THEN /\ poller' = [poller EXCEPT ![p] = "idle"]
          /\ previous' = [previous EXCEPT ![p] = next[p]]
          /\ view' = [view EXCEPT ![p] = next[p]]
          /\ UNCHANGED outbox
     ELSE /\ poller' = [poller EXCEPT ![p] = "sending"]
          /\ outbox' = [outbox EXCEPT ![p] = Diff(p, previous[p], next[p])]
          /\ UNCHANGED <<previous, view>>
  /\ first' = first \ {p}
  /\ UNCHANGED <<target, entries, next, sub, forward, agg, service, failed>>

\* sendEvent, the channel case of its select.
\* Mutant: a full channel loses the event.
SendEventOrDrop(p) ==
  /\ poller[p] = "sending" /\ outbox[p] # <<>>
  /\ subEvents' = IF Len(subEvents[p]) < SubCap
                  THEN [subEvents EXCEPT ![p] = Append(@, Head(outbox[p]))]
                  ELSE subEvents
  /\ outbox' = [outbox EXCEPT ![p] = Tail(@)]
  /\ UNCHANGED <<target, poller, first, entries, previous, next, subErrors,
                 subDone, forward, agg, service, handled>>
SendEvent(p) ==
  /\ poller[p] = "sending" /\ outbox[p] # <<>>
  /\ Len(subEvents[p]) < SubCap
  /\ subEvents' = [subEvents EXCEPT ![p] = Append(@, Head(outbox[p]))]
  /\ outbox' = [outbox EXCEPT ![p] = Tail(@)]
  /\ UNCHANGED <<target, poller, first, entries, previous, next, subErrors,
                 subDone, forward, agg, service, handled>>

\* Mutant: previous stays what it was.
SendDoneStale(p) ==
  /\ poller[p] = "sending" /\ outbox[p] = <<>>
  /\ poller' = [poller EXCEPT ![p] = "idle"]
  /\ UNCHANGED <<target, first, entries, previous, next, outbox, sub, forward,
                 agg, service, handled>>
SendDone(p) ==
  /\ poller[p] = "sending" /\ outbox[p] = <<>>
  /\ previous' = [previous EXCEPT ![p] = next[p]]
  /\ poller' = [poller EXCEPT ![p] = "idle"]
  /\ UNCHANGED <<target, first, entries, next, outbox, sub, forward, agg,
                 service, handled>>

\* sendError: its channel is empty, so it never waits for room.
SendError(p) ==
  /\ poller[p] = "failing"
  /\ subErrors' = [subErrors EXCEPT ![p] = @ + 1]
  /\ poller' = [poller EXCEPT ![p] = "closing"]
  /\ UNCHANGED <<target, first, entries, previous, next, outbox, subEvents,
                 subDone, forward, agg, service, handled>>

\* The done case of the three selects, wherever the poller waits.
\* Mutant: sendEvent waits for room alone.
PollerDoneIdle(p) ==
  /\ p \in subDone
  /\ poller[p] \in {"idle", "failing"}
  /\ poller' = [poller EXCEPT ![p] = "closing"]
  /\ UNCHANGED <<target, first, entries, previous, next, outbox, sub, forward,
                 agg, service, handled>>
PollerDone(p) ==
  /\ p \in subDone
  /\ poller[p] \in {"idle", "failing"} \/ (poller[p] = "sending" /\ outbox[p] # <<>>)
  /\ poller' = [poller EXCEPT ![p] = "closing"]
  /\ UNCHANGED <<target, first, entries, previous, next, outbox, sub, forward,
                 agg, service, handled>>

\* The two deferred closes.
PollerExit(p) ==
  /\ poller[p] = "closing"
  /\ poller' = [poller EXCEPT ![p] = "exited"]
  /\ UNCHANGED <<target, first, entries, previous, next, outbox, sub, forward,
                 agg, service, handled>>

PollerStep(p) ==
  \/ SnapshotList(p) \/ SnapshotDone(p) \/ SendEvent(p) \/ SendDone(p)
  \/ SendError(p) \/ PollerDone(p) \/ PollerExit(p)
  \/ \E fd \in Fds : SnapshotRead(p, fd)

-----------------------------------------------------------------------------
(***************************************************************************)
(* MultiProcessWatcherComponent.Run: the forwarders range over a watcher's *)
(* channels until these are closed and empty, or done is closed while they *)
(* hold something; when all goroutines are back the two channels close.    *)
(***************************************************************************)
TakeEvent(p) ==
  /\ "events" \in running[p] /\ carried[p] = <<>> /\ subEvents[p] # <<>>
  /\ carried' = [carried EXCEPT ![p] = <<Head(subEvents[p])>>]
  /\ subEvents' = [subEvents EXCEPT ![p] = Tail(@)]
  /\ UNCHANGED <<target, polling, subErrors, subDone, carriedErr, running, agg,
                 service, handled>>

\* Mutant: one event more than the channel holds.
HasRoomOffByOne == Len(aggEvents) <= AggCap
HasRoom == Len(aggEvents) < AggCap

PutEvent(p) ==
  /\ carried[p] # <<>> /\ HasRoom
  /\ aggEvents' = aggEvents \o carried[p]
  /\ carried' = [carried EXCEPT ![p] = <<>>]
  /\ UNCHANGED <<target, polling, sub, carriedErr, running, aggErrors, aggClosed,
                 aggDone, service, handled>>

TakeError(p) ==
  /\ "errors" \in running[p] /\ carriedErr[p] = 0 /\ subErrors[p] > 0
  /\ carriedErr' = [carriedErr EXCEPT ![p] = 1]
  /\ subErrors' = [subErrors EXCEPT ![p] = @ - 1]
  /\ UNCHANGED <<target, polling, subEvents, subDone, carried, running, agg,
                 service, handled>>

PutError(p) ==
  /\ carriedErr[p] = 1 /\ Len(aggErrors) < ErrCap
  /\ aggErrors' = Append(aggErrors, p)
  /\ carriedErr' = [carriedErr EXCEPT ![p] = 0]
  /\ UNCHANGED <<target, polling, sub, carried, running, aggEvents, aggClosed,
                 aggDone, service, handled>>

\* A forwarder returns: its channel is closed and empty, or done is closed
\* while it waits to pass something on.
EventForwarderReturns(p) ==
  /\ "events" \in running[p]
  /\ IF carried[p] # <<>> THEN aggDone
                          ELSE poller[p] = "exited" /\ subEvents[p] = <<>>
  /\ running' = [running EXCEPT ![p] = @ \ {"events"}]
  /\ carried' = [carried EXCEPT ![p] = <<>>]
  /\ UNCHANGED <<target, polling, sub, carriedErr, agg, service, handled>>

ErrorForwarderReturns(p) ==
  /\ "errors" \in running[p]
  /\ IF carriedErr[p] = 1 THEN aggDone
                          ELSE poller[p] = "exited" /\ subErrors[p] = 0
  /\ running' = [running EXCEPT ![p] = @ \ {"errors"}]
  /\ carriedErr' = [carriedErr EXCEPT ![p] = 0]
  /\ UNCHANGED <<target, polling, sub, carried, agg, service, handled>>

\* wg.Wait has returned.
\* Mutant: the group counts the pollers alone.
AllReturnedPollers == \A p \in Pids : poller[p] = "exited"
AllReturned == \A p \in Pids : poller[p] = "exited" /\ running[p] = {}

\* Mutant: only the channel of the events is closed.
CloseAggEvents(c) ==
  /\ AllReturned /\ c = "events" /\ c \notin aggClosed
  /\ aggClosed' = aggClosed \cup {c}
  /\ UNCHANGED <<target, polling, sub, forward, aggEvents, aggErrors, aggDone,
                 service, handled>>
CloseAgg(c) ==
  /\ AllReturned /\ c \notin aggClosed
  /\ c = "errors" => "events" \in aggClosed
  /\ aggClosed' = aggClosed \cup {c}
  /\ UNCHANGED <<target, polling, sub, forward, aggEvents, aggErrors, aggDone,
                 service, handled>>

EventForwarder(p) == TakeEvent(p) \/ PutEvent(p) \/ EventForwarderReturns(p)

ErrorForwarder(p) == TakeError(p) \/ PutError(p) \/ ErrorForwarderReturns(p)

RunStep == \E c \in Channels : CloseAgg(c)

-----------------------------------------------------------------------------
(***************************************************************************)
(* MonitorService.startProcess.                                            *)
(***************************************************************************)
\* What the reader of the records then takes for open.
ApplyEvent(v, e) ==
  [v EXCEPT ![e.pid][e.fd] = IF e.op = "open" THEN e.path ELSE NoName]

\* ProcessEvent prints a record of what it is handed.
HandleEvent ==
  /\ main = "loop" /\ "events" \in open /\ aggEvents # <<>>
  /\ view' = ApplyEvent(view, Head(aggEvents))
  /\ aggEvents' = Tail(aggEvents)
  /\ UNCHANGED <<target, polling, sub, forward, aggErrors, aggClosed, aggDone,
                 service, failed>>

HandleError ==
  /\ main = "loop" /\ "errors" \in open /\ aggErrors # <<>>
  /\ failed' = failed \cup {Head(aggErrors)}
  /\ aggErrors' = Tail(aggErrors)
  /\ UNCHANGED <<target, polling, sub, forward, aggEvents, aggClosed, aggDone,
                 service, view>>

\* A closed and empty channel is not selected on any more; without any left
\* startProcess returns.
\* Mutant: it returns as soon as one of them is closed.
StillOpenNone(c) == {}
StillOpen(c) == open \ {c}

ChannelClosed(c) ==
  /\ main = "loop" /\ c \in open /\ c \in aggClosed
  /\ IF c = "events" THEN aggEvents = <<>> ELSE aggErrors = <<>>
  /\ open' = StillOpen(c)
  /\ main' = IF StillOpen(c) = {} THEN "ended" ELSE "loop"
  /\ UNCHANGED <<target, polling, sub, forward, agg, signalled, handled>>

Signal ==
  /\ main = "loop" /\ ~signalled
  /\ signalled' = TRUE
  /\ UNCHANGED <<target, polling, sub, forward, agg, main, open, handled>>

\* MultiProcessWatcherComponent.Close closes its own done first,
HandleSignal ==
  /\ main = "loop" /\ signalled
  /\ main' = "closing" /\ aggDone' = TRUE
  /\ UNCHANGED <<target, polling, sub, forward, aggEvents, aggErrors, aggClosed,
                 open, signalled, handled>>

\* and then that of every watcher.
CloseWatcher(p) ==
  /\ main = "closing" /\ p \notin subDone
  /\ subDone' = subDone \cup {p}
  /\ UNCHANGED <<target, polling, subEvents, subErrors, forward, agg, service,
                 handled>>

Stopped ==
  /\ main = "closing" /\ subDone = Pids
  /\ main' = "stopped"
  /\ UNCHANGED <<target, polling, sub, forward, agg, open, signalled, handled>>

ServiceStep ==
  \/ HandleEvent \/ HandleError \/ \E c \in Channels : ChannelClosed(c)
  \/ HandleSignal \/ Stopped \/ \E p \in Pids : CloseWatcher(p)

Terminated == main \in {"stopped", "ended"} /\ UNCHANGED vars

Init ==
  /\ alive \in SUBSET Pids /\ links \in [Pids -> Snapshots]
  /\ \A p \in Pids \ alive : links[p] = NothingOpen
  /\ changes = 0
  /\ poller = [p \in Pids |-> "start"] /\ first = Pids
  /\ entries = [p \in Pids |-> {}]
  /\ previous = [p \in Pids |-> NothingOpen] /\ next = previous
  /\ outbox = [p \in Pids |-> <<>>]
  /\ subEvents = [p \in Pids |-> <<>>] /\ subErrors = [p \in Pids |-> 0]
  /\ subDone = {}
  /\ carried = [p \in Pids |-> <<>>] /\ carriedErr = [p \in Pids |-> 0]
  /\ running = [p \in Pids |-> Channels]
  /\ aggEvents = <<>> /\ aggErrors = <<>> /\ aggClosed = {} /\ aggDone = FALSE
  /\ main = "loop" /\ open = Channels /\ signalled = FALSE
  /\ view = [p \in Pids |-> NothingOpen] /\ failed = {}

Next ==
  \/ TargetStep
  \/ \E p \in Pids : PollerStep(p) \/ EventForwarder(p) \/ ErrorForwarder(p)
  \/ RunStep \/ ServiceStep \/ Signal \/ Terminated

\* Every goroutine keeps running and the ticker keeps ticking; a select picks
\* at random among its ready cases, so none of them waits forever.
Fairness ==
  /\ \A p \in Pids : /\ WF_vars(PollerStep(p)) /\ SF_vars(PollerDone(p))
                     /\ WF_vars(EventForwarder(p)) /\ WF_vars(ErrorForwarder(p))
  /\ WF_vars(RunStep) /\ WF_vars(ServiceStep)
  /\ SF_vars(HandleEvent) /\ SF_vars(HandleError) /\ SF_vars(HandleSignal)

Spec == Init /\ [][Next]_vars
FairSpec == Spec /\ Fairness

-----------------------------------------------------------------------------
\* TypeOK: the ranges of the variables, with the capacities of the channels
\* (newProcessWatcherComponent, NewMultiProcessWatcherComponent).
TypeOK ==
  /\ alive \subseteq Pids /\ links \in [Pids -> Snapshots]
  /\ poller \in [Pids -> {"start", "idle", "reading", "sending", "failing",
                          "closing", "exited"}]
  /\ first \subseteq Pids /\ entries \in [Pids -> SUBSET Fds]
  /\ previous \in [Pids -> Snapshots] /\ next \in [Pids -> Snapshots]
  /\ outbox \in [Pids -> Seq(Events)]
  /\ subEvents \in [Pids -> Seq(Events)] /\ subErrors \in [Pids -> 0 .. 1]
  /\ \A p \in Pids : Len(subEvents[p]) <= SubCap
  /\ subDone \subseteq Pids
  /\ carried \in [Pids -> Seq(Events)] /\ carriedErr \in [Pids -> 0 .. 1]
  /\ \A p \in Pids : Len(carried[p]) <= 1
  /\ running \in [Pids -> SUBSET Channels]
  /\ aggEvents \in Seq(Events) /\ Len(aggEvents) <= AggCap
  /\ aggErrors \in Seq(Pids) /\ Len(aggErrors) <= ErrCap
  /\ aggClosed \subseteq Channels /\ aggDone \in BOOLEAN
  /\ main \in {"loop", "closing", "stopped", "ended"}
  /\ open \subseteq Channels /\ signalled \in BOOLEAN
  /\ view \in [Pids -> Snapshots] /\ failed \subseteq Pids
  /\ changes \in 0 .. MaxChanges

\* What is on its way from the poller of p to the service loop, oldest first,
\* the events of others among it.
InFlight(p) == aggEvents \o (carried[p] \o subEvents[p] \o outbox[p])

\* What is taken for open at a descriptor of p once s has been handled.
Shown(p, fd, s) ==
  LET about == {n \in DOMAIN s : s[n].pid = p /\ s[n].fd = fd}
  IN IF about = {} THEN view[p][fd] ELSE ApplyEvent(view, s[Max(about)])[p][fd]

\* StreamFaithful: through two channels and a forwarder per process, with
\* other processes' events in between, nothing is lost, doubled or reordered:
\* what has been handled and what is on its way make up the poller's latest
\* snapshot (sendEvent, Run's forwarders, diffProcessFDSnapshot).
StreamFaithful ==
  main = "loop" => \A p \in Pids \ first, fd \in Fds :
    Shown(p, fd, InFlight(p)) = IF poller[p] = "sending" THEN next[p][fd]
                                                        ELSE previous[p][fd]

\* StreamAlternates: the service loop is told that a descriptor is closed only
\* with the path it was told that it was opened with, and that it is opened only
\* while it is closed (diffProcessFDSnapshot sends the close first).
StreamAlternates ==
  main = "loop" /\ aggEvents # <<>> =>
    LET e == Head(aggEvents)
    IN view[e.pid][e.fd] = IF e.op = "close" THEN e.path ELSE NoName

\* NoSendOnClosed: Run closes its channels only when no forwarder can send
\* to them any more; a send on a closed channel would panic (Run's WaitGroup).
NoSendOnClosed ==
  \A p \in Pids : /\ "events" \in aggClosed => carried[p] = <<>>
                  /\ "errors" \in aggClosed => carriedErr[p] = 0

\* The abstract specification: the variables of ProcessStream as they are in
\* this one, until a signal arrives.
Stream == INSTANCE ProcessStream WITH
  Changes <- Diff,
  Apply   <- ApplyEvent,
  started <- Pids \ first,
  known   <- [p \in Pids |-> IF poller[p] = "sending" THEN next[p] ELSE previous[p]],
  pending <- [p \in Pids |-> carried[p] \o subEvents[p] \o outbox[p]],
  merged  <- aggEvents,
  gone    <- {p \in Pids : poller[p] \in {"failing", "closing", "exited"}},
  status  <- CASE main = "loop" -> "running" [] main = "ended" -> "ended"
               [] OTHER -> "stopped"

\* StreamSpec: this is an implementation of ProcessStream: whatever the
\* goroutines interleave and however the channels fill, each process's events
\* arrive once and in their order, and the service ends by itself only when
\* every event is handled and every error told (MultiProcessWatcherComponent
\* and startProcess).
StreamSpec == Stream!Spec

\* EventuallySeen: once the processes pause, what a living one has open is in
\* view, in its first snapshot or by a report, and nothing else is, although
\* snapshots are torn and the channels full (snapshotProcessFDs, sendEvent,
\* Run, startProcess).
EventuallySeen == <>[](main # "loop" \/ \A p \in alive : view[p] = links[p])

\* ExitEnds: when the last process is gone the service ends by itself.
ExitEnds == alive = {} ~> main # "loop"

\* CloseStops: after a signal every goroutine returns, wherever it waited
\* ("stops all process watchers", comment on MultiProcessWatcherComponent.Close).
CloseStops ==
  signalled ~> /\ main \in {"stopped", "ended"} /\ aggClosed = Channels
               /\ \A p \in Pids : poller[p] = "exited" /\ running[p] = {}

=============================================================================
