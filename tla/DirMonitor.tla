----------------------------- MODULE DirMonitor -----------------------------
(***************************************************************************)
(* Directory mode of binmonitor: the startup walks, the watcher's          *)
(* forwarding goroutine and the service loop that turns change             *)
(* notifications into a size table, a set of watched directories and       *)
(* printed records.                                                        *)
(*                                                                         *)
(* Three parties interleave here:                                          *)
(*   - users of the monitored tree, who change it at any moment;           *)
(*   - the kernel and fsnotify, which queue a notification for a change    *)
(*     in a watched directory and drop what they can no longer attribute   *)
(*     to a watch (external: modelled from how src/ uses them);            *)
(*   - the program: Run forwards notifications into bounded channels, the  *)
(*     service loop handles one at a time and looks at the disk again      *)
(*     while it does.                                                      *)
(*                                                                         *)
(* `log` and `read` may be on or off.  Either being off hands the handlers *)
(* a nil pointer inside an interface that is not nil, which their nil      *)
(* checks let pass: the program panics where it first uses it.  Of the     *)
(* ReadWatcher only its presence is modelled here, and dedupLog is off.    *)
(*                                                                         *)
(* With the root "." a path has two spellings.  filepath.Walk says "a" of   *)
(* what lies right below it, fsnotify's events say "./a", and the tables of *)
(* StateComponent and WatcherComponent are keyed by what they are given;   *)
(* fsnotify, the disk and IgnoreComponent see one path.  A path is here    *)
(* what the walks call it, and EventName what the events do.               *)
(*                                                                         *)
(* Directories are created and removed but not renamed; nothing is read,   *)
(* and attribute changes, which the program discards, are left out.        *)
(***************************************************************************)
EXTENDS Integers, Sequences, FiniteSets

CONSTANTS
  Paths,        \* the paths below the monitored root
  Root,         \* the monitored root, a directory that is never removed
  NoPath,       \* "no path"
  Parent,       \* [Paths -> Paths \cup {Root}], the enclosing directory
  EventName,    \* what fsnotify's events call each path
  Ignored,      \* the paths IgnoreComponent.ShouldIgnore accepts
  EventFilter,  \* the operations EventFilterComponent lets through
  ReadConfigured, \* `read` is among the events: there is a ReadWatcher
  LogConfigured,  \* `log` is on: there is a LogWriter
  LogFile,      \* binmonitor.log where it is below the root, or NoPath
  Sizes,        \* file sizes
  KernelCap,    \* length of the kernel's notification queue
  EventsCap,    \* capacity of WatcherComponent.events (128 in the code)
  ErrorsCap,    \* capacity of WatcherComponent.errors (64 in the code)
  WatchLimit,   \* how many watches the kernel grants the WatcherComponent
  UserPhases,   \* the phases in which users change the tree (model only)
  MaxChanges    \* bound on the number of user changes (Nat, model only)

FileOps == {"create", "write", "remove", "rename"}
Dirs == Paths \cup {Root}
NoEntry == -1                       \* a path the size table does not hold
Names == Paths \cup {EventName[p] : p \in Paths}

\* Parent leads every path to Root: no set of paths is closed under it.
ASSUME TreeAssumption ==
  /\ Root \notin Paths
  /\ NoPath \notin Dirs
  /\ Parent \in [Paths -> Dirs]
  /\ \A S \in SUBSET Paths : S # {} => \E p \in S : Parent[p] \notin S

\* Only what lies right below the root can have a second spelling.
ASSUME SpellingAssumption ==
  /\ DOMAIN EventName = Paths /\ NoPath \notin Names /\ Root \notin Names
  /\ \A p, q \in Paths : EventName[p] = EventName[q] \/ EventName[p] = q => p = q
  /\ \A p \in Paths : Parent[p] # Root => EventName[p] = p

ASSUME ConfigAssumption ==
  /\ Ignored \subseteq Paths
  /\ \A p \in Paths : Parent[p] \in Ignored => p \in Ignored
  /\ EventFilter \subseteq FileOps
  /\ ReadConfigured \in BOOLEAN /\ LogConfigured \in BOOLEAN
  /\ LogFile \in Paths \cup {NoPath}
  /\ LogFile # NoPath => LogConfigured

ASSUME BoundAssumption ==
  /\ Sizes \subseteq Nat /\ 0 \in Sizes
  /\ KernelCap \in Nat \ {0}
  /\ EventsCap \in Nat \ {0}
  /\ ErrorsCap \in Nat \ {0}
  /\ WatchLimit \in Nat \ {0}
  /\ UserPhases \subseteq {"scan", "watch", "run"}
  /\ MaxChanges \in Nat

VARIABLES
  \* the disk
  kind,       \* [Paths -> {"absent", "file", "dir"}]
  size,       \* [Paths -> Sizes], meaningful for files
  \* the kernel and fsnotify
  live,       \* paths with a live kernel watch
  table,      \* paths fsnotify has in its watch table
  gen,        \* number of watches made so far for each path
  kq,         \* queued notifications, as [path, op, gen]
  \* WatcherComponent
  paths,      \* WatcherComponent.paths, some of Names and Root
  hand,       \* what Run has received and not yet passed on: at most one item
  events,     \* WatcherComponent.events, as [path, op]
  errors,     \* WatcherComponent.errors: the number of errors it holds
  \* StateComponent
  sizes,      \* [Names -> Sizes \cup {NoEntry}]
  \* the service
  phase,      \* "scan", "watch": the two startup walks; "run"; "stopped";
              \* "crashed": the program has panicked
  todo,       \* paths the current walk still has to visit
  listed,     \* the directory listed but not yet added, as [dir, names]
  creating,   \* the CREATE between os.Stat and its use, as [path, isDir]
  signalled,  \* SIGINT or SIGTERM is in sigCh
  \* history, read by no action of the code
  blind,      \* paths whose latest change neither a notification will
              \* announce nor the scan has seen, or which fsnotify's own
              \* report of a removal has overtaken
  refused,    \* paths whose latest Add met the watch limit
  overflow,   \* "none", "lost" (notifications dropped), "told" (reported)
  changes     \* user changes so far

disk     == <<kind, size>>
inotify  == <<live, table, gen>>
pipe     == <<hand, events, errors>>
walk     == <<todo, listed>>
startup  == <<phase, walk>>
history  == <<blind, refused, overflow>>
vars == <<disk, inotify, kq, paths, pipe, sizes, startup, creating, signalled,
          history, changes>>

IsDir(p)      == p # Root => kind[p] = "dir"
IsPresent(p)  == p # Root => kind[p] # "absent"
ChildrenOf(d) == {p \in Paths : Parent[p] = d /\ kind[p] # "absent"}

\* Mutant: the log file is not put on the list.
ShouldIgnoreNothing(p) == FALSE
ShouldIgnore(p) == p \in Ignored
ShouldWatch(op) == op \in EventFilter
IsWatched(name) == name \in paths

-----------------------------------------------------------------------------
(***************************************************************************)
(* The kernel queue and fsnotify (external).  A mailbox bundles the queue  *)
(* with what a notification touches besides it, so that one step can post  *)
(* several in order.                                                       *)
(***************************************************************************)
OverflowMark == [path |-> Root, op |-> "overflow", gen |-> 0]

Mailbox == [q |-> kq, live |-> live, blind |-> blind, overflow |-> overflow]

SetMailbox(b) ==
  kq' = b.q /\ live' = b.live /\ blind' = b.blind /\ overflow' = b.overflow

\* A full queue takes one overflow mark and nothing else.
Overflowed(b, lostPaths) ==
  [b EXCEPT !.q = IF \E i \in DOMAIN b.q : b.q[i] = OverflowMark
                  THEN b.q ELSE Append(b.q, OverflowMark),
            !.blind = @ \cup lostPaths,
            !.overflow = "lost"]

\* The watch on the enclosing directory reports operation op on p.
Announce(b, p, op) ==
  IF Parent[p] \notin b.live
  THEN [b EXCEPT !.blind = @ \cup {p}]
  ELSE IF Len(b.q) < KernelCap
  THEN [b EXCEPT !.q = Append(@, [path |-> p, op |-> op, gen |-> gen[Parent[p]]]),
                 !.blind = @ \ {p}]
  ELSE Overflowed(b, {p})

\* What was at p is gone, and a watch on it reports that (IN_DELETE_SELF).
AnnounceGone(b, p) ==
  IF p \notin b.live THEN b
  ELSE LET c == [b EXCEPT !.live = @ \ {p}]
       IN IF Len(c.q) < KernelCap
          THEN [c EXCEPT !.q = Append(@, [path |-> p, op |-> "self", gen |-> gen[p]])]
          ELSE Overflowed(c, {})

\* fsnotify drops a notification whose watch is no longer in its table.
Known(e) ==
  IF e.op = "self" THEN e.path \in table /\ e.gen = gen[e.path]
  ELSE Parent[e.path] \in table /\ e.gen = gen[Parent[e.path]]

\* What is dropped once d leaves the table or gets a new watch.
Dropped(d) ==
  {p \in Paths : Parent[p] = d /\ \E i \in DOMAIN kq :
                   kq[i].path = p /\ kq[i].op \in FileOps /\ kq[i].gen = gen[d]}

\* fsnotify.Watcher.Add on what is at p now.  An existing inode keeps its
\* watch; a new one gets a new watch if the limit allows.
AddSucceeds(p) ==
  IsPresent(p) /\ (p \in live \/ Cardinality(live) < WatchLimit)

-----------------------------------------------------------------------------
(***************************************************************************)
(* The users of the tree.  They leave the log file alone.                  *)
(***************************************************************************)
UserMay(P) ==
  /\ phase \in UserPhases /\ changes < MaxChanges
  /\ LogFile \notin P
  /\ \A p \in P : IsDir(Parent[p])

UserChange(newKind, newSize, b) ==
  /\ kind' = newKind /\ size' = newSize
  /\ SetMailbox(b)
  /\ changes' = changes + 1
  /\ UNCHANGED <<table, gen, paths, pipe, sizes, startup, creating, signalled,
                 refused>>

CreateFile(p) ==
  /\ UserMay({p}) /\ kind[p] = "absent"
  /\ UserChange([kind EXCEPT ![p] = "file"], [size EXCEPT ![p] = 0],
                Announce(Mailbox, p, "create"))

WriteFile(p, n) ==
  /\ UserMay({p}) /\ kind[p] = "file"
  /\ UserChange(kind, [size EXCEPT ![p] = n], Announce(Mailbox, p, "write"))

Unlink(p) ==
  /\ UserMay({p}) /\ kind[p] = "file"
  /\ UserChange([kind EXCEPT ![p] = "absent"], size,
                AnnounceGone(Announce(Mailbox, p, "remove"), p))

\* A file takes the place of nothing or of another file.  A file that has a
\* watch of its own (see FinishCreateDir) is not renamed in this model.
RenameFile(p, q) ==
  /\ UserMay({p, q}) /\ p # q /\ p \notin live
  /\ kind[p] = "file" /\ kind[q] \in {"absent", "file"}
  /\ UserChange([kind EXCEPT ![p] = "absent", ![q] = "file"],
                [size EXCEPT ![q] = size[p]],
                AnnounceGone(Announce(Announce(Mailbox, p, "rename"), q, "create"), q))

Mkdir(p) ==
  /\ UserMay({p}) /\ kind[p] = "absent"
  /\ UserChange([kind EXCEPT ![p] = "dir"], size, Announce(Mailbox, p, "create"))

\* Kernels differ in which of the two watches they tell first.
Rmdir(p) ==
  /\ UserMay({p}) /\ kind[p] = "dir" /\ ChildrenOf(p) = {}
  /\ \E b \in {Announce(AnnounceGone(Mailbox, p), p, "remove"),
              AnnounceGone(Announce(Mailbox, p, "remove"), p)} :
       UserChange([kind EXCEPT ![p] = "absent"], size, b)

UserStep ==
  \E p \in Paths : \/ CreateFile(p) \/ Unlink(p) \/ Mkdir(p) \/ Rmdir(p)
                   \/ \E n \in Sizes : WriteFile(p, n)
                   \/ \E q \in Paths : RenameFile(p, q)

-----------------------------------------------------------------------------
(***************************************************************************)
(* WatcherComponent's two operations.  Add and Remove of fsnotify come     *)
(* first; `paths` follows only where they return no error.                 *)
(***************************************************************************)
\* Mutant: the walk does not record what it adds.
PathsAfterAddInLoop(name) == IF phase = "run" THEN paths \cup {name} ELSE paths
PathsAfterAdd(name) == paths \cup {name}

\* WatcherComponent.AddPath of p, under the name it is given; its callers
\* ignore the error it returns.
AddPath(p, name) ==
  IF AddSucceeds(p)
  THEN /\ live' = live \cup {p}
       /\ table' = table \cup {p}
       /\ gen' = IF p \in live THEN gen ELSE [gen EXCEPT ![p] = @ + 1]
       /\ paths' = PathsAfterAdd(name)
       /\ blind' = IF p \in live THEN blind ELSE blind \cup Dropped(p)
       /\ refused' = refused \ {p}
  ELSE /\ refused' = IF IsPresent(p) THEN refused \cup {p} ELSE refused
       /\ UNCHANGED <<inotify, paths, blind>>

\* WatcherComponent.RemovePath by an event's name, where IsWatched holds of it,
\* the error it returns ignored by the caller: what becomes of paths, table and the mailbox.
\* fsnotify errs on a path it does not hold, and on one whose inode is
\* already gone; it has left the table by then.
PathsAfterRemove(p) ==
  IF p \in table /\ p \in live THEN paths \ {EventName[p]} ELSE paths

MailboxAfterRemove(p) ==
  IF IsWatched(EventName[p]) /\ p \in table
  THEN [Mailbox EXCEPT !.live = @ \ {p}, !.blind = @ \cup Dropped(p)]
  ELSE Mailbox

TableAfterRemove(p) == IF IsWatched(EventName[p]) THEN table \ {p} ELSE table

-----------------------------------------------------------------------------
(***************************************************************************)
(* Startup: the scan that fills the size table, then the walk that adds    *)
(* the watches.  filepath.Walk lists a directory before it calls back, so  *)
(* the listing the second walk descends into is older than the watch.      *)
(* The order among siblings is left open.                                  *)
(***************************************************************************)
Unlisted == [dir |-> NoPath, names |-> {}]

\* InitStateFromPath's callback: a vanished path is skipped.
ScanVisit(p) ==
  /\ phase = "scan" /\ p \in todo
  /\ todo' = (todo \ {p}) \cup
             (IF IsDir(p) /\ ~ShouldIgnore(p) THEN ChildrenOf(p) ELSE {})
  /\ IF p # Root /\ kind[p] = "file" /\ ~ShouldIgnore(p)
     THEN sizes' = [sizes EXCEPT ![p] = size[p]] /\ blind' = blind \ {p}
     ELSE UNCHANGED <<sizes, blind>>
  /\ UNCHANGED <<disk, inotify, kq, paths, pipe, phase, listed, creating,
                 signalled, refused, overflow, changes>>

ScanDone ==
  /\ phase = "scan" /\ todo = {}
  /\ phase' = "watch" /\ todo' = {Root}
  /\ UNCHANGED <<disk, inotify, kq, paths, pipe, sizes, listed, creating,
                 signalled, history, changes>>

\* AddRecursiveWithFilter meets p: a directory it does not skip is listed.
WatchList(p) ==
  /\ phase = "watch" /\ p \in todo /\ listed = Unlisted
  /\ todo' = todo \ {p}
  /\ listed' = IF IsDir(p) /\ ~ShouldIgnore(p)
               THEN [dir |-> p, names |-> ChildrenOf(p)] ELSE listed
  /\ UNCHANGED <<disk, inotify, kq, paths, pipe, sizes, phase, creating,
                 signalled, history, changes>>

\* ... and then added; a failed Add does not keep it from descending.
WatchAdd ==
  /\ phase = "watch" /\ listed # Unlisted
  /\ AddPath(listed.dir, listed.dir)
  /\ todo' = todo \cup listed.names
  /\ listed' = Unlisted
  /\ UNCHANGED <<disk, kq, pipe, sizes, phase, creating, signalled, overflow,
                 changes>>

\* The goroutine Run starts and signal.Notify is called.
WatchDone ==
  /\ phase = "watch" /\ todo = {} /\ listed = Unlisted
  /\ phase' = "run"
  /\ UNCHANGED <<disk, inotify, kq, paths, pipe, sizes, todo, listed, creating,
                 signalled, history, changes>>

\* ... unless the walk that follows, ReadWatcher's, returns an error.
ReadWalkFails ==
  /\ phase = "watch" /\ todo = {} /\ listed = Unlisted /\ ReadConfigured
  /\ phase' = "stopped"
  /\ UNCHANGED <<disk, inotify, kq, paths, pipe, sizes, walk, creating,
                 signalled, history, changes>>

StartupStep ==
  \/ \E p \in Dirs : ScanVisit(p) \/ WatchList(p)
  \/ ScanDone \/ WatchAdd \/ WatchDone \/ ReadWalkFails

-----------------------------------------------------------------------------
(***************************************************************************)
(* WatcherComponent.Run, with fsnotify's reader in front of it.  The       *)
(* reader holds one event until Run receives it and Run holds one until    *)
(* its channel has room; the model lets the two hold one between them.     *)
(***************************************************************************)
Idle == phase = "run" /\ hand = <<>> /\ kq # <<>>

FsnotifyDiscard ==
  /\ Idle /\ Head(kq) # OverflowMark /\ ~Known(Head(kq))
  /\ kq' = Tail(kq)
  /\ UNCHANGED <<disk, inotify, paths, pipe, sizes, startup, creating,
                 signalled, history, changes>>

\* The watch is dropped; only without a watch on the enclosing directory
\* does fsnotify report the removal itself, whatever is at the path by then.
FsnotifySelf ==
  /\ Idle /\ Head(kq).op = "self" /\ Known(Head(kq))
  /\ LET p == Head(kq).path
         untold == Parent[p] \notin table
     IN /\ table' = table \ {p}
        /\ hand' = IF untold THEN <<[path |-> p, op |-> "remove"]>> ELSE <<>>
        /\ blind' = IF untold /\ kind[p] # "absent" THEN blind \cup {p} ELSE blind
  /\ kq' = Tail(kq)
  /\ UNCHANGED <<disk, live, gen, paths, events, errors, sizes, startup,
                 creating, signalled, refused, overflow, changes>>

RunTake ==
  /\ Idle
  /\ Head(kq) = OverflowMark \/ (Head(kq).op \in FileOps /\ Known(Head(kq)))
  /\ hand' = <<[path |-> Head(kq).path, op |-> Head(kq).op]>>
  /\ kq' = Tail(kq)
  /\ UNCHANGED <<disk, inotify, paths, events, errors, sizes, startup,
                 creating, signalled, history, changes>>

\* Mutant: one event more than the channel holds.
HasRoomOffByOne == Len(events) <= EventsCap
HasRoom == Len(events) < EventsCap

RunPutEvent ==
  /\ phase = "run" /\ hand # <<>> /\ hand[1].op # "overflow"
  /\ HasRoom
  /\ events' = Append(events, hand[1]) /\ hand' = <<>>
  /\ UNCHANGED <<disk, inotify, kq, paths, errors, sizes, startup, creating,
                 signalled, history, changes>>

\* Mutant: Run receives the error and does not pass it on.
RunPutErrorSwallow ==
  /\ phase = "run" /\ hand # <<>> /\ hand[1].op = "overflow"
  /\ hand' = <<>>
  /\ UNCHANGED <<disk, inotify, kq, paths, events, errors, sizes, startup,
                 creating, signalled, history, changes>>
RunPutError ==
  /\ phase = "run" /\ hand # <<>> /\ hand[1].op = "overflow"
  /\ errors < ErrorsCap
  /\ errors' = errors + 1 /\ hand' = <<>>
  /\ UNCHANGED <<disk, inotify, kq, paths, events, sizes, startup, creating,
                 signalled, history, changes>>

RunStep == FsnotifyDiscard \/ FsnotifySelf \/ RunTake \/ RunPutEvent \/ RunPutError

-----------------------------------------------------------------------------
(***************************************************************************)
(* The service loop.  A CREATE looks at the disk twice (os.Stat, then      *)
(* AddPath or getFileSize), so it is two steps; the other handlers look at *)
(* most once and are one.                                                  *)
(***************************************************************************)
NotCreating == [path |-> NoPath, isDir |-> FALSE]

Selecting == phase = "run" /\ creating = NotCreating

\* logic.getFileSize: nothing there, or a directory, has size 0.
\* Mutant: the size already tracked is trusted.
getFileSizeCached(p) == IF sizes[EventName[p]] # NoEntry THEN sizes[EventName[p]]
                        ELSE IF kind[p] = "file" THEN size[p] ELSE 0
getFileSize(p) == IF kind[p] = "file" THEN size[p] ELSE 0

\* WriteLine appends to the log file, in box b; what the file holds then is not
\* empty, and its exact size is left open.
WriteLine(b) ==
  IF LogFile = NoPath
  THEN SetMailbox(b) /\ UNCHANGED size
  ELSE /\ SetMailbox(Announce(b, LogFile, "write"))
       /\ \E n \in Sizes \ {0} : size' = [size EXCEPT ![LogFile] = n]

\* LogEvent and LogError: `lw == nil` is false of an interface that holds a nil
\* pointer, and WriteLine locks the mutex of that pointer.
WriteLog(b) == phase' = (IF LogConfigured THEN phase ELSE "crashed") /\ WriteLine(b)

\* printRecord, where the filter lets op through.
printRecord(op, b) ==
  IF ShouldWatch(op) THEN WriteLog(b)
  ELSE SetMailbox(b) /\ UNCHANGED <<size, phase>>

Receive(ops) ==
  /\ Selecting /\ events # <<>> /\ Head(events).op \in ops
  /\ events' = Tail(events)

\* An ignored path is dropped, but a watch it still has is removed.
HandleIgnored ==
  /\ Receive(FileOps)
  /\ LET p == Head(events).path
         gone == Head(events).op \in {"remove", "rename"}
     IN /\ ShouldIgnore(p)
        /\ SetMailbox(IF gone THEN MailboxAfterRemove(p) ELSE Mailbox)
        /\ table' = IF gone THEN TableAfterRemove(p) ELSE table
        /\ paths' = IF gone THEN PathsAfterRemove(p) ELSE paths
  /\ UNCHANGED <<disk, gen, hand, errors, sizes, startup, creating, signalled,
                 refused, changes>>

HandleWrite ==
  /\ Receive({"write"})
  /\ LET p == Head(events).path
     IN /\ ~ShouldIgnore(p)
        /\ sizes' = [sizes EXCEPT ![EventName[p]] = getFileSize(p)]
        /\ printRecord("write", Mailbox)
  /\ UNCHANGED <<kind, table, gen, paths, hand, errors, walk, creating,
                 signalled, refused, changes>>

\* Mutant: a renamed file stays tracked.
SizesWithoutRemoved(p) ==
  IF Head(events).op = "rename" THEN sizes ELSE [sizes EXCEPT ![EventName[p]] = NoEntry]
SizesWithout(p) == [sizes EXCEPT ![EventName[p]] = NoEntry]

\* ReadWatcher.RemovePath comes before printRecord.
HandleGone ==
  /\ Receive({"remove", "rename"})
  /\ LET p == Head(events).path
     IN /\ ~ShouldIgnore(p)
        /\ sizes' = SizesWithout(p)
        /\ table' = TableAfterRemove(p)
        /\ paths' = PathsAfterRemove(p)
        /\ IF ReadConfigured THEN printRecord(Head(events).op, MailboxAfterRemove(p))
           ELSE phase' = "crashed" /\ SetMailbox(MailboxAfterRemove(p)) /\ UNCHANGED size
  /\ UNCHANGED <<kind, gen, hand, errors, walk, creating, signalled,
                 refused, changes>>

\* Mutant: a new directory is not held against the list.
HandleCreateUnfiltered ==
  /\ Receive({"create"})
  /\ LET p == Head(events).path
     IN /\ kind[p] = "dir" \/ ~ShouldIgnore(p)
        /\ creating' = [path |-> p, isDir |-> kind[p] = "dir"]
  /\ UNCHANGED <<disk, inotify, kq, paths, hand, errors, sizes, startup,
                 signalled, history, changes>>
\* os.Stat says whether the new path is a directory.
HandleCreate ==
  /\ Receive({"create"})
  /\ LET p == Head(events).path
     IN ~ShouldIgnore(p) /\ creating' = [path |-> p, isDir |-> kind[p] = "dir"]
  /\ UNCHANGED <<disk, inotify, kq, paths, hand, errors, sizes, startup,
                 signalled, history, changes>>

\* Mutant: a directory already in paths is not added again.
FinishCreateDirOnce ==
  /\ phase = "run" /\ creating # NotCreating /\ creating.isDir
  /\ IF IsWatched(EventName[creating.path]) THEN UNCHANGED <<inotify, paths, blind, refused>>
     ELSE AddPath(creating.path, EventName[creating.path])
  /\ creating' = NotCreating
  /\ phase' = IF ReadConfigured THEN phase ELSE "crashed"
  /\ UNCHANGED <<disk, kq, pipe, sizes, walk, signalled, overflow, changes>>
\* A new directory is watched, with no look at what it holds.  By now
\* something else may be at the path, and a file can be watched too.
\* ReadWatcher.AddPath follows.
FinishCreateDir ==
  /\ phase = "run" /\ creating # NotCreating /\ creating.isDir
  /\ AddPath(creating.path, EventName[creating.path])
  /\ creating' = NotCreating
  /\ phase' = IF ReadConfigured THEN phase ELSE "crashed"
  /\ UNCHANGED <<disk, kq, pipe, sizes, walk, signalled, overflow, changes>>

FinishCreateFile ==
  /\ phase = "run" /\ creating # NotCreating /\ ~creating.isDir
  /\ sizes' = [sizes EXCEPT ![EventName[creating.path]] = getFileSize(creating.path)]
  /\ printRecord("create", Mailbox)
  /\ creating' = NotCreating
  /\ UNCHANGED <<kind, table, gen, paths, pipe, walk, signalled, refused,
                 changes>>

HandleEvent == HandleIgnored \/ HandleWrite \/ HandleGone \/ HandleCreate

FinishCreate == FinishCreateDir \/ FinishCreateFile

\* Nothing dropped is still to be reported once this error is.
LastError ==
  /\ errors = 1
  /\ \A i \in DOMAIN kq : kq[i] # OverflowMark
  /\ \A i \in DOMAIN hand : hand[i].op # "overflow"

HandleError ==
  /\ Selecting /\ errors > 0
  /\ errors' = errors - 1
  /\ WriteLog([Mailbox EXCEPT !.overflow = IF LastError THEN "told" ELSE @])
  /\ UNCHANGED <<kind, table, gen, paths, hand, events, sizes, walk,
                 creating, signalled, refused, changes>>

\* SIGINT or SIGTERM: before signal.Notify it kills the process, after that
\* it waits in sigCh, which holds one.
Signal ==
  /\ phase \notin {"stopped", "crashed"} /\ ~signalled
  /\ IF phase = "run" THEN signalled' = TRUE /\ UNCHANGED phase
                      ELSE phase' = "stopped" /\ UNCHANGED signalled
  /\ UNCHANGED <<disk, inotify, kq, paths, pipe, sizes, todo, listed, creating,
                 history, changes>>

\* Mutant: a break leaves the select and not the loop.
HandleSignalBreak == Selecting /\ signalled /\ UNCHANGED vars
\* Watcher.Close, and startDirectory returns.
HandleSignal ==
  /\ Selecting /\ signalled
  /\ phase' = "stopped"
  /\ UNCHANGED <<disk, inotify, kq, paths, pipe, sizes, todo, listed, creating,
                 signalled, history, changes>>

Terminated == phase \in {"stopped", "crashed"} /\ UNCHANGED vars

-----------------------------------------------------------------------------
\* A tree whose every entry sits in a directory, not yet looked at.
Init ==
  /\ kind \in {k \in [Paths -> {"absent", "file", "dir"}] :
               \A p \in Paths : k[p] # "absent" /\ Parent[p] # Root
                                  => k[Parent[p]] = "dir"}
  /\ LogFile # NoPath => kind[LogFile] = "file"
  /\ size = [p \in Paths |-> 0]
  /\ live = {} /\ table = {} /\ gen = [d \in Dirs |-> 0] /\ kq = <<>>
  /\ paths = {} /\ hand = <<>> /\ events = <<>> /\ errors = 0
  /\ sizes = [n \in Names |-> NoEntry]
  /\ phase = "scan" /\ todo = {Root} /\ listed = Unlisted
  /\ creating = NotCreating /\ signalled = FALSE
  /\ blind = {} /\ refused = {} /\ overflow = "none" /\ changes = 0

Next ==
  \/ UserStep \/ StartupStep \/ RunStep
  \/ HandleEvent \/ FinishCreate \/ HandleError
  \/ Signal \/ HandleSignal \/ Terminated

\* Each goroutine keeps running; the select of the service loop picks at
\* random among its ready cases, so none waits forever.  Users and signals
\* owe nothing.
Fairness ==
  /\ WF_vars(StartupStep) /\ WF_vars(RunStep) /\ WF_vars(FinishCreate)
  /\ SF_vars(HandleEvent) /\ SF_vars(HandleError) /\ SF_vars(HandleSignal)

Spec == Init /\ [][Next]_vars

FairSpec == Spec /\ Fairness

-----------------------------------------------------------------------------
\* TypeOK: the ranges of the variables, with the capacities of the queues
\* and channels (WatcherComponent and the kernel queue).
TypeOK ==
  /\ kind \in [Paths -> {"absent", "file", "dir"}] /\ size \in [Paths -> Sizes]
  /\ live \subseteq Dirs /\ table \subseteq Dirs /\ gen \in [Dirs -> Nat]
  /\ kq \in Seq([path : Paths, op : FileOps \cup {"self"}, gen : Nat]
                  \cup {OverflowMark})
  /\ Len(kq) <= KernelCap + 1
  /\ paths \subseteq Names \cup {Root}
  /\ hand \in Seq([path : Paths, op : FileOps] \cup {[path |-> Root, op |-> "overflow"]})
  /\ Len(hand) <= 1
  /\ events \in Seq([path : Paths, op : FileOps]) /\ Len(events) <= EventsCap
  /\ errors \in 0 .. ErrorsCap
  /\ sizes \in [Names -> Sizes \cup {NoEntry}]
  /\ phase \in {"scan", "watch", "run", "stopped", "crashed"} /\ todo \subseteq Dirs
  /\ listed \in [dir : Dirs, names : SUBSET Paths] \cup {Unlisted}
  /\ creating \in [path : Paths, isDir : BOOLEAN] \cup {NotCreating}
  /\ signalled \in BOOLEAN
  /\ blind \subseteq Paths /\ refused \subseteq Dirs
  /\ overflow \in {"none", "lost", "told"} /\ changes \in 0 .. MaxChanges

\* An event about p is still on its way to, or inside, its handler.
Pending(p) ==
  \/ \E i \in DOMAIN kq : kq[i].path = p /\ kq[i].op \in FileOps
  \/ \E i \in DOMAIN hand : hand[i].path = p
  \/ \E i \in DOMAIN events : events[i].path = p
  \/ creating.path = p

\* The program has been told the latest about p and has dealt with it.
Settled(p) == phase = "run" /\ p \notin Ignored \cup blind /\ ~Pending(p)

\* SizesAgree: although every handler looks at the disk later than the
\* change it is told of, once p is settled the size table holds, under the name
\* that the events give p, the size of the file there, or nothing if nothing is
\* there.  Where the scan spelled p in another way, there may be no such entry
\* yet, and then the scan's is right (ProcessEvent, StateComponent and
\* InitStateFromPath).
SizesAgree ==
  \A p \in Paths : Settled(p) =>
    /\ kind[p] = "file" => \/ sizes[EventName[p]] = size[p]
                           \/ sizes[EventName[p]] = NoEntry /\ sizes[p] = size[p]
    /\ kind[p] = "absent" => sizes[EventName[p]] = NoEntry

\* WatchesAgree: a settled path that is a directory has a live watch unless
\* the kernel refused one, whatever was created, removed and created again
\* between os.Stat and AddPath (ProcessEvent, AddRecursiveWithFilter).
WatchesAgree ==
  \A p \in Paths : Settled(p) /\ kind[p] = "dir" => p \in live \cup refused

\* The names of what is at p in the program's tables.
NamesOf(p) == IF p = Root THEN {Root} ELSE {p, EventName[p]}

\* WatchTables: no watch is unknown to fsnotify, none of fsnotify's to
\* WatcherComponent.paths under one of its names, whichever of the walk and the
\* handler made it, and although a failed Remove leaves one table and not the
\* other (AddPath, RemovePath, AddRecursiveWithFilter).
WatchTables == live \subseteq table /\ \A p \in table : NamesOf(p) \cap paths # {}

\* IgnoredUntouched: an ignored path is neither tracked nor watched under any
\* of its names, by the walks and by the handlers alike, whatever is made and
\* removed there; what ProcessEvent does for an ignored path that has a watch
\* never comes up (ShouldIgnore's callers).
IgnoredUntouched ==
  \A p \in Ignored : /\ \A n \in NamesOf(p) : sizes[n] = NoEntry
                      /\ NamesOf(p) \cap paths = {}

\* Nothing is queued, held or being handled.
Quiet ==
  /\ phase = "run" /\ kq = <<>> /\ hand = <<>> /\ events = <<>> /\ errors = 0
  /\ creating = NotCreating

\* EventuallyQuiet: once the users pause, all that is queued is worked off;
\* what the program writes to its own log keeps nothing going.
EventuallyQuiet == <>[](phase = "stopped" \/ Quiet)

\* OverflowReported: notifications the kernel dropped are reported as an
\* error, even with the events channel full (Run, Errors, LogError).
OverflowReported == overflow = "lost" ~> overflow # "lost" \/ phase = "stopped"

\* SignalStops: a signal stops the service however busy it is kept.
SignalStops == signalled ~> phase = "stopped"

\* NeverCrashes: whatever is configured, no event ends the program ("writes it
\* to the log file (if enabled)", comments on LogEvent and LogError).
NeverCrashes == phase # "crashed"

\* RecursiveCoverage: with everything handled and nothing dropped or refused,
\* every directory below the root that is not ignored is watched ("recursively
\* monitors all files under the directory", README.md).
RecursiveCoverage ==
  Quiet /\ overflow = "none" /\ refused = {} =>
    \A p \in Paths \ Ignored : kind[p] = "dir" => p \in live

=============================================================================
