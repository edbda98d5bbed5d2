# A TLA+ model of binmonitor

binmonitor prints what happens to the files of a directory tree, to the file
descriptors of a set of processes, or to the sockets of one process. This
directory holds TLA+ modules that follow its Go code, TLC configurations that
check them on small instances, and theorems checked by TLAPS.

Paths like `watcher.go:77` are below `src/internal/component/`,
`src/internal/logic/` or `src/internal/service/`; `main.go` is in `src/cmd/binmonitor/`.

## 1. The system

| Part | State | Operations | Talks to |
|---|---|---|---|
| Directory service (`service/monitor.go` startDirectory, `logic/event.go`) | the event in hand | one event, error or signal at a time | reads the watchers' channels; looks at the disk; calls State, Ignore, the watchers, printRecord |
| WatcherComponent (`watcher.go`) | fsnotify's watcher, `paths`, channels of 128 events and 64 errors, `done` | AddRecursiveWithFilter, AddPath, RemovePath, IsWatched, Run, Close | the kernel through fsnotify; Run is a goroutine of its own |
| ReadWatcherComponent (`read_watcher_linux.go`) | inotify descriptor, `paths` by watch, `watches` by path, channels | as above, for reads | inotify itself; adds watches from two goroutines |
| StateComponent (`state.go`), scan (`logic/init.go`) | size by path | SetSize, GetSize, Remove, InitStateFromPath | the service loop |
| IgnoreComponent, EventFilterComponent | ignored paths; operations to print | ShouldIgnore, ShouldWatch | the walks and the handlers |
| ProcessWatcherComponent (`process_watcher*.go`) | previous snapshot, channels, `done` | Run, Close | `/proc/<pid>/fd` |
| MultiProcessWatcherComponent, startProcess | one watcher per process, two forwarders each, channels of 128 and 64 | Run, Close | the service loop |
| NetWatcherComponent (`net_watcher_linux.go`, `logic/net_parse.go`), startNetwork | previous snapshot, channels, `done` | Run, Close | `/proc/<pid>/fd`, `/proc/net/*` |
| DedupStatsComponent (`dedup_stats.go`), printRecord | a list per operation and a map of keys | Add, Format | rewrites `binmonitor.dedup.log` after every record |
| LogWriterComponent (`log_writer.go`, `logic/log.go`) | the log file | WriteLine, Close | a file which may lie in the tree that is watched |
| Configuration (`cmd/binmonitor/main.go`, `logic/config.go`, `logic/event_name.go`) | the file; a `Config` while the program starts | WriteDefaultConfig, LoadConfig, loadConfig, NormalizeConfig, ResolveAllEventOps | sets up all others |
| AppCtx, types, stubs for other platforms | none | declarations | |

What makes it hard:

- **The tree changes at any moment** while the program looks at it: during
  the two walks at startup, between an event and its handling, and between
  the two looks one handler takes.
- **Notifications** are queued in the kernel, in fsnotify, in Run's hand and in
  a channel. The kernel's queue drops what does not fit; fsnotify drops what
  belongs to a watch it no longer has.
- **Failure is ignored on purpose** in most places (`_ = watcher.AddPath(...)`),
  so several tables have to stay consistent although single steps fail.
- **Snapshots are not atomic**: the descriptors are listed, then read one by
  one; the sockets are listed link by link, then looked up row by row in table
  after table, while the process moves, shares and closes them.
- **Channels are bounded**, and a signal may find a goroutine waiting for room in
  one that is not read any more.
- **Configuration is normalised twice**, before and after flags that may change the
  mode it is for.
- **Names are compared as they are spelled**: paths below the root `.`, keys of the file.
- **Feedback**: what is printed goes to files that may be watched.

What each part has to get right is in section 4, property by property; the
places in the code where it could go wrong are the `hazards` of `PROJECT.json`.

## 2. The modules

| Module | Models | State and actions |
|---|---|---|
| `DirMonitor` | directory mode | disk (`kind`, `size`), kernel and fsnotify (`live`, `table`, `gen`, `kq`), WatcherComponent (`paths`, `hand`, `events`, `errors`), StateComponent (`sizes`), the walks (`todo`, `listed`), the handler of CREATE between its two looks (`creating`); what events call a path (`EventName`) |
| `DirMonitorProofs` | | the theorems about its watches and types |
| `DirAgreeProofs` | | the theorems about it that the size table and the watches agree with the disk |
| `ProcessMonitor` | process mode | per process a poller and two forwarders with the channels between them, the aggregator, the service loop |
| `ProcessStream` | what process mode promises | per process the latest snapshot and the changes not yet merged, the merged stream, what the reader of it knows |
| `ProcessMonitorProofs` | | the theorems about ProcessMonitor, among them that it implements ProcessStream |
| `SequenceLemmas` | | lemmas on sequences that the proofs share |
| `NetAddress` | a line of `/proc/net` and its parsing | operators only |
| `NetMonitor` | network mode | the descriptors and sockets of the process, who shares them, the tables of `/proc/net`, the poller with the links and rows it has still to read, the service loop; extends NetAddress |
| `NetMonitorProofs` | | the theorems about both |
| `ReadWatcher` | the ReadWatcher of directory mode | the inodes and inotify (`at`, `mark`, `given`, `kq`), the two tables `paths` and `watches`, Run (`buffer`, `outgoing`), calls of AddPath and RemovePath under way (`adding`, `removing`) |
| `ReadWatcherProofs` | | the theorems about it |
| `Ignore` | IgnoreComponent | operators on paths as sequences of names |
| `Config` | file, flags, NormalizeConfig, event names | operators on configuration records; extends Ignore |
| `DedupLog` | the dedup statistics | `groups` and `pos` of DedupStatsComponent, the file; the actions Program composes |
| `Program` | the program from start to start | the file, the configuration while it is made (`flags`, `config`), the components built (`parts`); composes Config, Ignore and DedupLog |
| `DedupProofs` | | what the actions of DedupLog preserve |
| `ProgramProofs` | | the theorems about Program, with Config, Ignore and DedupLog |
| `MCDirMonitor`, `MCProcessMonitor`, `MCNetMonitor`, `MCReadWatcher`, `MCProgram` | | the instances that TLC checks |

### DirMonitor

One action per step another party can observe. `ScanVisit` is the callback of
InitStateFromPath; `WatchList` and `WatchAdd` are the two halves of a visit of
AddRecursiveWithFilter: filepath.Walk has listed a directory before the
callback adds its watch, so the names it descends into are older than that. `ReadWalkFails` is the return from
startDirectory when the ReadWatcher's walk errs. `RunTake`, `RunPutEvent` and
`RunPutError` are WatcherComponent.Run. `HandleIgnored`, `HandleWrite`,
`HandleGone`, `HandleCreate` with `FinishCreateDir` or `FinishCreateFile`,
`HandleError` and `HandleSignal` are the cases of the service loop with all that
ProcessEvent and printRecord do. The handler of CREATE is two steps because it
looks at the disk twice (os.Stat, then AddPath or getFileSize).

The users of the tree, the kernel and fsnotify are external. A notification
carries the generation of the watch that made it; fsnotify drops it if the
watch has left its table since (`FsnotifyDiscard`). IN_DELETE_SELF removes a
watch from fsnotify's table (`FsnotifySelf`) and reports nothing more. A full
queue takes one overflow mark. Three history variables say what the program can
not know: `blind` (paths whose latest change no notification announces, or is
announced before an older removal), `refused` (watches over the limit) and
`overflow`. The second kind of `blind` is fsnotify's doing: where the watch of the
directory above is gone from its table, it makes a removal of its own from
IN_DELETE_SELF, and that may come behind the CREATE of what has replaced the path.

With the root `.`, which is the default, a path right below it has two
spellings: filepath.Walk says `a`, fsnotify's events `./a`. StateComponent and
WatcherComponent key their tables by what they are given, so `sizes` and `paths`
are tables of names and not of paths; a path is called in the model what the walks
call it, and `EventName` says what the events call it. fsnotify, the kernel and
IgnoreComponent, which clean or resolve, know one path.

A nil component is a state of the program, `"crashed"`: `log` and `read` are off
by default, and then the interface that is handed to LogEvent and ProcessEvent
holds a nil pointer and is not nil itself.

Left out: renaming of directories, IN_ATTRIB (dropped by the handler), the
ReadWatcher beyond its presence, the dedup log (its own module), symbolic
links, and what the printed lines look like.

### ProcessMonitor

`SnapshotList`, `SnapshotRead` and `SnapshotDone` are snapshotProcessFDs and what
Run does with it; `SendEvent`, `SendError`, `PollerDone` the selects;
`TakeEvent`, `PutEvent`, `EventForwarderReturns` and their twins for errors the
two forwarders; `CloseAgg` what follows wg.Wait; `HandleEvent`, `HandleError`,
`ChannelClosed`, `HandleSignal`, `CloseWatcher`, `Stopped` the service loop and
Close. The readlink and the stat of one descriptor are one step: they can
disagree only about a descriptor that changes to or from something other than a
regular file in between. The channel of errors of one watcher has room for 64
and is never sent more than one, so its capacity is not a parameter.

`ProcessStream` has no goroutines and no channels: of every process snapshots are
taken (`Begin`, `Observe`), the changes between them are merged into one stream
(`Merge`) and handled (`Handle`), and the service ends by itself (`End`) only when
nothing is left to merge or handle and the end of every process was told
(`Tell`). `Stream` in ProcessMonitor is the refinement mapping: what a forwarder
has in hand, the channel before it and the rest of a difference that the
poller is sending are the changes not yet merged; the aggregator's channel is
the merged stream; a snapshot is `known` from the moment its differences are
computed. After a signal nothing is promised (`status` is `"stopped"`).

### NetMonitor

`ReadDir` and `Readlink` are readProcessSocketInodes, the directory and then a link
at a time; `ListDone` the return of ReadProcNetFiles where no socket was found;
`ReadRow` parseProcNetFile at a row of a table with the look into the set of
inodes; `MissRow` and `SkipTable` a row and a table that were not read; `DiffAt` and
`NewOp` are diffNetSnapshots and ClassifyNetOp. The process makes, duplicates and
closes descriptors, and with `Forks` it shares its sockets with a child: a
socket leaves the tables with its last holder (`Leave`). Two histories say what
the program cannot know: `gone`, the sockets that have left the tables, and
`slipped`, those that a snapshot may not show although they are there. Two tables
stand for the four: the code treats the IPv6 ones alike. A connection of the kernel is known by its state
and its remote port; `Line` is what its table prints of it, `ParseProcNetLine`
(NetAddress) what the program reads there. The address of the peer is given by
the constant `PeerOf`, and is a sequence of 4 or 16 bytes; local addresses and
the lines that ParseProcNetLine refuses are left out. The kernel never gives an inode number to
a second socket within a run.

### ReadWatcher

DirMonitor is about paths; here a watch belongs to an inode, since inotify keeps
the descriptor of an inode that has one and the code's tables map descriptors
to paths and back. `AddCheck`, `AddWatch` and `AddRecord` are AddPath: the look
into `watches` under the read lock, inotify_add_watch without a lock, the entries
under the lock. `RemoveEntry` (in `HandleGone`) and `RemoveWatch` are RemovePath
in the same way. `ReadBuffer`, `HandleSelf`, `HandleNewDir`, `HandleAccess` and
`SendRead` are Run; `WalkList`, `WalkVisit` and `WalkDone` the walk, after which
Run starts; `HandleCreate`, `HandleGone`, `HandleRead` and `Stop` what the service
loop does with the ReadWatcher. AddPath is called by Run and by the service loop,
so `adding` holds one call for each.

Directories are made, removed and renamed. A rename queues IN_MOVED_TO of
the root before IN_MOVE_SELF of the directory, as the kernel does. inotify and
fsnotify each have a queue that drops what does not fit (`Notify` and `KernelCap`,
`Tell` and `NotesCap`). Three histories are there for the properties: `had`, the
names of each inode, `given`, the inode of each descriptor, and `untold`, the
directories made since the walk that neither queue took note of. Left out: trees deeper than one level, errors of read
and poll, and the watch limit.

### Program, Config, Ignore, DedupLog

`Start` is LoadConfig with the choice of the default configuration, `Configure`
the flags and the second NormalizeConfig, `Build` the rest of main up to the
service, `Record` printRecord, `Exit` every end of the service. Between two lives
of the program the file may be edited (`Edit`) or made (`WriteDefaultConfig`), and
any command line may come next; the dedup file stays, the statistics do not.

A configuration is a record with the fields of types.Config (`Configurations`, with
any values of their types, is what the proofs are about), a path the sequence
of its names with whether it is absolute. `eventsConfigured` of a file is whether
it has a key spelled `events`, apart from what `events` holds: the key may be null, and
json.Unmarshal takes the list from `Events` too. `Duration` is the product that makes
a time.Duration of milliseconds, in a word of 2 * `HalfWord`. A list that a flag
gives is the sequence of its numbers, 0 for what is no number. The rest of JSON,
and letter case and blanks in values, are left out. `printRecord` of DedupLog is Add, Format and os.WriteFile, which may
fail before or after it has truncated the file. A key stands for what
DedupRecordPath makes of a record. Where a record comes from is in the modules
of the three modes; here any operation of the mode that passes the filter may be
printed.

## 3. Plan

Done: the modules above, the refinement of ProcessStream, and the theorems of section
5, which state every invariant of the runs that pass. Next, in this order:

1. READ events and the ReadWatcher's calls in DirMonitor's service loop, with the
   proofs about DirMonitor extended to them.
2. Errors of read and poll in ReadWatcher.

## 4. The runs

Passing runs:

| Run | Properties | Instance | What it shows |
|---|---|---|---|
| DirNested | TypeOK, SizesAgree, WatchesAgree, WatchTables, IgnoredUntouched | root `.` with `a`, `a/b`, an ignored `c` and `c/e`, any of which may be a file, a directory or missing; 4 changes from the scan on; queue of 3, channels of 1, 2 watches | sizes, watches and the watch tables follow the disk, whatever is removed and made again, dropped, refused or lost, and however a path is spelled; an ignored directory that is made, removed and made again is never tracked or watched, nor is what lies in it |
| DirLive | SizesAgree, EventuallyQuiet, OverflowReported, SignalStops | two files renamed over each other, the ignored log; only `write` and `rename` printed; queue of 2, 2 changes | the size table follows renames, printed or not; all that is queued is worked off; a loss is reported; a signal is obeyed |
| ProcPair | TypeOK, StreamFaithful, StreamAlternates, NoSendOnClosed, StreamSpec | 2 processes, 1 descriptor each, 2 names, 1 change and two exits; channels of 1 | the goroutines implement ProcessStream: sharing a channel disturbs neither stream, and nothing is unread or untold at the end; no send after the close |
| ProcLive | StreamFaithful, EventuallySeen, ExitEnds, CloseStops | 1 process, 2 descriptors, 2 changes | torn snapshots make no wrong stream; what is open comes into view, in the first snapshot or by a report; the exit and a signal reach every goroutine |
| NetSockets | TypeOK, NetFaithful, NoForeignSocket, AddressShown, NetEndedComplete | a tcp and a udp socket and one of another process, 2 descriptors, 2 changes | the reports follow the snapshots and show who the peer is |
| NetLive | NetFaithful, CloseExplained, NetEventuallySeen, NetExitEnds, NetCloseStops | a tcp socket, 2 descriptors, 3 changes with a child that shares it, tables and rows that may be missed | a close that is reported has one of four reasons; what was moved or missed is made good by a later snapshot; an exit and a signal end the service |
| ReadNames | TypeOK, NamesHad, StableCovered | two names below the root, one ignored, three inodes; 4 changes with renaming; inotify's queue of 3, fsnotify's of 2, a channel of 1 | a READ bears a name of its directory or none; a directory that keeps its name is watched and named, whoever adds it, if one of the two queues took note of it |
| Program | TypeOK, NormalizedOnce, TickersPositive, PidOverrides, EventsHonoured, IgnoreExact, OwnLogsIgnored, MostRecentLast, FileCurrent | some 40 configuration files and 80 command lines, started one after the other; 2 keys, 4 records a life | normalising twice does no harm; no ticker gets a duration of 0, and one below 0 only by overflow; -pid leaves the other settings but those named below; the filter is the user's, where the list is under the key `events`; ignored is what lies at or below an entry; the statistics are ordered and shown |

Runs that find a difference between the code and what the repository says of it
(`findings` of `PROJECT.json` quote both):

| Run | Property | What happens |
|---|---|---|
| DirDefault | NeverCrashes | with `log` off the first printed record is a nil pointer panic; without `read` a new directory or a removed file is one |
| DirRecursive | RecursiveCoverage | a directory made inside a new one before that is watched is never watched |
| DirOwnLog | EventuallyQuiet | a log below the root, not directly in it, is not ignored and feeds itself |
| ReadRace | ReadsCovered | a directory is renamed once; Run adds its new name, the service loop removes the watch with its old one, and it is never watched again |

A fifth finding is shown by the passing run Program: MostRecentLast holds, so the
groups of the dedup log are ordered by last occurrence, as the comments of
`dedup_stats.go:25` and `:46` say; README.md:76 says by first, and README.md:166 that what
is new goes to the end of its group and the same file is recorded once.

Smaller differences that were met on the way and have no run of their own:

- A TCP_CLOSE may be reported of a connection that goes on (comment
  `net_watcher_linux.go:154`), for one of four reasons, which CloseExplained
  counts in `slipped`, and for no other: its descriptor was moved while the links
  were read (`net_parse.go:64`); a table was skipped, which closes all its connections
  (`net_parse.go:40`); a row was missed between two chunks of a table
  (`net_parse.go:89`); the process closed a socket that a child still holds, and here
  the connection goes on without the process. CloseExplained is not that no such close is
  reported, which would be false.
- With the root `.` the scan's entry `a` is never updated and never removed, since the
  events say `./a` (`init.go:19`, `event.go:99`). The first event about a file shows
  an old size of 0, and an entry of a removed file stays. SizesAgree says what is left: the entry that events
  find is right, or there is none yet and the scan's is right. `IsWatched` and `paths`
  have the two spellings in the same way (`watcher.go:96`).
- A new directory that both inotify's and fsnotify's queue have lost is not watched
  for reads. The ReadWatcher tells nobody of an overflow (`read_watcher_linux.go:183`);
  fsnotify's is printed as an error.
- An interval of more than 2^63 nanoseconds is accepted (`config.go:111`,
  `config.go:129`, comment `config.go:41`), wraps around and may be 0 or less, on
  which time.NewTicker panics (`net_watcher_linux.go:40`,
  `process_watcher_linux.go:23`). TickersPositive leaves such intervals out.
- With `"events": null` and -pid the defaults of directory mode stay in force and
  nothing is printed (`config.go:62`, `config.go:66`); a list under the key `Events` is
  in force without -pid and lost with it (`config.go:31`). EventsHonoured and
  PidOverrides leave both out.
- -pid with -dns puts defaults in the place of the file's netMonitor
  (`main.go:164`), although README.md:127 says that the other fields still apply.
- A udp socket connected anew to port 53 between two snapshots yields no event
  (`net_watcher_linux.go:161`, comment `net_parse.go:208`).
- ReadsCovered fails in a second way, without renaming: a directory is removed and
  made again, and Run adds it after RemovePath has given up its lock and before
  it calls inotify_rm_watch, which then removes the new watch
  (`read_watcher_linux.go:96`).
- A READ that is handled after its watch has left the table is printed with the
  bare name of the file (`read_watcher_linux.go:213`, README.md:3).
- Run watches a new directory that is on the ignore list
  (`read_watcher_linux.go:198`); its READs are dropped later.
- `IsWatched` stays true of a directory that was removed: fsnotify has dropped
  its watch by the time RemovePath runs, so Remove errs and `paths` keeps the
  entry (`watcher.go:77`, comment `watcher.go:96`). `PathsAfterRemove` models it.
- The renaming of an open file is reported as a CLOSE and an OPEN, since
  snapshots are compared by path (`process_watcher.go:177`, README.md:84).
- A listening socket is reported as a TCP_CONNECT to port 0
  (`net_watcher_linux.go:149`, comment line 147).
- With -pid the poll interval of the file is lost, also where -poll-ms is missing
  (`main.go:181`); README.md:127 says that the other fields still apply, of which
  PidOverrides checks the rest. Without -pid, -poll-ms has no effect.
- -socks5-ports has no effect on a file in network mode, not even when it cannot be
  parsed: LoadConfig has filled in the ports before (`main.go:193`). `BadNetFlags`
  is never true after a file.
- The file that `binmonitor init` writes names the directory events, so with it
  `-pid` starts a process mode that prints nothing (`config.go:17`,
  `config.go:66`). EventsHonoured takes what is in the file for the user's wish.
- An IPv6 address is shown with its groups of 16 bits exchanged in pairs, ::1 as
  0:0:0:0:0:0:1:0 (`net_parse.go:183`). AddressShown therefore says of IPv6 only
  that different peers are shown differently.
- With `dedupLog` and without `log` the statistics are never written: LogEvent
  panics on the first record (`monitor.go:189`, see DirDefault).
- The dedup log never shows the operations of network mode: Format goes through
  eight others (`dedup_stats.go:53`, `FormattedOps`).

**Bounds.** The counter of changes bounds what users and processes do. In DirNested
the tree may hold anything at the start, so four changes remove and remake a
directory and its content, the shortest history in which notifications of an
old watch meet a new one. Capacities of
1 make every send wait sooner or later, and a queue of 2 or 3 overflows within
the changes; the code's 128 and 64 only put that off. Two processes are the
fewest that share a channel, two descriptors the fewest whose snapshot can be
torn and between which a socket can be moved; three changes make a socket, share it
and close it, or duplicate and move it. ProcPair has two processes of which one fails
or fills the channels, for safety and StreamSpec only; ProcLive has one. MostRecentLast relates two keys, and four records bring both back after
each other. The files and command lines of Program give each field the values
that some branch tells apart, among them negative, missing, null and duplicate ones,
and an interval that wraps around a word of 20000. DirMonitor's directory tree is three levels deep: a root that is never
removed, a directory, and its content. Processes and names are
interchangeable, and so are inodes, so ProcPair and ReadNames, which check
safety only, use symmetry. In ReadNames four changes let a directory be made,
renamed and read, or be replaced, while its first notifications are on their way,
and fill fsnotify's queue of 2 before the next directory is made.

**Deadlock** is checked in every run; `Terminated` marks the states where the
program has ended.

**Fairness.** Weak fairness of a goroutine says that the scheduler runs it and
that its ticker ticks. Go's select picks at random among the cases that
are ready, so a case that is ready again and again is taken: strong fairness
of the cases of the service loop and of the done case of a poller. Users,
monitored processes and signals owe nothing. Every liveness property that
speaks of a pause has it by the bound on changes.

## 5. The proofs

`DirMonitorProofs` proves for every tree, configuration, capacity and number of
changes, from the assumptions named in `DirMonitor` (`TreeAssumption`,
`SpellingAssumption`: no name stands for two paths; `ConfigAssumption`,
`BoundAssumption`; TLC evaluates them in every run):

- **TypeCorrect**: `Spec => []TypeOK`. TypeOK alone is not inductive, since it
  allows the kernel's queue to be one longer than its capacity: the invariant
  adds that it is so only with an overflow mark in it (`QueueOK`). The lemmas
  on mailboxes say that each way of posting a notification preserves that.
- **WatchesKnown**: `Spec => []WatchTables`, live watches within fsnotify's
  table, and what that holds in `paths` under one of its names. It needs the generations: a self notification that
  fsnotify takes for its current watch on a path can only come from a
  watch that is not live any more.
- **IgnoredStay**: `Spec => []IgnoredUntouched`, under neither name. The invariant follows ignored
  paths into the places where they could get by the checks: the directory
  the walk has listed and the path in the hands of the CREATE handler.

`DirAgreeProofs` proves from the same assumptions what the service is for:

- **SettledSizes**: `Spec => []SizesAgree`, and **SettledWatches**: `Spec =>
  []WatchesAgree`. Both speak of what has come to rest, and say nothing that a
  step could start from. The invariant (`AgreeInv`) therefore speaks of every path at
  every moment: either the last notification on the line from the kernel's queue over
  Run's hand and the channel to the handler tells of what is at the path
  (`Coming`), or none is on the line and the path has been dealt with (`Dealt`):
  its size is right, its watch is live or was refused, or a walk, or the
  second half of the handler of CREATE, has yet to look at it. Earlier notifications may be
  wrong, since each handler looks at the disk as it is then. Three invariants of
  their own support it: what is present sits in a directory (`TreeInv`), nothing
  is on the line before the loop runs (`StartInv`), and notifications from inside a
  directory do not come after the end of its watch (`OrderInv`), so that fsnotify never
  discards the one that counts. A walk that has yet to look is said without
  induction on the tree (`Below`: in every set of directories that holds what is to be
  visited and is closed downwards). `ScanInv` says that the scan makes no entry under a
  name of the events that is not its own, so that until an event has made one the
  scan's is what counts. The proof found one case that the runs are too small to
  show, fsnotify's own removal that comes late (see DirMonitor above); with it
  SizesAgree needs `blind` to hold that path.

`ReadWatcherProofs` proves, from `NameAssumption` and `BoundAssumption`:

- **TablesTyped**: `Spec => []TypeOK`. Every descriptor in either table has been
  given out; AddWatch is the step that makes the set of descriptors, and with it
  the range of most variables, grow.
- **ReadsNamed**: `Spec => []NamesHad`. NamesHad is about the channel only; the
  invariant (`Names`) says of every place a path can come from - the disk,
  inotify, a call of AddPath between two of its steps, the table, the hand of
  Run - that it is a name its inode has had. It needs no lock: entries of the
  table may be lost or stale, as ReadRace shows, but never wrong.
- **StableStays**: `Spec => []StableCovered`. Three parties add a directory and two
  forget it, with and without the lock. The invariant (`Cover`) says of every
  directory whose name is its own that nothing under way takes it out (`Untouched`:
  no removal among the notes, no IN_DELETE_SELF or IN_IGNORED of its inode in any
  queue, no RemovePath of its watch, one watch for it at most, and an entry only
  with that one), and that until it is in the table somebody has yet to add it or
  neither queue took note of it (`Told`). `Heard` adds that nobody holds a name that never was, so
  that an inode cannot become another directory's. What the kernel's queue drops,
  fsnotify's makes good, and the other way round.

`ProcessMonitorProofs` proves, from the assumptions of `ProcessMonitor`:

- **ProcessTyped**: `Spec => []TypeOK`. The differences of two snapshots are defined
  by recursion on the number of descriptors (`FlattenSeq`), and that they are
  sequences of events needs an induction: `FlattenSeqType` (SequenceLemmas) takes
  the least number for which it fails (`Least`, from the well-foundedness of `<`).
- **NeverPanics**: `Spec => []NoSendOnClosed`. `ClosedLast` says that the channels
  are closed only when every forwarder has returned, `ErrorsKept` that one that has
  returned holds nothing.
- **Implements**: `Spec => StreamSpec`. Every action is shown to be a step of
  ProcessStream under the mapping or to change none of its variables. End is the
  hard one: that the loop's two channels are closed must imply that nothing is
  left in any place an event or an error can be. `NothingLost` says so step
  by step, from the poller that has exited, over the forwarder that returned from
  an empty channel, to the channel the loop has dropped, and that an error of
  every process is in one of those places or told (`ToldOf`).
- **Faithful**: `Spec => []StreamFaithful`, and **Alternating**: `Spec =>
  []StreamAlternates`. A `Trail` (SequenceLemmas) is a sequence of events together with
  the values a descriptor has before and after each. The invariant (`Ordered`) says that
  for every descriptor the aggregator's channel leads from what the service knows
  to some value and the events not yet merged lead on from there to the latest
  snapshot. Events of other descriptors lead from a value to itself, so any merge
  of the processes keeps it. `TrailFlatten` is what makes the differences of two
  snapshots such a trail.

`NetMonitorProofs` proves, from the assumptions of `NetMonitor`:

- **NetTyped**: `Spec => []TypeOK`. `ErrorOnce` bounds the errors: the error is
  the last thing the poller makes before it closes its channels.
- **EndsComplete**: `Spec => []NetEndedComplete`. `DroppedEmpty` says it of each
  channel by itself: it is dropped after the poller's exit and empty, and
  nothing is sent after that.
- **PeersShown**: `Spec => []AddressShown`, for all addresses. `Ipv4Exact` says that
  ParseHexIP undoes what the kernel does to the bytes, `Ipv6Groups` that an IPv6
  address comes out with its groups exchanged in pairs, so that (`Ipv6Apart`) no
  two are shown alike.
- **CloseReasons**: `Spec => []CloseExplained`, with and without failing tables,
  sharing and moved descriptors. The invariant `Closes` goes through a snapshot: what
  was seen before and is neither `gone` nor `slipped` has a link that is still to be
  read or is listed, and then a row that is still to be read or is seen
  (`NoneMissed`). That needs the order the code reads in, the links before the tables.
- **FaithfulNet**: `Spec => []NetFaithful`. Again a trail, of one socket: what was
  reported, then the events queued and being sent, then the latest snapshot; the state
  is compared for tcp only, as the code does.
- **NoneForeign**: `Spec => []NoForeignSocket`. The inodes listed, the snapshots and all
  events on their way are of sockets the process has made.

`ProgramProofs` proves, from `FileAssumption` and `FlagAssumption` (a file is
missing, broken or a record of fields of the right types; so is a command line),
`NilAssumption`, `PartsAssumption`, `StringAssumption`, those of DedupLog, and
`CwdAssumption` and `EventAssumption` (the kernel gives the working directory and the
place of an event without `.` and `..`; the root and the entries may have them):

- **StaysNormalized**: `Spec => []NormalizedOnce`. `Settled` describes what
  NormalizeConfig returns in each mode; `NormalizeSettles` shows that it returns
  nothing else, `SettledStays` that it leaves this as it is, and `FlagsSettle` that
  whatever the flags do in between is normalised again.
- **TickersRun**: `Spec => []TickersPositive`, from the same invariant: no file and
  no flags lead to two watchers of one process, nor to a ticker that panics, but for
  an interval that does not fit in a Duration. `WordAssumption` says of the word that
  the default of 500 ms fits.
- **PidFlagWins**: `Spec => []PidOverrides`. `Taken` says what NormalizeConfig leaves
  of a configuration and `Given` what the flags leave of it. The invariant (`Loading`)
  relates the configuration to the file from the start on. The netMonitor of the file
  is kept where -dns is not given, and replaced where it is.
- **FilterHonours**: `Spec => []EventsHonoured`. PidOverrides does not say where the
  events come from if not from the file. `EventsSo` does, at each stage, and
  while the flags may still change the mode it needs that EventsConfigured is true
  just if the events are the file's; that is so with a list under the key `events` or
  with no such key (`PlainEvents`), which is the premise.
- **TypesHold**: `Spec => []TypeOK`, with the length of the groups of the statistics.
- **LatestLast**: `Spec => []MostRecentLast`, and **FileShows**: `Spec =>
  []FileCurrent`, for all operations, keys and records. `DedupProofs` has the steps: the
  invariant (`DedupInv`) adds that the map knows what has come up in this life and
  nothing else, without which Add would look for a key in a list that does not
  have it, or append one that is there.
- **IgnoresExactly**: `Spec => []IgnoreExact`. CleanNames is a recursive function, which
  has a value by `CleansExists` and is followed name by name with `Upward`, an induction
  over 0..k without an operator parameter. `CleanedBelow`: a relative path that does not
  leave its root is appended, cleaned, to the cleaned root. `RelBelow`: what filepath.Rel
  returns begins with an entry just if the path begins with root and entry
  (`CommonPrefix` is what the longest common prefix says of two paths).
- **OwnLogsLeftOut**: `Spec => []OwnLogsIgnored`, from `EntryIgnored`: a name that is on
  the list is ignored in the root, however the root is written.

Each invariant is proved by one step per action of Next. Only model-checked is
all liveness (EventuallyQuiet, OverflowReported, SignalStops, EventuallySeen, ExitEnds,
CloseStops and their NetMonitor twins), which is out of TLAPS's reach, as is ENABLED.

## 6. Not modelled

- The wording of output and log lines, timestamps and sizes in print: no control
  depends on them. The syntax of JSON and of the command line.
- In `/proc/net`: local addresses, and lines the kernel does not print.
- In ReadWatcher: errors of read and poll, which end Run, and the watch limit.
- AppCtx and types: declarations. The watchers for other platforms: they return
  an error.
- Close of the WatcherComponent and of the log at exit: the process ends with
  them, so only that the loop returns is modelled in directory mode.
