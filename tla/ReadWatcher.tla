----------------------------- MODULE ReadWatcher -----------------------------
(***************************************************************************)
(* ReadWatcherComponent, which reports what is read below the root.  It    *)
(* keeps two tables, from watch descriptors to paths and back, and two     *)
(* goroutines work on them: its own Run, which adds the directories that   *)
(* inotify tells of and forgets those that go, and the service loop, which *)
(* adds and removes directories as fsnotify tells of them, later or        *)
(* earlier.  Each table access is under a lock and the system calls are    *)
(* not: AddPath is three steps and RemovePath two.                         *)
(*                                                                         *)
(* A watch belongs to an inode, the tables are about paths; inotify gives  *)
(* a descriptor out once.  One level of directories below the root is      *)
(* modelled, with one file in each; the kernel grants every watch.         *)
(***************************************************************************)
EXTENDS Integers, Sequences, FiniteSets

CONSTANTS
  Dirs,       \* the directories below the root
  Root,       \* the monitored root, which stays
  Inodes,     \* inodes for the directories below the root
  RootInode,
  NoInode,    \* there is no directory
  NoPath,     \* the path "" of the code; no path
  Ignored,    \* the directories IgnoreComponent.ShouldIgnore accepts
  KernelCap,  \* length of the inotify queue
  NotesCap,   \* length of fsnotify's, which is another one
  EventsCap,  \* capacity of ReadWatcherComponent.events (128)
  Renames,    \* whether directories are renamed (model only)
  MaxChanges  \* bound on what users do (Nat, model only)

Places == Dirs \cup {Root}
AllInodes == Inodes \cup {RootInode}

ASSUME NameAssumption ==
  /\ Root \notin Dirs /\ NoPath \notin Places /\ Ignored \subseteq Dirs
  /\ RootInode \notin Inodes /\ NoInode \notin AllInodes
ASSUME BoundAssumption ==
  /\ KernelCap \in Nat \ {0} /\ NotesCap \in Nat \ {0} /\ EventsCap \in Nat \ {0}
  /\ Renames \in BOOLEAN /\ MaxChanges \in Nat

Actors == {"run", "service"}
NoWd == 0

VARIABLES
  \* the disk and inotify
  at,        \* [Places -> AllInodes \cup {NoInode}]
  had,       \* history, [AllInodes -> SUBSET Places]: the names of each inode so far
  untold,    \* history: directories made since the walk began that neither
             \* queue took note of
  mark,      \* [AllInodes -> Nat], the descriptor of the live watch, or NoWd
  given,     \* the inodes of the descriptors given out so far, a sequence
  kq,        \* what is queued in inotify, as [wd, op, dir]; dir is NoPath except
             \* for a new directory
  lost,      \* history: that queue has overflowed
  notes,     \* what fsnotify has for the service loop, as [op, dir]
  \* ReadWatcherComponent
  paths,     \* from descriptors to Places, the map w.paths
  watches,   \* from Places to descriptors, the map w.watches
  events,    \* its channel, as [path, wd]; wd is there for the properties
  \* Run
  buffer,    \* what is read from inotify and not yet handled
  outgoing,  \* what sendEvent holds: at most one event
  \* the two methods, while under way
  adding,    \* [Actors -> calls], AddPath, see Call
  removing,  \* the descriptor RemovePath is about to remove, or NoWd
  \* startDirectory
  phase,     \* "list", "walk": the walk at startup; "run"; "stopped"
  todo,      \* places the walk has still to visit
  changes

disk    == <<at, had, untold>>
kernel  == <<mark, given>>
queue   == <<kq, lost>>
tables  == <<paths, watches>>
reader  == <<buffer, outgoing, events>>
calls   == <<adding, removing>>
startup == <<phase, todo>>
vars == <<disk, kernel, queue, notes, tables, reader, calls, startup, changes>>

\* Mutant: a descriptor without an entry is taken for the root's.
PathOfOrRoot(wd) == IF wd \in DOMAIN paths THEN paths[wd] ELSE Root

PathOf(wd) == IF wd \in DOMAIN paths THEN paths[wd] ELSE NoPath

Live(wd) == \E i \in AllInodes : mark[i] = wd

With(f, x, y) == [z \in DOMAIN f \cup {x} |-> IF z = x THEN y ELSE f[z]]
Without(f, x) == [y \in DOMAIN f \ {x} |-> f[y]]

Call(p, stage, wd) == [path |-> p, stage |-> stage, wd |-> wd]
NoCall == Call(NoPath, "none", NoWd)

-----------------------------------------------------------------------------
(***************************************************************************)
(* The users of the tree, inotify and fsnotify (external).                 *)
(***************************************************************************)
\* inotify queues es, or as many of them as there is room for.  Its overflow
\* mark is left out: Run takes no notice of it.
Notify(es) ==
  LET room == KernelCap - Len(kq)
  IN IF Len(es) <= room THEN kq' = kq \o es /\ UNCHANGED lost
     ELSE kq' = kq \o SubSeq(es, 1, room) /\ lost' = TRUE

\* fsnotify is told of ns, or of as many of them as there is room for.  Its
\* overflow mark is an error that the service loop prints.
Tell(ns) ==
  LET room == NotesCap - Len(notes)
  IN notes' = IF Len(ns) <= room THEN notes \o ns ELSE notes \o SubSeq(ns, 1, room)

Note(wd, op, d) == [wd |-> wd, op |-> op, dir |-> d]
OnMark(wd, es) == IF wd = NoWd THEN <<>> ELSE es
RootWd == mark[RootInode]

UserMay == phase # "stopped" /\ changes < MaxChanges /\ changes' = changes + 1
NotUser == UNCHANGED <<tables, reader, calls, startup>>

Mkdir(d, i) ==
  /\ UserMay /\ at[d] = NoInode /\ had[i] = {}
  /\ at' = [at EXCEPT ![d] = i] /\ had' = [had EXCEPT ![i] = {d}]
  /\ Notify(OnMark(RootWd, <<Note(RootWd, "newdir", d)>>))
  /\ Tell(<<[op |-> "create", dir |-> d]>>)
  /\ untold' = IF /\ phase # "list" /\ Len(notes) = NotesCap
                  /\ RootWd = NoWd \/ Len(kq) = KernelCap
               THEN untold \cup {d} ELSE untold
  /\ UNCHANGED kernel /\ NotUser

\* A watch goes with its inode: IN_DELETE_SELF, then IN_IGNORED.
Rmdir(d) ==
  /\ UserMay /\ at[d] # NoInode
  /\ at' = [at EXCEPT ![d] = NoInode]
  /\ mark' = [mark EXCEPT ![at[d]] = NoWd]
  /\ LET wd == mark[at[d]]
     IN Notify(OnMark(wd, <<Note(wd, "self", NoPath), Note(wd, "ignored", NoPath)>>))
  /\ Tell(<<[op |-> "remove", dir |-> d]>>)
  /\ UNCHANGED <<had, untold, given>> /\ NotUser

\* A watch stays with its inode: IN_MOVED_TO of the root, then IN_MOVE_SELF.
\* fsnotify may tell of the old name once more.
Rename(d, e) ==
  /\ Renames /\ UserMay /\ at[d] # NoInode /\ at[e] = NoInode
  /\ at' = [at EXCEPT ![d] = NoInode, ![e] = at[d]]
  /\ had' = [had EXCEPT ![at[d]] = @ \cup {e}]
  /\ LET wd == mark[at[d]]
     IN Notify(OnMark(RootWd, <<Note(RootWd, "newdir", e)>>) \o
               OnMark(wd, <<Note(wd, "self", NoPath)>>))
  /\ LET gone == [op |-> "rename", dir |-> d]
         new == [op |-> "create", dir |-> e]
     IN Tell(<<gone, new>>) \/ Tell(<<gone, new, gone>>)
  /\ UNCHANGED <<untold, kernel>> /\ NotUser

\* Somebody reads the file in d.
Read(d) ==
  /\ UserMay /\ at[d] # NoInode
  /\ LET wd == mark[at[d]] IN Notify(OnMark(wd, <<Note(wd, "access", NoPath)>>))
  /\ UNCHANGED <<disk, kernel, notes>> /\ NotUser

UserStep ==
  \E d \in Dirs : \/ \E i \in Inodes : Mkdir(d, i)
                  \/ \E e \in Dirs : Rename(d, e)
                  \/ Rmdir(d) \/ Read(d)

-----------------------------------------------------------------------------
(***************************************************************************)
(* AddPath and RemovePath.                                                 *)
(***************************************************************************)
\* A path in the table is not added again.
AddCheck(a) ==
  /\ adding[a].stage = "check"
  /\ adding' = [adding EXCEPT ![a] = IF @.path \in DOMAIN watches THEN NoCall
                                     ELSE Call(@.path, "watch", NoWd)]
  /\ UNCHANGED <<disk, kernel, queue, notes, tables, reader, removing, startup, changes>>

\* inotify_add_watch: an inode that has a watch keeps its descriptor.  An
\* error ends the call, and during the walk the program.
AddWatch(a) ==
  /\ adding[a].stage = "watch"
  /\ LET i == at[adding[a].path]
     IN IF i = NoInode
        THEN /\ adding' = [adding EXCEPT ![a] = NoCall]
             /\ phase' = IF phase = "walk" THEN "stopped" ELSE phase
             /\ UNCHANGED kernel
        ELSE /\ IF mark[i] = NoWd
                THEN given' = Append(given, i) /\ mark' = [mark EXCEPT ![i] = Len(given) + 1]
                ELSE UNCHANGED kernel
             /\ adding' = [adding EXCEPT ![a] = Call(@.path, "record", mark'[i])]
             /\ UNCHANGED phase
  /\ UNCHANGED <<disk, queue, notes, tables, reader, removing, todo, changes>>

AddRecord(a) ==
  /\ adding[a].stage = "record"
  /\ paths' = With(paths, adding[a].wd, adding[a].path)
  /\ watches' = With(watches, adding[a].path, adding[a].wd)
  /\ adding' = [adding EXCEPT ![a] = NoCall]
  /\ UNCHANGED <<disk, kernel, queue, notes, reader, removing, startup, changes>>

AddStep(a) == AddCheck(a) \/ AddWatch(a) \/ AddRecord(a)

\* RemovePath, its first half; a path that is not in the table is left alone.
RemoveEntry(p) ==
  IF p \in DOMAIN watches
  THEN /\ watches' = Without(watches, p) /\ paths' = Without(paths, watches[p])
       /\ removing' = watches[p]
  ELSE UNCHANGED <<tables, removing>>

\* ... and its second, inotify_rm_watch, whose error is ignored.
RemoveWatch ==
  /\ removing # NoWd
  /\ mark' = [i \in AllInodes |-> IF mark[i] = removing THEN NoWd ELSE mark[i]]
  /\ Notify(IF Live(removing) THEN <<Note(removing, "ignored", NoPath)>> ELSE <<>>)
  /\ removing' = NoWd
  /\ UNCHANGED <<disk, given, notes, tables, reader, adding, startup, changes>>

-----------------------------------------------------------------------------
(***************************************************************************)
(* The walk at startup.  filepath.Walk lists the root before it calls back *)
(* for it, and looks at an entry once more before it calls back for that.  *)
(***************************************************************************)
WalkList ==
  /\ phase = "list"
  /\ phase' = "walk" /\ todo' = {d \in Dirs : at[d] # NoInode}
  /\ adding' = [adding EXCEPT !["service"] = Call(Root, "check", NoWd)]
  /\ UNCHANGED <<disk, kernel, queue, notes, tables, reader, removing, changes>>

\* Mutant: filepath.SkipAll in the place of SkipDir.
WalkVisitSkipAll(d) ==
  /\ phase = "walk" /\ adding["service"] = NoCall /\ d \in todo
  /\ todo' = IF d \in Ignored THEN {} ELSE todo \ {d}
  /\ adding' = IF d \in Ignored \/ at[d] = NoInode THEN adding
               ELSE [adding EXCEPT !["service"] = Call(d, "check", NoWd)]
  /\ UNCHANGED <<disk, kernel, queue, notes, tables, reader, removing, phase, changes>>

WalkVisit(d) ==
  /\ phase = "walk" /\ adding["service"] = NoCall /\ d \in todo
  /\ todo' = todo \ {d}
  /\ adding' = IF d \in Ignored \/ at[d] = NoInode THEN adding
               ELSE [adding EXCEPT !["service"] = Call(d, "check", NoWd)]
  /\ UNCHANGED <<disk, kernel, queue, notes, tables, reader, removing, phase, changes>>

WalkDone ==
  /\ phase = "walk" /\ adding["service"] = NoCall /\ todo = {}
  /\ phase' = "run"
  /\ UNCHANGED <<disk, kernel, queue, notes, tables, reader, calls, todo, changes>>

-----------------------------------------------------------------------------
(***************************************************************************)
(* Run: it reads all that is queued and then handles one notification      *)
(* after the other.                                                        *)
(***************************************************************************)
Running == phase = "run" /\ adding["run"] = NoCall /\ outgoing = <<>>

ReadBuffer ==
  /\ Running /\ buffer = <<>> /\ kq # <<>>
  /\ buffer' = kq /\ kq' = <<>>
  /\ UNCHANGED <<disk, kernel, lost, notes, tables, outgoing, events, calls, startup,
                 changes>>

Handle(ops) == Running /\ buffer # <<>> /\ Head(buffer).op \in ops /\ buffer' = Tail(buffer)

\* removeWatchDescriptor.
HandleSelf ==
  /\ Handle({"self", "ignored"})
  /\ LET wd == Head(buffer).wd
     IN paths' = Without(paths, wd) /\ watches' = Without(watches, PathOf(wd))
  /\ UNCHANGED <<disk, kernel, queue, notes, outgoing, events, calls, startup, changes>>

\* No ignored path is left out here.
HandleNewDir ==
  /\ Handle({"newdir"})
  /\ adding' = [adding EXCEPT !["run"] = Call(Head(buffer).dir, "check", NoWd)]
  /\ UNCHANGED <<disk, kernel, queue, notes, tables, outgoing, events, removing, startup,
                 changes>>

\* eventPath of a file in a directory: where the table has no path for the
\* descriptor, the name of the file is all there is.
HandleAccess ==
  /\ Handle({"access"})
  /\ outgoing' = <<[path |-> PathOf(Head(buffer).wd), wd |-> Head(buffer).wd]>>
  /\ UNCHANGED <<disk, kernel, queue, notes, tables, events, calls, startup, changes>>

\* Mutant: one more than there is room for.
HasRoomOffByOne == Len(events) <= EventsCap

\* sendEvent waits for room in w.events.
HasRoom == Len(events) < EventsCap

SendRead ==
  /\ phase = "run" /\ outgoing # <<>> /\ HasRoom
  /\ events' = events \o outgoing /\ outgoing' = <<>>
  /\ UNCHANGED <<disk, kernel, queue, notes, tables, buffer, calls, startup, changes>>

RunStep == ReadBuffer \/ HandleSelf \/ HandleNewDir \/ HandleAccess \/ SendRead

-----------------------------------------------------------------------------
(***************************************************************************)
(* The service loop, as far as it concerns the ReadWatcher.                *)
(***************************************************************************)
Selecting == phase = "run" /\ adding["service"] = NoCall /\ removing = NoWd

Receive(ops) ==
  /\ Selecting /\ notes # <<>> /\ Head(notes).op \in ops
  /\ notes' = Tail(notes)

\* os.Stat says whether there is a directory.
HandleCreate ==
  /\ Receive({"create"})
  /\ LET d == Head(notes).dir
     IN adding' = IF d \in Ignored \/ at[d] = NoInode THEN adding
                  ELSE [adding EXCEPT !["service"] = Call(d, "check", NoWd)]
  /\ UNCHANGED <<disk, kernel, queue, tables, reader, removing, startup, changes>>

HandleGone ==
  /\ Receive({"remove", "rename"})
  /\ IF Head(notes).dir \in Ignored THEN UNCHANGED <<tables, removing>>
     ELSE RemoveEntry(Head(notes).dir)
  /\ UNCHANGED <<disk, kernel, queue, reader, adding, startup, changes>>

\* A READ is printed.
HandleRead ==
  /\ Selecting /\ events # <<>>
  /\ events' = Tail(events)
  /\ UNCHANGED <<disk, kernel, queue, notes, tables, buffer, outgoing, calls, startup,
                 changes>>

\* Close, on a signal.
Stop ==
  /\ Selecting
  /\ phase' = "stopped"
  /\ UNCHANGED <<disk, kernel, queue, notes, tables, reader, calls, todo, changes>>

ServiceStep == HandleCreate \/ HandleGone \/ HandleRead \/ RemoveWatch

Terminated == phase = "stopped" /\ UNCHANGED vars

Init ==
  /\ at \in {f \in [Places -> AllInodes \cup {NoInode}] :
               /\ \A p \in Places : f[p] = RootInode <=> p = Root
               /\ \A d, e \in Dirs : d # e /\ f[d] # NoInode => f[d] # f[e]}
  /\ had = [i \in AllInodes |-> {p \in Places : at[p] = i}]
  /\ mark = [i \in AllInodes |-> NoWd] /\ given = <<>> /\ kq = <<>> /\ lost = FALSE
  /\ untold = {} /\ notes = <<>> /\ paths = <<>> /\ watches = <<>>
  /\ events = <<>> /\ buffer = <<>> /\ outgoing = <<>>
  /\ adding = [a \in Actors |-> NoCall] /\ removing = NoWd
  /\ phase = "list" /\ todo = {} /\ changes = 0

Next ==
  \/ UserStep \/ WalkList \/ WalkDone \/ \E d \in Dirs : WalkVisit(d)
  \/ \E a \in Actors : phase # "stopped" /\ AddStep(a)
  \/ RunStep \/ ServiceStep \/ Stop \/ Terminated

Spec == Init /\ [][Next]_vars

-----------------------------------------------------------------------------
Wds == DOMAIN given
Notes == [wd : Wds, op : {"newdir"}, dir : Dirs] \cup
         [wd : Wds, op : {"self", "ignored", "access"}, dir : {NoPath}]
Reads == [path : Places \cup {NoPath}, wd : Wds]
Calls == [path : Places, stage : {"check", "watch"}, wd : {NoWd}] \cup
         [path : Places, stage : {"record"}, wd : Wds] \cup {NoCall}

DiskOK ==
  /\ at \in [Places -> AllInodes \cup {NoInode}] /\ had \in [AllInodes -> SUBSET Places]
  /\ untold \subseteq Dirs
  /\ given \in Seq(AllInodes) /\ mark \in [AllInodes -> Wds \cup {NoWd}]
QueueOK ==
  /\ kq \in Seq(Notes) /\ Len(kq) <= KernelCap /\ lost \in BOOLEAN
  /\ notes \in Seq([op : {"create", "remove", "rename"}, dir : Dirs]) /\ Len(notes) <= NotesCap
TablesOK ==
  /\ DOMAIN paths \subseteq Wds /\ paths \in [DOMAIN paths -> Places]
  /\ DOMAIN watches \subseteq Places /\ watches \in [DOMAIN watches -> Wds]
ReaderOK ==
  /\ events \in Seq(Reads) /\ Len(events) <= EventsCap
  /\ buffer \in Seq(Notes) /\ outgoing \in Seq(Reads) /\ Len(outgoing) <= 1
CallsOK == adding \in [Actors -> Calls] /\ removing \in Wds \cup {NoWd}
StartupOK ==
  /\ phase \in {"list", "walk", "run", "stopped"} /\ todo \subseteq Dirs
  /\ changes \in 0..MaxChanges

\* TypeOK: the ranges of the variables, with the capacities of the two queues
\* and of w.events (NewReadWatcherComponent).
TypeOK == DiskOK /\ QueueOK /\ TablesOK /\ ReaderOK /\ CallsOK /\ StartupOK

-----------------------------------------------------------------------------
\* Nothing is on its way and no call is under way.
Quiet ==
  /\ phase = "run" /\ kq = <<>> /\ buffer = <<>> /\ outgoing = <<>> /\ notes = <<>>
  /\ removing = NoWd /\ \A a \in Actors : adding[a] = NoCall

Covered(d) == mark[at[d]] # NoWd /\ PathOf(mark[at[d]]) = d

\* NamesHad: a read is reported under a name that its directory has now or had once, or
\* under none, whoever wrote the entry of its descriptor and whatever was
\* removed, made again or renamed meanwhile (AddPath, removeWatchDescriptor,
\* RemovePath and eventPath).
NamesHad == \A n \in DOMAIN events : events[n].path \in had[given[events[n].wd]] \cup {NoPath}

\* A directory and its name have only ever had each other.
Stable(d) ==
  at[d] # NoInode /\ had[at[d]] = {d} /\ \A i \in Inodes \ {at[d]} : d \notin had[i]

\* StableCovered: where a directory and its name have only ever had each other, the walk, Run
\* and the service loop may all add it, in any order and at once: reads in it
\* are watched and named once all is worked off (AddPath).  Either queue may
\* overflow, as long as one of the two takes note of the new directory.
StableCovered ==
  Quiet => \A d \in Dirs \ Ignored : Stable(d) /\ d \notin untold => Covered(d)

\* ReadsCovered: once all is worked off, every directory is watched and known by its name.
\* ("Make sure that a new directory is watched", event.go:89.)
ReadsCovered == Quiet /\ ~lost => \A d \in Dirs \ Ignored : at[d] # NoInode => Covered(d)
=============================================================================
