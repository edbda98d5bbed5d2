------------------------- MODULE ReadWatcherProofs -------------------------
(***************************************************************************)
(* Theorems about ReadWatcher.                                             *)
(***************************************************************************)
EXTENDS ReadWatcher, SequenceTheorems, TLAPS

\* What is shown, or about to be, bears a name of its directory.
NamedIn(s) == \A n \in DOMAIN s : s[n].path \in had[given[s[n].wd]] \cup {NoPath}

\* Where a path can come from: the disk, inotify, a call of AddPath, the table.
Names ==
  /\ \A p \in Places : at[p] # NoInode => p \in had[at[p]]
  /\ \A i \in AllInodes : mark[i] # NoWd => given[mark[i]] = i
  /\ \A a \in Actors : adding[a].stage = "record" =>
       adding[a].path \in had[given[adding[a].wd]]
  /\ \A wd \in DOMAIN paths : paths[wd] \in had[given[wd]]
  /\ NamedIn(outgoing) /\ NamedIn(events)

Inv == TypeOK /\ Names

-----------------------------------------------------------------------------
\* The ranges of a function with one entry less.
LEMMA WithoutOK ==
  ASSUME NEW S, NEW T, NEW f, DOMAIN f \subseteq S, f \in [DOMAIN f -> T], NEW x
  PROVE  /\ DOMAIN Without(f, x) = DOMAIN f \ {x}
         /\ DOMAIN Without(f, x) \subseteq S
         /\ Without(f, x) \in [DOMAIN Without(f, x) -> T]
         /\ \A z \in DOMAIN f \ {x} : Without(f, x)[z] = f[z]
BY DEF Without

\* The head and the rest of a sequence.
LEMMA TakeHead ==
  ASSUME NEW S, NEW s \in Seq(S), s # <<>>
  PROVE  /\ Head(s) \in S /\ Tail(s) \in Seq(S) /\ Len(Tail(s)) = Len(s) - 1
         /\ \A n \in DOMAIN Tail(s) : n + 1 \in DOMAIN s /\ Tail(s)[n] = s[n + 1]
OBVIOUS

\* inotify's queue keeps its bound, whatever is queued.
LEMMA NotifyOK ==
  ASSUME NEW S, NEW es \in Seq(S), kq \in Seq(S), Len(kq) <= KernelCap,
         lost \in BOOLEAN, Notify(es)
  PROVE  kq' \in Seq(S) /\ Len(kq') <= KernelCap /\ lost' \in BOOLEAN
<1> DEFINE room == KernelCap - Len(kq)
<1>1. KernelCap \in Nat /\ Len(kq) \in Nat /\ Len(es) \in Nat
  BY BoundAssumption
<1>2. CASE Len(es) <= room
  <2>1. kq' = kq \o es /\ lost' = lost
    BY <1>2 DEF Notify
  <2>2. kq' \in Seq(S) /\ Len(kq') = Len(kq) + Len(es)
    BY <2>1
  <2> QED BY <1>1, <1>2, <2>1, <2>2
<1>3. CASE ~(Len(es) <= room)
  <2> DEFINE cut == SubSeq(es, 1, room)
  <2>1. room \in Nat /\ room <= Len(es)
    BY <1>1, <1>3
  <2>2. cut \in Seq(S) /\ Len(cut) = room
    BY <1>1, <2>1, SubSeqProperties
  <2>3. kq' = kq \o cut /\ lost' = TRUE
    BY <1>3 DEF Notify
  <2> HIDE DEF cut
  <2>4. kq' \in Seq(S) /\ Len(kq') = Len(kq) + Len(cut)
    BY <2>2, <2>3, ConcatProperties
  <2> QED BY <1>1, <2>2, <2>3, <2>4
<1> QED BY <1>2, <1>3

\* fsnotify's queue keeps its bound too: what is added to it is a first part of
\* what there is to tell, and all of it if there is room.
LEMMA TellOK ==
  ASSUME NEW S, NEW ns \in Seq(S), NEW T, notes \in Seq(T), Len(notes) <= NotesCap, Tell(ns)
  PROVE  \E new \in Seq(S) : /\ notes' = notes \o new /\ Len(notes) + Len(new) <= NotesCap
                             /\ Len(notes) + Len(ns) <= NotesCap => new = ns
<1> DEFINE room == NotesCap - Len(notes)
           cut == SubSeq(ns, 1, room)
<1>1. NotesCap \in Nat /\ Len(notes) \in Nat /\ Len(ns) \in Nat
  BY BoundAssumption
<1>2. CASE Len(ns) <= room
  <2>1. notes' = notes \o ns
    BY <1>2 DEF Tell
  <2> QED BY <1>1, <1>2, <2>1
<1>3. CASE ~(Len(ns) <= room)
  <2>1. room \in Nat /\ room <= Len(ns)
    BY <1>1, <1>3
  <2>2. cut \in Seq(S) /\ Len(cut) = room
    BY <1>1, <2>1, SubSeqProperties
  <2>3. notes' = notes \o cut
    BY <1>3 DEF Tell
  <2> HIDE DEF cut
  <2> QED BY <1>1, <1>3, <2>2, <2>3
<1> QED BY <1>2, <1>3

\* ... so it stays a sequence of changes.
LEMMA TellTyped ==
  ASSUME NEW T, NEW ns \in Seq(T), notes \in Seq(T), Len(notes) <= NotesCap, Tell(ns)
  PROVE  notes' \in Seq(T) /\ Len(notes') <= NotesCap
<1>1. PICK new \in Seq(T) : notes' = notes \o new /\ Len(notes) + Len(new) <= NotesCap
  BY TellOK
<1>2. notes \o new \in Seq(T) /\ Len(notes \o new) = Len(notes) + Len(new)
  BY ConcatProperties
<1> QED BY <1>1, <1>2

LEMMA ConstantTypes ==
  /\ NoPath \notin Places /\ Root \in Places /\ Dirs \subseteq Places
  /\ RootInode \in AllInodes /\ Inodes \subseteq AllInodes /\ NoInode \notin AllInodes
  /\ NoWd \notin DOMAIN given \/ given \notin Seq(AllInodes)
BY NameAssumption DEF Places, AllInodes, NoWd

-----------------------------------------------------------------------------
(***************************************************************************)
(* The initial state.                                                      *)
(***************************************************************************)
LEMMA InitInv == Init => Inv
<1> SUFFICES ASSUME Init PROVE Inv
  OBVIOUS
<1>1. at \in [Places -> AllInodes \cup {NoInode}] /\ had = [i \in AllInodes |-> {p \in Places : at[p] = i}]
  BY DEF Init
<1>2. DOMAIN paths = {} /\ DOMAIN watches = {} /\ DOMAIN given = {}
  BY DEF Init
<1>5. /\ kq = <<>> /\ notes = <<>> /\ events = <<>> /\ buffer = <<>> /\ outgoing = <<>>
       /\ given = <<>> /\ Len(<<>>) = 0 /\ \A S : <<>> \in Seq(S)
  BY DEF Init
<1>3. TypeOK
  <2>1. DiskOK
    BY <1>1, <1>5 DEF Init, DiskOK
  <2>2. QueueOK /\ ReaderOK
    <3>1. KernelCap \in Nat /\ NotesCap \in Nat /\ EventsCap \in Nat /\ lost \in BOOLEAN
      BY BoundAssumption DEF Init
    <3> QED BY <1>5, <3>1 DEF QueueOK, ReaderOK
  <2>3. TablesOK
    BY <1>2 DEF Init, TablesOK
  <2>4. CallsOK
    BY DEF Init, CallsOK, Calls
  <2>5. StartupOK
    BY BoundAssumption DEF Init, StartupOK
  <2> QED BY <2>1, <2>2, <2>3, <2>4, <2>5 DEF TypeOK
<1>4. Names
  BY <1>1, <1>2 DEF Init, Names, NamedIn, NoCall, Call
<1> QED BY <1>3, <1>4 DEF Inv

-----------------------------------------------------------------------------
(***************************************************************************)
(* What a step leaves alone.                                               *)
(***************************************************************************)
LEMMA TypeKept ==
  ASSUME TypeOK, UNCHANGED given
  PROVE  /\ Wds' = Wds /\ Notes' = Notes /\ Reads' = Reads /\ Calls' = Calls
         /\ UNCHANGED <<disk, mark>> => DiskOK'
         /\ UNCHANGED <<queue, notes>> => QueueOK'
         /\ UNCHANGED tables => TablesOK'
         /\ UNCHANGED reader => ReaderOK'
         /\ UNCHANGED calls => CallsOK'
         /\ UNCHANGED <<startup, changes>> => StartupOK'
<1>1. Wds' = Wds
  BY DEF Wds
<1>2. Notes' = Notes /\ Reads' = Reads /\ Calls' = Calls
  BY <1>1 DEF Notes, Reads, Calls
<1> QED
  BY <1>1, <1>2 DEF TypeOK, DiskOK, QueueOK, TablesOK, ReaderOK, CallsOK, StartupOK,
     disk, queue, tables, reader, calls, startup

\* Names only gain from new names and new descriptors.
LEMMA NamesKept ==
  ASSUME TypeOK, Names,
         \A i \in AllInodes : had[i] \subseteq had'[i],
         \A wd \in Wds : given'[wd] = given[wd]
  PROVE  /\ UNCHANGED paths => \A wd \in DOMAIN paths' : paths'[wd] \in had'[given'[wd]]
         /\ UNCHANGED adding => \A a \in Actors : adding'[a].stage = "record" =>
                                 adding'[a].path \in had'[given'[adding'[a].wd]]
         /\ UNCHANGED outgoing => NamedIn(outgoing)'
         /\ UNCHANGED events => NamedIn(events)'
<1>1. \A wd \in Wds : given[wd] \in AllInodes
  BY DEF TypeOK, DiskOK, Wds
<1>2. \A wd \in Wds : had[given[wd]] \subseteq had'[given'[wd]]
  BY <1>1
<1>3. UNCHANGED paths => \A wd \in DOMAIN paths' : paths'[wd] \in had'[given'[wd]]
  BY <1>2 DEF Names, TypeOK, TablesOK
<1>4. \A a \in Actors : adding[a].stage = "record" => adding[a].wd \in Wds
  BY DEF TypeOK, CallsOK, Calls, NoCall, Call
<1>5. UNCHANGED adding => \A a \in Actors : adding'[a].stage = "record" =>
                                 adding'[a].path \in had'[given'[adding'[a].wd]]
  BY <1>2, <1>4 DEF Names
<1>6. \A s \in Seq(Reads) : \A n \in DOMAIN s : s[n].wd \in Wds
  <2>1. \A r \in Reads : r.wd \in Wds
    BY DEF Reads
  <2>2. \A s \in Seq(Reads) : \A n \in DOMAIN s : s[n] \in Reads
    OBVIOUS
  <2> QED BY <2>1, <2>2
<1>7. UNCHANGED outgoing => NamedIn(outgoing)'
  BY <1>2, <1>6 DEF Names, NamedIn, TypeOK, ReaderOK
<1>8. UNCHANGED events => NamedIn(events)'
  BY <1>2, <1>6 DEF Names, NamedIn, TypeOK, ReaderOK
<1> QED BY <1>3, <1>5, <1>7, <1>8

\* Where neither the disk nor inotify changes, nor what bears names.
LEMMA InvKept ==
  ASSUME Inv, UNCHANGED <<disk, kernel>>
  PROVE  /\ UNCHANGED <<tables, adding, outgoing, events>> => Names'
         /\ UNCHANGED <<paths, outgoing, events>> /\
            (\A a \in Actors : adding'[a] = adding[a] \/ adding'[a].stage # "record")
              => Names'
BY NamesKept DEF Inv, Names, disk, kernel, tables

-----------------------------------------------------------------------------
(***************************************************************************)
(* The users.                                                              *)
(***************************************************************************)
LEMMA NoteOK ==
  ASSUME TypeOK, NEW wd \in Wds \cup {NoWd}, NEW op \in {"self", "ignored", "access"},
         NEW d \in Dirs
  PROVE  /\ wd # NoWd => Note(wd, op, NoPath) \in Notes /\ Note(wd, "newdir", d) \in Notes
         /\ OnMark(wd, <<Note(wd, op, NoPath)>>) \in Seq(Notes)
         /\ OnMark(wd, <<Note(wd, "newdir", d)>>) \in Seq(Notes)
<1>1. wd # NoWd => Note(wd, op, NoPath) \in Notes /\ Note(wd, "newdir", d) \in Notes
  BY DEF Notes, Note
<1>2. CASE wd = NoWd
  BY <1>1, <1>2 DEF OnMark
<1>3. CASE wd # NoWd
  <2>1. \A n \in Notes : <<n>> \in Seq(Notes)
    OBVIOUS
  <2> QED BY <1>1, <1>3, <2>1 DEF OnMark
<1> QED BY <1>1, <1>2, <1>3

LEMMA UserFrame ==
  ASSUME Inv, UserMay, NotUser, UNCHANGED given
  PROVE  TablesOK' /\ ReaderOK' /\ CallsOK' /\ StartupOK'
<1>1. changes' \in 0..MaxChanges
  BY BoundAssumption DEF UserMay, Inv, TypeOK, StartupOK
<1> QED BY <1>1, TypeKept DEF Inv, TypeOK, StartupOK, NotUser, startup

LEMMA MkdirInv ==
  ASSUME Inv, NEW d \in Dirs, NEW i \in Inodes, Mkdir(d, i)
  PROVE  Inv'
<1>1. TablesOK' /\ ReaderOK' /\ CallsOK' /\ StartupOK' /\ UNCHANGED <<given, mark>>
  BY UserFrame DEF Mkdir, kernel
<1>2. d \in Places /\ i \in AllInodes /\ RootInode \in AllInodes
  BY ConstantTypes
<1>3. DiskOK'
  BY <1>1, <1>2, TypeKept DEF Mkdir, DiskOK, Inv, TypeOK
<1>4. QueueOK'
  <2>1. OnMark(RootWd, <<Note(RootWd, "newdir", d)>>) \in Seq(Notes)
    BY <1>2, NoteOK DEF Inv, TypeOK, DiskOK, RootWd
  <2>2. kq' \in Seq(Notes) /\ Len(kq') <= KernelCap /\ lost' \in BOOLEAN
    BY <2>1, NotifyOK DEF Mkdir, Inv, TypeOK, QueueOK
  <2>3. /\ notes' \in Seq([op : {"create", "remove", "rename"}, dir : Dirs])
        /\ Len(notes') <= NotesCap
    <3> DEFINE S == [op : {"create", "remove", "rename"}, dir : Dirs]
    <3>1. <<[op |-> "create", dir |-> d]>> \in Seq(S) /\ Tell(<<[op |-> "create", dir |-> d]>>)
      BY DEF Mkdir
    <3>2. notes \in Seq(S) /\ Len(notes) <= NotesCap
      BY DEF Inv, TypeOK, QueueOK
    <3> HIDE DEF S
    <3>3. notes' \in Seq(S) /\ Len(notes') <= NotesCap
      BY <3>1, <3>2, TellTyped
    <3> QED BY <3>3 DEF S
  <2> QED BY <1>1, <2>2, <2>3, TypeKept DEF QueueOK, Inv
<1>5. Names'
  <2>1. \A j \in AllInodes : had[j] \subseteq had'[j]
    BY <1>2 DEF Mkdir, Inv, TypeOK, DiskOK
  <2>2. \A p \in Places : at'[p] # NoInode => p \in had'[at'[p]]
    BY <1>2, <2>1, ConstantTypes DEF Mkdir, Inv, TypeOK, DiskOK, Names
  <2>3. UNCHANGED <<paths, adding, outgoing, events>>
    BY DEF Mkdir, NotUser, tables, reader, calls
  <2> QED BY <1>1, <2>1, <2>2, <2>3, NamesKept DEF Inv, Names
<1> QED BY <1>1, <1>3, <1>4, <1>5 DEF Inv, TypeOK

LEMMA RmdirInv ==
  ASSUME Inv, NEW d \in Dirs, Rmdir(d)
  PROVE  Inv'
<1>1. TablesOK' /\ ReaderOK' /\ CallsOK' /\ StartupOK' /\ UNCHANGED <<given, had>>
  BY UserFrame DEF Rmdir
<1> DEFINE wd == mark[at[d]]
<1>2. d \in Places /\ at[d] \in AllInodes /\ wd \in Wds \cup {NoWd}
  BY ConstantTypes DEF Rmdir, Inv, TypeOK, DiskOK
<1>3. DiskOK'
  BY <1>1, <1>2, TypeKept DEF Rmdir, DiskOK, Inv, TypeOK
<1>4. QueueOK'
  <2> DEFINE es == OnMark(wd, <<Note(wd, "self", NoPath), Note(wd, "ignored", NoPath)>>)
  <2>1. es \in Seq(Notes)
    <3>1. CASE wd = NoWd
      BY <3>1 DEF OnMark
    <3>2. CASE wd # NoWd
      <4>1. Note(wd, "self", NoPath) \in Notes /\ Note(wd, "ignored", NoPath) \in Notes
        BY <1>2, <3>2, NoteOK DEF Inv
      <4>2. \A m, n \in Notes : <<m, n>> \in Seq(Notes)
        OBVIOUS
      <4> QED BY <3>2, <4>1, <4>2 DEF OnMark
    <3> QED BY <3>1, <3>2
  <2>2. kq' \in Seq(Notes) /\ Len(kq') <= KernelCap /\ lost' \in BOOLEAN
    BY <2>1, NotifyOK DEF Rmdir, Inv, TypeOK, QueueOK
  <2>3. /\ notes' \in Seq([op : {"create", "remove", "rename"}, dir : Dirs])
        /\ Len(notes') <= NotesCap
    <3> DEFINE S == [op : {"create", "remove", "rename"}, dir : Dirs]
    <3>1. <<[op |-> "remove", dir |-> d]>> \in Seq(S) /\ Tell(<<[op |-> "remove", dir |-> d]>>)
      BY DEF Rmdir
    <3>2. notes \in Seq(S) /\ Len(notes) <= NotesCap
      BY DEF Inv, TypeOK, QueueOK
    <3> HIDE DEF S
    <3>3. notes' \in Seq(S) /\ Len(notes') <= NotesCap
      BY <3>1, <3>2, TellTyped
    <3> QED BY <3>3 DEF S
  <2> QED BY <1>1, <2>2, <2>3, TypeKept DEF QueueOK, Inv
<1>5. Names'
  <2>1. \A p \in Places : at'[p] # NoInode => at'[p] = at[p]
    BY DEF Rmdir, Inv, TypeOK, DiskOK
  <2>2. \A i \in AllInodes : mark'[i] # NoWd => mark'[i] = mark[i]
    BY DEF Rmdir, Inv, TypeOK, DiskOK
  <2>3. UNCHANGED <<paths, adding, outgoing, events>>
    BY DEF Rmdir, NotUser, tables, reader, calls
  <2> QED BY <1>1, <2>1, <2>2, <2>3, NamesKept DEF Inv, Names
<1> QED BY <1>1, <1>3, <1>4, <1>5 DEF Inv, TypeOK

LEMMA RenameInv ==
  ASSUME Inv, NEW d \in Dirs, NEW e \in Dirs, Rename(d, e)
  PROVE  Inv'
<1>1. TablesOK' /\ ReaderOK' /\ CallsOK' /\ StartupOK' /\ UNCHANGED <<given, mark>>
  BY UserFrame DEF Rename, kernel
<1> DEFINE wd == mark[at[d]]
<1>2. /\ d \in Places /\ e \in Places /\ at[d] \in AllInodes
      /\ wd \in Wds \cup {NoWd} /\ RootWd \in Wds \cup {NoWd}
  BY ConstantTypes DEF Rename, Inv, TypeOK, DiskOK, RootWd
<1>3. DiskOK'
  BY <1>1, <1>2, TypeKept DEF Rename, DiskOK, Inv, TypeOK
<1>4. QueueOK'
  <2> DEFINE new == OnMark(RootWd, <<Note(RootWd, "newdir", e)>>)
             self == OnMark(wd, <<Note(wd, "self", NoPath)>>)
  <2>1. new \in Seq(Notes) /\ self \in Seq(Notes)
    BY <1>2, NoteOK DEF Inv
  <2>2. new \o self \in Seq(Notes) /\ Notify(new \o self)
    <3>1. Notify(new \o self)
      BY DEF Rename
    <3> HIDE DEF new, self
    <3> QED BY <2>1, <3>1
  <2>3. kq' \in Seq(Notes) /\ Len(kq') <= KernelCap /\ lost' \in BOOLEAN
    <3> HIDE DEF new, self
    <3> QED BY <2>2, NotifyOK DEF Inv, TypeOK, QueueOK
  <2>4. /\ notes' \in Seq([op : {"create", "remove", "rename"}, dir : Dirs])
        /\ Len(notes') <= NotesCap
    <3> DEFINE S == [op : {"create", "remove", "rename"}, dir : Dirs]
               g == [op |-> "rename", dir |-> d]
               c == [op |-> "create", dir |-> e]
    <3>1. g \in S /\ c \in S /\ notes \in Seq(S) /\ Len(notes) <= NotesCap
      BY DEF Inv, TypeOK, QueueOK
    <3>2. Tell(<<g, c>>) \/ Tell(<<g, c, g>>)
      BY DEF Rename
    <3> HIDE DEF S, g, c
    <3>3. <<g, c>> \in Seq(S) /\ <<g, c, g>> \in Seq(S)
      BY <3>1
    <3>4. notes' \in Seq(S) /\ Len(notes') <= NotesCap
      BY <3>1, <3>2, <3>3, TellTyped
    <3> QED BY <3>4 DEF S
  <2> QED BY <1>1, <2>3, <2>4, TypeKept DEF QueueOK, Inv
<1>5. Names'
  <2>1. \A j \in AllInodes : had[j] \subseteq had'[j]
    BY <1>2 DEF Rename, Inv, TypeOK, DiskOK
  <2>2. \A p \in Places : at'[p] # NoInode => p \in had'[at'[p]]
    BY <1>2, <2>1, ConstantTypes DEF Rename, Inv, TypeOK, DiskOK, Names
  <2>3. UNCHANGED <<paths, adding, outgoing, events>>
    BY DEF Rename, NotUser, tables, reader, calls
  <2> QED BY <1>1, <2>1, <2>2, <2>3, NamesKept DEF Inv, Names
<1> QED BY <1>1, <1>3, <1>4, <1>5 DEF Inv, TypeOK

LEMMA ReadInv ==
  ASSUME Inv, NEW d \in Dirs, Read(d)
  PROVE  Inv'
<1>1. TablesOK' /\ ReaderOK' /\ CallsOK' /\ StartupOK' /\ UNCHANGED <<disk, kernel, notes>>
  BY UserFrame DEF Read, kernel
<1> DEFINE wd == mark[at[d]]
<1>2. d \in Places /\ at[d] \in AllInodes /\ wd \in Wds \cup {NoWd}
  BY ConstantTypes DEF Read, Inv, TypeOK, DiskOK
<1>3. OnMark(wd, <<Note(wd, "access", NoPath)>>) \in Seq(Notes)
  BY <1>2, NoteOK DEF Inv
<1>4. kq' \in Seq(Notes) /\ Len(kq') <= KernelCap /\ lost' \in BOOLEAN
  BY <1>3, NotifyOK DEF Read, Inv, TypeOK, QueueOK
<1>5. DiskOK' /\ QueueOK'
  BY <1>1, <1>4, TypeKept DEF QueueOK, Inv, TypeOK, kernel
<1>6. Names'
  BY <1>1, InvKept DEF Read, NotUser, reader, calls
<1> QED BY <1>1, <1>5, <1>6 DEF Inv, TypeOK

-----------------------------------------------------------------------------
(***************************************************************************)
(* AddPath, and the second half of RemovePath.                             *)
(***************************************************************************)
\* What the stage of a call says about it.
LEMMA StageOf ==
  ASSUME TypeOK, NEW a \in Actors
  PROVE  /\ adding[a].stage = "check" \/ adding[a].stage = "watch" =>
              adding[a] = Call(adding[a].path, adding[a].stage, NoWd) /\ adding[a].path \in Places
         /\ adding[a].stage = "record" => adding[a].path \in Places /\ adding[a].wd \in Wds
BY DEF TypeOK, CallsOK, Calls, NoCall, Call

LEMMA CallOK ==
  ASSUME NEW p \in Places
  PROVE  /\ NoCall \in Calls /\ NoCall.stage # "record"
         /\ Call(p, "check", NoWd) \in Calls /\ Call(p, "check", NoWd).stage # "record"
         /\ Call(p, "watch", NoWd) \in Calls /\ Call(p, "watch", NoWd).stage # "record"
BY DEF Calls, NoCall, Call

LEMMA AddCheckInv ==
  ASSUME Inv, NEW a \in Actors, AddCheck(a)
  PROVE  Inv'
<1> DEFINE p == adding[a].path
           c == IF p \in DOMAIN watches THEN NoCall ELSE Call(p, "watch", NoWd)
<1>1. p \in Places /\ adding[a] = Call(p, "check", NoWd)
  BY StageOf DEF AddCheck, Inv
<1>3. adding' = [adding EXCEPT ![a] = c]
  BY DEF AddCheck
<1>4. c \in Calls /\ c.stage # "record"
  BY <1>1, CallOK
<1> HIDE DEF c
<1>5. CallsOK'
  BY <1>3, <1>4, TypeKept DEF AddCheck, Inv, TypeOK, CallsOK, kernel
<1>6. /\ UNCHANGED <<paths, outgoing, events>>
      /\ \A b \in Actors : adding'[b] = adding[b] \/ adding'[b].stage # "record"
  BY <1>3, <1>4 DEF AddCheck, reader, tables, Inv, TypeOK, CallsOK
<1>7. Names'
  BY <1>6, InvKept DEF AddCheck
<1> QED BY <1>5, <1>7, TypeKept DEF AddCheck, Inv, TypeOK, kernel

LEMMA AddWatchInv ==
  ASSUME Inv, NEW a \in Actors, AddWatch(a)
  PROVE  Inv'
<1> DEFINE p == adding[a].path
           i == at[p]
<1>1. p \in Places /\ adding[a] = Call(p, "watch", NoWd)
  BY StageOf DEF AddWatch, Inv
<1>2. i \in AllInodes \cup {NoInode}
  BY <1>1 DEF Inv, TypeOK, DiskOK
<1>3. UNCHANGED <<disk, queue, notes, tables, reader, removing, todo, changes>>
  BY DEF AddWatch
<1>4. CASE i = NoInode
  <2>1. adding' = [adding EXCEPT ![a] = NoCall] /\ UNCHANGED kernel
    BY <1>4 DEF AddWatch
  <2>2. CallsOK'
    BY <1>1, <1>3, <2>1, CallOK, TypeKept DEF Inv, TypeOK, CallsOK, kernel
  <2>3. StartupOK'
    BY <1>3, <1>4 DEF AddWatch, Inv, TypeOK, StartupOK
  <2>4. /\ UNCHANGED <<paths, outgoing, events>>
        /\ \A b \in Actors : adding'[b] = adding[b] \/ adding'[b].stage # "record"
    BY <1>1, <1>3, <2>1, CallOK DEF reader, tables, Inv, TypeOK, CallsOK
  <2>5. Names'
    BY <1>3, <2>1, <2>4, InvKept
  <2> QED BY <1>3, <2>1, <2>2, <2>3, <2>5, TypeKept DEF Inv, TypeOK, kernel
<1>5. CASE i # NoInode
  <2>1. i \in AllInodes /\ UNCHANGED phase
    BY <1>2, <1>5 DEF AddWatch
  \* Every old descriptor stays what it was; i has one now.
  <2>2. /\ given' \in Seq(AllInodes) /\ Wds \subseteq Wds'
        /\ \A wd \in Wds : given'[wd] = given[wd]
        /\ mark' \in [AllInodes -> Wds' \cup {NoWd}]
        /\ mark'[i] \in Wds' /\ mark'[i] # NoWd /\ given'[mark'[i]] = i
        /\ \A j \in AllInodes : mark'[j] # NoWd => given'[mark'[j]] = j
    <3>0. /\ given \in Seq(AllInodes) /\ mark \in [AllInodes -> Wds \cup {NoWd}]
          /\ \A j \in AllInodes : mark[j] # NoWd => given[mark[j]] = j
      BY DEF Inv, TypeOK, DiskOK, Names
    <3>1. CASE mark[i] = NoWd
      <4> DEFINE w == Len(given) + 1
      <4>1. given' = Append(given, i) /\ mark' = [mark EXCEPT ![i] = w]
        BY <1>5, <3>1 DEF AddWatch
      <4>2. /\ given' \in Seq(AllInodes) /\ Wds' = Wds \cup {w} /\ w # NoWd /\ w \notin Wds
            /\ given'[w] = i /\ \A wd \in Wds : given'[wd] = given[wd]
        BY <2>1, <3>0, <4>1 DEF Wds, NoWd
      <4> HIDE DEF w
      <4> QED BY <2>1, <3>0, <4>1, <4>2
    <3>2. CASE mark[i] # NoWd
      <4>1. UNCHANGED <<given, mark>>
        BY <1>5, <3>2 DEF AddWatch, kernel
      <4> QED BY <2>1, <3>0, <3>2, <4>1 DEF Wds
    <3> QED BY <3>1, <3>2
  <2> DEFINE c == Call(p, "record", mark'[i])
  <2>3. adding' = [adding EXCEPT ![a] = c]
    BY <1>5 DEF AddWatch
  <2>4. /\ Notes \subseteq Notes' /\ Reads \subseteq Reads' /\ Calls \subseteq Calls'
        /\ c \in Calls' /\ c.path = p /\ c.wd = mark'[i]
    BY <1>1, <2>2 DEF Notes, Reads, Calls, Call
  <2>5. Seq(Notes) \subseteq Seq(Notes') /\ Seq(Reads) \subseteq Seq(Reads')
    <3>1. \A S, T : S \subseteq T => Seq(S) \subseteq Seq(T)
      OBVIOUS
    <3> QED BY <2>4, <3>1
  <2>6. DiskOK'
    BY <1>3, <2>2 DEF Inv, TypeOK, DiskOK, disk
  <2>7. QueueOK' /\ ReaderOK' /\ StartupOK'
    BY <1>3, <2>1, <2>5
       DEF Inv, TypeOK, QueueOK, ReaderOK, StartupOK, queue, reader
  <2>8. TablesOK'
    BY <1>3, <2>2 DEF Inv, TypeOK, TablesOK, tables
  <2>9. CallsOK'
    <3> HIDE DEF c
    <3> QED BY <1>3, <2>2, <2>3, <2>4 DEF Inv, TypeOK, CallsOK
  <2>10. \A b \in Actors : adding'[b].stage = "record" =>
           adding'[b].path \in had'[given'[adding'[b].wd]]
    <3> TAKE b \in Actors
    <3>1. CASE b = a
      <4>1. adding'[b] = c
        BY <2>3, <3>1 DEF Inv, TypeOK, CallsOK
      <4>2. p \in had'[given'[mark'[i]]]
        BY <1>1, <1>3, <1>5, <2>2 DEF Inv, Names, disk
      <4> QED BY <2>4, <4>1, <4>2
    <3>2. CASE b # a
      <4>1. adding'[b] = adding[b]
        BY <2>3, <3>2 DEF Inv, TypeOK, CallsOK
      <4>2. adding[b].stage = "record" => adding[b].wd \in Wds
        BY StageOf DEF Inv
      <4> QED BY <1>3, <2>2, <4>1, <4>2 DEF Inv, Names, disk
    <3> QED BY <3>1, <3>2
  <2>11. /\ \A wd \in DOMAIN paths' : paths'[wd] \in had'[given'[wd]]
         /\ NamedIn(outgoing)' /\ NamedIn(events)'
    <3>1. \A j \in AllInodes : had[j] \subseteq had'[j]
      BY <1>3 DEF disk
    <3>2. UNCHANGED <<paths, outgoing, events>>
      BY <1>3 DEF tables, reader
    <3> QED BY <2>2, <3>1, <3>2, NamesKept DEF Inv
  <2>12. Names'
    BY <1>3, <2>2, <2>10, <2>11 DEF Names, Inv, disk
  <2> QED BY <2>6, <2>7, <2>8, <2>9, <2>12 DEF Inv, TypeOK
<1> QED BY <1>4, <1>5

LEMMA AddRecordInv ==
  ASSUME Inv, NEW a \in Actors, AddRecord(a)
  PROVE  Inv'
<1> DEFINE p == adding[a].path
           wd == adding[a].wd
<1>1. p \in Places /\ wd \in Wds /\ p \in had[given[wd]]
  BY StageOf DEF AddRecord, Inv, Names
<1>2. /\ paths' = With(paths, wd, p) /\ watches' = With(watches, p, wd)
      /\ adding' = [adding EXCEPT ![a] = NoCall]
      /\ UNCHANGED <<disk, kernel, queue, notes, reader, removing, startup, changes>>
  BY DEF AddRecord
<1> HIDE DEF p, wd
<1>3. TablesOK'
  <2>1. /\ DOMAIN paths' \subseteq Wds /\ paths' \in [DOMAIN paths' -> Places]
    BY <1>1, <1>2 DEF Inv, TypeOK, TablesOK, With
  <2>2. /\ DOMAIN watches' \subseteq Places /\ watches' \in [DOMAIN watches' -> Wds]
    BY <1>1, <1>2 DEF Inv, TypeOK, TablesOK, With
  <2> QED BY <1>2, <2>1, <2>2, TypeKept DEF Inv, TablesOK, kernel
<1>4. CallsOK'
  BY <1>1, <1>2, CallOK, TypeKept DEF Inv, TypeOK, CallsOK, kernel
<1>5. Names'
  <2>1. \A w \in DOMAIN paths' : paths'[w] \in had[given[w]]
    BY <1>1, <1>2 DEF Inv, Names, With
  <2>2. \A b \in Actors : adding'[b] = adding[b] \/ adding'[b].stage # "record"
    BY <1>1, <1>2, CallOK DEF Inv, TypeOK, CallsOK
  <2> QED BY <1>2, <2>1, <2>2 DEF Inv, Names, NamedIn, disk, kernel, reader
<1> QED BY <1>2, <1>3, <1>4, <1>5, TypeKept DEF Inv, TypeOK, kernel

LEMMA RemoveWatchInv ==
  ASSUME Inv, RemoveWatch
  PROVE  Inv'
<1>1. UNCHANGED <<disk, given, notes, tables, reader, adding, startup, changes>>
  BY DEF RemoveWatch
<1>2. DiskOK'
  BY <1>1, TypeKept DEF RemoveWatch, Inv, TypeOK, DiskOK, disk
<1>3. QueueOK'
  <2>1. Note(removing, "ignored", NoPath) \in Notes
    BY DEF RemoveWatch, Inv, TypeOK, CallsOK, Notes, Note
  <2>2. <<>> \in Seq(Notes) /\ \A n \in Notes : <<n>> \in Seq(Notes)
    OBVIOUS
  <2>3. kq' \in Seq(Notes) /\ Len(kq') <= KernelCap /\ lost' \in BOOLEAN
    BY <2>1, <2>2, NotifyOK DEF RemoveWatch, Inv, TypeOK, QueueOK
  <2> QED BY <1>1, <2>3, TypeKept DEF Inv, TypeOK, QueueOK
<1>4. CallsOK'
  BY <1>1, TypeKept DEF RemoveWatch, Inv, TypeOK, CallsOK
<1>5. Names'
  <2>1. \A i \in AllInodes : mark'[i] # NoWd => mark'[i] = mark[i]
    BY DEF RemoveWatch
  <2> QED BY <1>1, <2>1 DEF Inv, Names, NamedIn, disk, tables, reader
<1> QED BY <1>1, <1>2, <1>3, <1>4, <1>5, TypeKept DEF Inv, TypeOK

-----------------------------------------------------------------------------
(***************************************************************************)
(* The walk.                                                               *)
(***************************************************************************)
\* A step that at most begins a call.
LEMMA CallBegins ==
  ASSUME Inv, UNCHANGED <<disk, kernel, tables, removing, outgoing, events>>,
         NEW a \in Actors, NEW p \in Places,
         adding' \in {adding, [adding EXCEPT ![a] = Call(p, "check", NoWd)]}
  PROVE  DiskOK' /\ TablesOK' /\ CallsOK' /\ Names'
<1> DEFINE c == Call(p, "check", NoWd)
<1>1. c \in Calls /\ c.stage # "record"
  BY CallOK
<1> HIDE DEF c
<1>2. CallsOK'
  <2>1. adding' \in [Actors -> Calls]
    BY <1>1 DEF Inv, TypeOK, CallsOK, c
  <2> QED BY <2>1, TypeKept DEF Inv, TypeOK, CallsOK, kernel
<1>3. \A b \in Actors : adding'[b] = adding[b] \/ adding'[b].stage # "record"
  BY <1>1 DEF Inv, TypeOK, CallsOK, c
<1>4. UNCHANGED paths
  BY DEF tables
<1>5. Names'
  BY <1>3, <1>4, InvKept
<1> QED BY <1>2, <1>5, TypeKept DEF Inv, TypeOK, kernel

LEMMA WalkListInv ==
  ASSUME Inv, WalkList
  PROVE  Inv'
<1>1. DiskOK' /\ TablesOK' /\ CallsOK' /\ Names'
  <2>1. Root \in Places /\ "service" \in Actors
    BY ConstantTypes DEF Actors
  <2>2. UNCHANGED <<disk, kernel, tables, removing, outgoing, events>>
    BY DEF WalkList, reader
  <2>3. adding' \in {adding, [adding EXCEPT !["service"] = Call(Root, "check", NoWd)]}
    BY DEF WalkList
  <2> QED BY <2>1, <2>2, <2>3, CallBegins
<1>2. StartupOK'
  BY DEF WalkList, Inv, TypeOK, StartupOK
<1> QED BY <1>1, <1>2, TypeKept DEF WalkList, Inv, TypeOK, kernel

LEMMA WalkVisitInv ==
  ASSUME Inv, NEW d \in Dirs, WalkVisit(d)
  PROVE  Inv'
<1>1. DiskOK' /\ TablesOK' /\ CallsOK' /\ Names'
  <2>1. d \in Places /\ "service" \in Actors
    BY ConstantTypes DEF Actors
  <2>2. UNCHANGED <<disk, kernel, tables, removing, outgoing, events>>
    BY DEF WalkVisit, reader
  <2>3. adding' \in {adding, [adding EXCEPT !["service"] = Call(d, "check", NoWd)]}
    BY DEF WalkVisit
  <2> QED BY <2>1, <2>2, <2>3, CallBegins
<1>2. StartupOK'
  BY DEF WalkVisit, Inv, TypeOK, StartupOK
<1> QED BY <1>1, <1>2, TypeKept DEF WalkVisit, Inv, TypeOK, kernel

\* The end of the walk, and of the service.
LEMMA PhaseInv ==
  ASSUME Inv, WalkDone \/ Stop
  PROVE  Inv'
<1>1. UNCHANGED <<disk, kernel, queue, notes, tables, reader, calls, todo, changes>>
  BY DEF WalkDone, Stop
<1>2. StartupOK'
  BY <1>1 DEF WalkDone, Stop, Inv, TypeOK, StartupOK
<1>3. UNCHANGED <<tables, adding, outgoing, events>>
  BY <1>1 DEF calls, reader
<1> QED BY <1>1, <1>2, <1>3, InvKept, TypeKept DEF Inv, TypeOK, kernel

-----------------------------------------------------------------------------
(***************************************************************************)
(* Run.                                                                    *)
(***************************************************************************)
LEMMA ReadBufferInv ==
  ASSUME Inv, ReadBuffer
  PROVE  Inv'
<1>1. UNCHANGED <<disk, kernel, lost, notes, tables, outgoing, events, calls, startup, changes>>
      /\ buffer' = kq /\ kq' = <<>>
  BY DEF ReadBuffer
<1>2. QueueOK' /\ ReaderOK'
  <2>1. <<>> \in Seq(Notes) /\ Len(<<>>) = 0 /\ KernelCap \in Nat
    BY BoundAssumption
  <2> QED BY <1>1, <2>1, TypeKept DEF Inv, TypeOK, QueueOK, ReaderOK, kernel
<1>3. UNCHANGED <<tables, adding, outgoing, events>>
  BY <1>1 DEF calls
<1> QED BY <1>1, <1>2, <1>3, InvKept, TypeKept DEF Inv, TypeOK, kernel

LEMMA HandleOK ==
  ASSUME Inv, NEW ops, Handle(ops), UNCHANGED <<outgoing, events, given>>
  PROVE  Head(buffer) \in Notes /\ Head(buffer).wd \in Wds /\ ReaderOK'
<1>1. buffer # <<>> /\ buffer' = Tail(buffer) /\ buffer \in Seq(Notes)
  BY DEF Handle, Inv, TypeOK, ReaderOK
<1>2. Head(buffer) \in Notes /\ Tail(buffer) \in Seq(Notes)
  BY <1>1, TakeHead
<1>3. \A n \in Notes : n.wd \in Wds
  BY DEF Notes
<1> QED BY <1>1, <1>2, <1>3, TypeKept DEF Inv, TypeOK, ReaderOK

LEMMA HandleSelfInv ==
  ASSUME Inv, HandleSelf
  PROVE  Inv'
<1>1. UNCHANGED <<disk, kernel, queue, notes, outgoing, events, calls, startup, changes>>
  BY DEF HandleSelf
<1>2. ReaderOK'
  BY <1>1, HandleOK DEF HandleSelf, kernel
<1> DEFINE wd == Head(buffer).wd
           p == PathOf(wd)
<1>3. paths' = Without(paths, wd) /\ watches' = Without(watches, p)
  BY DEF HandleSelf
<1> HIDE DEF wd, p
<1>4. TablesOK'
  BY <1>1, <1>3, TypeKept DEF Inv, TypeOK, TablesOK, Without, kernel
<1>5. Names'
  <2>1. \A w \in DOMAIN paths' : paths'[w] \in had[given[w]]
    BY <1>3 DEF Inv, Names, Without
  <2> QED BY <1>1, <2>1 DEF Inv, Names, NamedIn, disk, kernel, calls
<1> QED BY <1>1, <1>2, <1>4, <1>5, TypeKept DEF Inv, TypeOK, kernel

LEMMA HandleNewDirInv ==
  ASSUME Inv, HandleNewDir
  PROVE  Inv'
<1>1. UNCHANGED <<disk, kernel, queue, notes, tables, outgoing, events, removing, startup, changes>>
  BY DEF HandleNewDir
<1>2. ReaderOK' /\ Head(buffer) \in Notes /\ Head(buffer).op = "newdir"
  BY <1>1, HandleOK DEF HandleNewDir, Handle, kernel
<1>3. DiskOK' /\ TablesOK' /\ CallsOK' /\ Names'
  <2>1. Head(buffer).dir \in Places /\ "run" \in Actors
    BY <1>2, ConstantTypes DEF Notes, Actors
  <2>2. adding' \in {adding, [adding EXCEPT !["run"] = Call(Head(buffer).dir, "check", NoWd)]}
    BY DEF HandleNewDir
  <2> QED BY <1>1, <2>1, <2>2, CallBegins
<1> QED BY <1>1, <1>2, <1>3, TypeKept DEF Inv, TypeOK, kernel

LEMMA HandleAccessInv ==
  ASSUME Inv, HandleAccess
  PROVE  Inv'
<1> DEFINE wd == Head(buffer).wd
           e == [path |-> PathOf(wd), wd |-> wd]
<1>1. UNCHANGED <<disk, kernel, queue, notes, tables, events, calls, startup, changes>>
      /\ outgoing' = <<e>>
  BY DEF HandleAccess
<1>2. buffer' = Tail(buffer) /\ Tail(buffer) \in Seq(Notes) /\ wd \in Wds
  <2>1. buffer # <<>> /\ buffer' = Tail(buffer) /\ buffer \in Seq(Notes)
    BY DEF HandleAccess, Handle, Inv, TypeOK, ReaderOK
  <2>2. Head(buffer) \in Notes /\ Tail(buffer) \in Seq(Notes)
    BY <2>1, TakeHead
  <2> QED BY <2>1, <2>2 DEF Notes
<1>3. /\ e \in Reads /\ e.wd = wd
      /\ e.path \in had[given[wd]] \cup {NoPath}
  BY <1>2 DEF Inv, TypeOK, TablesOK, Names, PathOf, Reads
<1> HIDE DEF e, wd
<1>4. /\ outgoing' \in Seq(Reads) /\ Len(outgoing') = 1
      /\ \A n \in DOMAIN outgoing' : outgoing'[n] = e
  BY <1>1, <1>3
<1>5. ReaderOK'
  BY <1>1, <1>2, <1>4, TypeKept DEF Inv, TypeOK, ReaderOK, kernel
<1>6. Names'
  <2>1. NamedIn(outgoing)'
    BY <1>1, <1>3, <1>4 DEF NamedIn, disk, kernel
  <2> QED BY <1>1, <2>1 DEF Inv, Names, NamedIn, disk, kernel, tables, calls
<1> QED BY <1>1, <1>5, <1>6, TypeKept DEF Inv, TypeOK, kernel

LEMMA SendReadInv ==
  ASSUME Inv, SendRead
  PROVE  Inv'
<1>1. UNCHANGED <<disk, kernel, queue, notes, tables, buffer, calls, startup, changes>>
      /\ events' = events \o outgoing /\ outgoing' = <<>> /\ Len(events) < EventsCap
  BY DEF SendRead, HasRoom
<1>2. /\ events \in Seq(Reads) /\ outgoing \in Seq(Reads) /\ Len(outgoing) <= 1
      /\ Len(events) \in Nat /\ Len(outgoing) \in Nat /\ EventsCap \in Nat
  BY BoundAssumption DEF Inv, TypeOK, ReaderOK
<1>3. /\ events \o outgoing \in Seq(Reads)
      /\ Len(events \o outgoing) = Len(events) + Len(outgoing)
      /\ \A n \in DOMAIN (events \o outgoing) :
           \/ n \in DOMAIN events /\ (events \o outgoing)[n] = events[n]
           \/ n - Len(events) \in DOMAIN outgoing
              /\ (events \o outgoing)[n] = outgoing[n - Len(events)]
  BY <1>2, ConcatProperties
<1>4. ReaderOK'
  <2>1. Len(events') <= EventsCap
    BY <1>1, <1>2, <1>3
  <2>2. <<>> \in Seq(Reads) /\ Len(<<>>) = 0
    OBVIOUS
  <2> QED BY <1>1, <1>3, <2>1, <2>2, TypeKept DEF Inv, TypeOK, ReaderOK, kernel
<1>5. Names'
  <2>1. NamedIn(events)'
    BY <1>1, <1>3 DEF Inv, Names, NamedIn, disk, kernel
  <2>2. NamedIn(outgoing)'
    BY <1>1 DEF NamedIn
  <2> QED BY <1>1, <2>1, <2>2 DEF Inv, Names, disk, kernel, tables, calls
<1> QED BY <1>1, <1>4, <1>5, TypeKept DEF Inv, TypeOK, kernel

-----------------------------------------------------------------------------
(***************************************************************************)
(* The service loop.                                                       *)
(***************************************************************************)
LEMMA ReceiveOK ==
  ASSUME Inv, NEW ops, Receive(ops), UNCHANGED <<queue, given>>
  PROVE  Head(notes).dir \in Dirs /\ QueueOK'
<1> DEFINE S == [op : {"create", "remove", "rename"}, dir : Dirs]
<1>1. /\ notes # <<>> /\ notes' = Tail(notes) /\ notes \in Seq(S)
      /\ Len(notes) <= NotesCap /\ NotesCap \in Nat /\ Len(notes) \in Nat
  BY BoundAssumption DEF Receive, Inv, TypeOK, QueueOK
<1>2. \A n \in S : n.dir \in Dirs
  OBVIOUS
<1> HIDE DEF S
<1>3. Head(notes) \in S /\ Tail(notes) \in Seq(S) /\ Len(Tail(notes)) = Len(notes) - 1
  BY <1>1, TakeHead
<1>4. Len(notes') <= NotesCap
  BY <1>1, <1>3
<1> QED BY <1>1, <1>2, <1>3, <1>4, TypeKept DEF Inv, TypeOK, QueueOK, queue, S

LEMMA HandleCreateInv ==
  ASSUME Inv, HandleCreate
  PROVE  Inv'
<1>1. UNCHANGED <<disk, kernel, queue, tables, reader, removing, startup, changes>>
  BY DEF HandleCreate
<1>2. Head(notes).dir \in Dirs /\ QueueOK'
  BY <1>1, ReceiveOK DEF HandleCreate, kernel
<1>3. DiskOK' /\ TablesOK' /\ CallsOK' /\ Names'
  <2>1. Head(notes).dir \in Places /\ "service" \in Actors
    BY <1>2, ConstantTypes DEF Actors
  <2>2. adding' \in {adding, [adding EXCEPT !["service"] = Call(Head(notes).dir, "check", NoWd)]}
    BY DEF HandleCreate
  <2>3. UNCHANGED <<outgoing, events>>
    BY <1>1 DEF reader
  <2> QED BY <1>1, <2>1, <2>2, <2>3, CallBegins
<1> QED BY <1>1, <1>2, <1>3, TypeKept DEF Inv, TypeOK, kernel

LEMMA HandleGoneInv ==
  ASSUME Inv, HandleGone
  PROVE  Inv'
<1>1. UNCHANGED <<disk, kernel, queue, reader, adding, startup, changes>>
  BY DEF HandleGone
<1> DEFINE p == Head(notes).dir
<1>2. QueueOK'
  BY <1>1, ReceiveOK DEF HandleGone, kernel
<1>3. CASE UNCHANGED <<tables, removing>>
  <2>1. UNCHANGED <<tables, adding, outgoing, events, calls>>
    BY <1>1, <1>3 DEF calls, reader
  <2> QED BY <1>1, <1>2, <2>1, InvKept, TypeKept DEF Inv, TypeOK, kernel
<1>4. CASE ~UNCHANGED <<tables, removing>>
  <2>1. /\ p \in DOMAIN watches /\ removing' = watches[p]
        /\ watches' = Without(watches, p) /\ paths' = Without(paths, watches[p])
    BY <1>4 DEF HandleGone, RemoveEntry
  <2> HIDE DEF p
  <2>2. TablesOK'
    BY <1>1, <2>1, TypeKept DEF Inv, TypeOK, TablesOK, Without, kernel
  <2>3. CallsOK'
    BY <1>1, <2>1, TypeKept DEF Inv, TypeOK, TablesOK, CallsOK, kernel
  <2>4. Names'
    <3>1. \A w \in DOMAIN paths' : paths'[w] \in had[given[w]]
      BY <2>1 DEF Inv, Names, Without
    <3> QED BY <1>1, <3>1 DEF Inv, Names, NamedIn, disk, kernel, reader
  <2> QED BY <1>1, <1>2, <2>2, <2>3, <2>4, TypeKept DEF Inv, TypeOK, kernel
<1> QED BY <1>3, <1>4

LEMMA HandleReadInv ==
  ASSUME Inv, HandleRead
  PROVE  Inv'
<1>1. UNCHANGED <<disk, kernel, queue, notes, tables, buffer, outgoing, calls, startup, changes>>
      /\ events # <<>> /\ events' = Tail(events)
  BY DEF HandleRead
<1>2. events \in Seq(Reads) /\ Len(events) <= EventsCap /\ EventsCap \in Nat /\ Len(events) \in Nat
  BY BoundAssumption DEF Inv, TypeOK, ReaderOK
<1>3. /\ Tail(events) \in Seq(Reads) /\ Len(Tail(events)) = Len(events) - 1
      /\ \A n \in DOMAIN Tail(events) : n + 1 \in DOMAIN events /\ Tail(events)[n] = events[n + 1]
  BY <1>1, <1>2, TakeHead
<1>4. ReaderOK'
  <2>1. Len(events') <= EventsCap
    BY <1>1, <1>2, <1>3
  <2> QED BY <1>1, <1>3, <2>1, TypeKept DEF Inv, TypeOK, ReaderOK, kernel
<1>5. Names'
  <2>1. NamedIn(events)'
    BY <1>1, <1>3 DEF Inv, Names, NamedIn, disk, kernel
  <2> QED BY <1>1, <2>1 DEF Inv, Names, NamedIn, disk, kernel, tables, calls
<1> QED BY <1>1, <1>4, <1>5, TypeKept DEF Inv, TypeOK, kernel

-----------------------------------------------------------------------------
LEMMA NextInv == Inv /\ [Next]_vars => Inv'
<1> SUFFICES ASSUME Inv, [Next]_vars PROVE Inv'
  OBVIOUS
<1>1. CASE UserStep
  BY <1>1, MkdirInv, RmdirInv, RenameInv, ReadInv DEF UserStep
<1>2. CASE WalkList \/ WalkDone \/ Stop
  BY <1>2, WalkListInv, PhaseInv
<1>3. CASE \E d \in Dirs : WalkVisit(d)
  BY <1>3, WalkVisitInv
<1>4. CASE \E a \in Actors : AddStep(a)
  BY <1>4, AddCheckInv, AddWatchInv, AddRecordInv DEF AddStep
<1>5. CASE RunStep
  BY <1>5, ReadBufferInv, HandleSelfInv, HandleNewDirInv, HandleAccessInv, SendReadInv DEF RunStep
<1>6. CASE ServiceStep
  BY <1>6, HandleCreateInv, HandleGoneInv, HandleReadInv, RemoveWatchInv DEF ServiceStep
<1>7. CASE UNCHANGED vars
  <2>1. /\ UNCHANGED <<disk, kernel, queue, notes, tables, reader, calls, startup, changes>>
        /\ UNCHANGED <<adding, outgoing, events>>
    BY <1>7 DEF vars, calls, reader
  <2> QED BY <2>1, InvKept, TypeKept DEF Inv, TypeOK, kernel
<1> QED BY <1>1, <1>2, <1>3, <1>4, <1>5, <1>6, <1>7 DEF Next, Terminated

LEMMA AlwaysInv == Spec => []Inv
BY InitInv, NextInv, PTL DEF Spec

\* TablesTyped: the ranges of all variables, with the bounds of the queue and the
\* channel, for any directories, inodes and capacities: every descriptor in
\* either table is one that inotify has given out (AddPath, RemovePath).
THEOREM TablesTyped == Spec => []TypeOK
BY AlwaysInv, PTL DEF Inv

\* ReadsNamed: a READ never bears a name that its directory never had, whatever
\* AddPath, RemovePath and removeWatchDescriptor do to the tables in between
\* (eventPath).
THEOREM ReadsNamed == Spec => []NamesHad
<1>1. Inv => NamesHad
  BY DEF Inv, Names, NamedIn, NamesHad
<1> QED BY <1>1, AlwaysInv, PTL

-----------------------------------------------------------------------------
(***************************************************************************)
(* What keeps a directory with a name of its own covered.  Three parties   *)
(* may add it and two of them forget entries; the argument is that nothing *)
(* under way about such a directory can take it out again, and that until  *)
(* it is in the table somebody still has to add it.                        *)
(***************************************************************************)
\* Names of directories there are or have been.
Known == UNION {had[i] : i \in AllInodes}
KnownNotes == {n \in Notes : n.op = "newdir" => n.dir \in Known}
KnownChanges == [op : {"create", "remove", "rename"}, dir : Dirs \cap Known]

\* Nobody has a name, or an inode, that there never was.
Heard ==
  /\ had[RootInode] = {Root} /\ \A d \in Dirs : at[d] # RootInode
  /\ \A wd \in Wds : had[given[wd]] # {}
  /\ kq \in Seq(KnownNotes) /\ buffer \in Seq(KnownNotes) /\ notes \in Seq(KnownChanges)
  /\ \A a \in Actors : adding[a] # NoCall => adding[a].path \in Known
  /\ \A p \in DOMAIN watches : p \in had[given[watches[p]]]
  /\ todo \subseteq Known

\* Notes that do not take descriptors of an inode out of the table, and changes
\* that do not take a directory out.
Sparing(i) == {n \in Notes : n.op \in {"self", "ignored"} => given[n.wd] # i}
Creating(d) == {n \in KnownChanges : n.dir = d => n.op = "create"}

\* Nothing is on its way, and no call under way, that takes d out of the table, and
\* d is there under the descriptor of its one watch.
Untouched(d) ==
  /\ notes \in Seq(Creating(d))
  /\ kq \in Seq(Sparing(at[d])) /\ buffer \in Seq(Sparing(at[d]))
  /\ removing # NoWd => given[removing] # at[d]
  /\ \A wd \in Wds : given[wd] = at[d] => mark[at[d]] = wd
  /\ d \in DOMAIN watches => /\ watches[d] = mark[at[d]] /\ mark[at[d]] # NoWd
                             /\ mark[at[d]] \in DOMAIN paths /\ paths[mark[at[d]]] = d

\* One of the queues tells of d as a new directory.
Announced(s, d) == \E n \in DOMAIN s : s[n].op \in {"create", "newdir"} /\ s[n].dir = d

\* d is in the table, or somebody has yet to add it, or nobody took note of it.
Told(d) ==
  \/ d \in DOMAIN watches
  \/ \E a \in Actors : adding[a].path = d
  \/ Announced(notes, d) \/ Announced(kq, d) \/ Announced(buffer, d) \/ d \in untold
  \/ phase \in {"list", "stopped"}
  \/ phase = "walk" /\ d \in todo

Steady(d) == Untouched(d) /\ (d \notin Ignored => Told(d))

Cover == Heard /\ \A d \in Dirs : Stable(d) => Steady(d)

-----------------------------------------------------------------------------
\* A sequence over a set is one over a larger set.
LEMMA SeqLarger ==
  ASSUME NEW S, NEW T, S \subseteq T, NEW s \in Seq(S)
  PROVE  s \in Seq(T)
OBVIOUS

\* ... and over every set that its elements are in.
LEMMA SeqOver ==
  ASSUME NEW S, NEW T, NEW s \in Seq(S), \A n \in DOMAIN s : s[n] \in T
  PROVE  s \in Seq(T)
OBVIOUS

LEMMA InitCover == Init => Cover
<1> SUFFICES ASSUME Init PROVE Cover
  OBVIOUS
<1>1. Inv
  BY InitInv
<1>2. /\ kq = <<>> /\ notes = <<>> /\ buffer = <<>> /\ \A S : <<>> \in Seq(S)
      /\ Wds = {} /\ DOMAIN watches = {} /\ todo = {} /\ removing = NoWd /\ phase = "list"
      /\ \A a \in Actors : adding[a] = NoCall
  BY DEF Init, Wds
<1>3. had[RootInode] = {Root} /\ \A d \in Dirs : at[d] # RootInode
  BY NameAssumption DEF Init, Places, AllInodes
<1>4. Heard
  BY <1>2, <1>3 DEF Heard
<1> QED BY <1>2, <1>4 DEF Cover, Steady, Untouched, Told

\* What Cover says of descriptors and names.
LEMMA CoverFacts ==
  ASSUME Inv, Cover
  PROVE  /\ Known \subseteq Places
         /\ \A p \in Places : at[p] # NoInode => p \in had[at[p]] /\ p \in Known /\ at[p] \in AllInodes
         /\ \A i \in AllInodes : mark[i] # NoWd => mark[i] \in Wds /\ given[mark[i]] = i
         /\ \A wd \in Wds : given[wd] \in AllInodes
         /\ \A d \in Dirs : at[d] # NoInode => at[d] \in Inodes
         /\ \A d \in Dirs, i \in AllInodes : Stable(d) /\ d \in had[i] => i = at[d]
<1>1. \A i \in AllInodes : had[i] \subseteq Places
  BY DEF Inv, TypeOK, DiskOK
<1>2. \A i \in AllInodes : \A p \in had[i] : p \in Known
  BY DEF Known
<1>3. \A p \in Places : at[p] # NoInode => p \in had[at[p]] /\ at[p] \in AllInodes
  BY DEF Inv, Names, TypeOK, DiskOK
<1>4. \A i \in AllInodes : mark[i] # NoWd => mark[i] \in Wds /\ given[mark[i]] = i
  BY DEF Inv, Names, TypeOK, DiskOK
<1>5. \A wd \in Wds : given[wd] \in AllInodes
  BY DEF Inv, TypeOK, DiskOK, Wds
<1>6. \A d \in Dirs : at[d] # NoInode => at[d] \in Inodes
  BY <1>3, ConstantTypes DEF Cover, Heard, AllInodes
<1>7. \A d \in Dirs, i \in AllInodes : Stable(d) /\ d \in had[i] => i = at[d]
  BY NameAssumption DEF Stable, Cover, Heard, AllInodes
<1>8. Known \subseteq Places
  BY <1>1 DEF Known
<1> QED BY <1>2, <1>3, <1>4, <1>5, <1>6, <1>7, <1>8

\* Where neither the disk nor inotify changes, the names and the sets of notes
\* are the same.
LEMMA SameNames ==
  ASSUME UNCHANGED <<disk, kernel>>
  PROVE  /\ Wds' = Wds /\ Notes' = Notes /\ Known' = Known
         /\ KnownNotes' = KnownNotes /\ KnownChanges' = KnownChanges
         /\ \A i : Sparing(i)' = Sparing(i)
         /\ \A d : Creating(d)' = Creating(d) /\ (Stable(d)' <=> Stable(d))
<1>1. Wds' = Wds
  BY DEF kernel, Wds
<1>2. Notes' = Notes
  BY <1>1 DEF Notes
<1>3. Known' = Known
  BY DEF disk, Known
<1>4. KnownNotes' = KnownNotes /\ KnownChanges' = KnownChanges
  BY <1>2, <1>3 DEF KnownNotes, KnownChanges
<1>5. \A i : Sparing(i)' = Sparing(i)
  BY <1>2 DEF Sparing, kernel
<1>6. \A d : Creating(d)' = Creating(d)
  BY <1>4 DEF Creating
<1>7. \A d : Stable(d)' <=> Stable(d)
  BY DEF Stable, disk
<1> QED BY <1>1, <1>2, <1>3, <1>4, <1>5, <1>6, <1>7

\* Where descriptors are only given out, and names only gained.
LEMMA MoreNames ==
  ASSUME Inv, \A i \in AllInodes : had[i] \subseteq had'[i],
         DOMAIN given \subseteq DOMAIN given', \A wd \in Wds : given'[wd] = given[wd]
  PROVE  /\ Wds \subseteq Wds' /\ Notes \subseteq Notes' /\ Known \subseteq Known'
         /\ KnownNotes \subseteq KnownNotes' /\ KnownChanges \subseteq KnownChanges'
         /\ \A i : Sparing(i) \subseteq Sparing(i)'
<1>1. Wds \subseteq Wds'
  BY DEF Wds
<1>2. Notes \subseteq Notes'
  BY <1>1 DEF Notes
<1>3. Known \subseteq Known'
  BY DEF Known
<1>4. KnownNotes \subseteq KnownNotes' /\ KnownChanges \subseteq KnownChanges'
  BY <1>2, <1>3 DEF KnownNotes, KnownChanges
<1>5. \A n \in Notes : n.wd \in Wds
  BY DEF Notes
<1>6. \A i : Sparing(i) \subseteq Sparing(i)'
  BY <1>2, <1>5 DEF Sparing
<1> QED BY <1>1, <1>2, <1>3, <1>4, <1>6

-----------------------------------------------------------------------------
(***************************************************************************)
(* The users.                                                              *)
(***************************************************************************)
\* What inotify queues is of the kind of what it is given to queue.
LEMMA Queued ==
  ASSUME Inv, NEW S, kq \in Seq(S), NEW es \in Seq(S), Notify(es)
  PROVE  kq' \in Seq(S)
BY NotifyOK DEF Inv, TypeOK, QueueOK

\* ... and it keeps what it has; the next one is told of if there is room.
LEMMA Keeps ==
  ASSUME Inv, NEW S, kq \in Seq(S), NEW es \in Seq(S), Notify(es)
  PROVE  /\ \A n \in DOMAIN kq : n \in DOMAIN kq' /\ kq'[n] = kq[n]
         /\ \A x \in S : es = <<x>> /\ Len(kq) # KernelCap =>
              Len(kq) + 1 \in DOMAIN kq' /\ kq'[Len(kq) + 1] = x
<1> DEFINE room == KernelCap - Len(kq)
<1>1. /\ KernelCap \in Nat /\ Len(kq) \in Nat /\ Len(es) \in Nat /\ Len(kq) <= KernelCap
      /\ room \in Nat
  BY BoundAssumption DEF Inv, TypeOK, QueueOK
<1>2. PICK new \in Seq(S) : kq' = kq \o new /\ (Len(es) <= room => new = es)
  <2>1. CASE Len(es) <= room
    BY <2>1 DEF Notify
  <2>2. CASE ~(Len(es) <= room)
    <3>1. SubSeq(es, 1, room) \in Seq(S)
      BY <1>1, <2>2, SubSeqProperties
    <3> QED BY <2>2, <3>1 DEF Notify
  <2> QED BY <2>1, <2>2
<1>3. \A n \in DOMAIN kq : n \in DOMAIN kq' /\ kq'[n] = kq[n]
  BY <1>2, ConcatProperties
<1>4. ASSUME NEW x \in S, es = <<x>>, Len(kq) # KernelCap
      PROVE  Len(kq) + 1 \in DOMAIN kq' /\ kq'[Len(kq) + 1] = x
  <2>1. Len(es) = 1 /\ 1 <= room
    BY <1>1, <1>4
  <2>2. kq' = kq \o <<x>>
    BY <1>2, <1>4, <2>1
  <2> QED BY <1>1, <2>2
<1> QED BY <1>3, <1>4

\* A user's step that leaves d and its inode, with its names and its watch.
LEMMA UserSpares ==
  ASSUME Inv, Cover, NotUser, UNCHANGED <<given>>,
         \A j \in AllInodes : had[j] \subseteq had'[j],
         NEW d \in Dirs, Stable(d), NEW i \in AllInodes, at[d] = i, at'[d] = i, mark'[i] = mark[i],
         NEW es \in Seq(Sparing(i)), Notify(es),
         NEW new \in Seq([op : {"create", "remove", "rename"}, dir : Dirs \cap Known']),
         notes' = notes \o new, \A n \in DOMAIN new : new[n].dir = d => new[n].op = "create",
         untold \subseteq untold'
  PROVE  Steady(d)'
<1>1. UNCHANGED <<tables, reader, calls, startup>>
  BY DEF NotUser
<1>2. Sparing(i) \subseteq Sparing(i)' /\ KnownChanges \subseteq KnownChanges'
  BY MoreNames
<1>3. Untouched(d) /\ (d \notin Ignored => Told(d))
  BY DEF Cover, Steady
<1>4. kq' \in Seq(Sparing(i)) /\ buffer' \in Seq(Sparing(i))
  BY <1>1, <1>3, Queued DEF Untouched, reader
<1>5. kq' \in Seq(Sparing(i)') /\ buffer' \in Seq(Sparing(i)')
  BY <1>2, <1>4, SeqLarger
<1>6. notes' \in Seq(Creating(d)')
  <2>1. new \in Seq(Creating(d)')
    <3>1. new \in Seq(KnownChanges')
      BY DEF KnownChanges
    <3>2. \A n \in DOMAIN new : new[n] \in KnownChanges'
      BY <3>1
    <3>3. \A n \in DOMAIN new : new[n] \in Creating(d)'
      BY <3>2 DEF Creating
    <3> QED BY <3>1, <3>3, SeqOver
  <2>2. Creating(d) \subseteq Creating(d)'
    BY <1>2 DEF Creating
  <2>3. notes \in Seq(Creating(d)')
    BY <1>3, <2>2, SeqLarger DEF Untouched
  <2> QED BY <2>1, <2>3, ConcatProperties
<1>7. Untouched(d)'
  BY <1>1, <1>3, <1>5, <1>6 DEF Untouched, tables, calls, Wds
<1>8. Told(d) => Told(d)'
  <2>1. \A n \in DOMAIN notes : n \in DOMAIN notes' /\ notes'[n] = notes[n]
    <3>1. notes \in Seq(Creating(d)) /\ new \in Seq([op : {"create", "remove", "rename"}, dir : Dirs \cap Known'])
      BY <1>3 DEF Untouched
    <3> QED BY <3>1, ConcatProperties
  <2>2. \A n \in DOMAIN kq : n \in DOMAIN kq' /\ kq'[n] = kq[n]
    BY <1>3, Keeps DEF Untouched
  <2> QED BY <1>1, <2>1, <2>2 DEF Told, Announced, tables, reader, calls, startup
<1> QED BY <1>3, <1>7, <1>8 DEF Steady

\* A user's step adds names and news of them.
LEMMA UserHeard ==
  ASSUME Inv, Cover, NotUser, UNCHANGED <<given>>,
         \A i \in AllInodes : had[i] \subseteq had'[i],
         UNCHANGED had[RootInode], \A d \in Dirs : at'[d] # RootInode,
         NEW es \in Seq(KnownNotes'), Notify(es),
         NEW new \in Seq([op : {"create", "remove", "rename"}, dir : Dirs \cap Known']),
         notes' = notes \o new
  PROVE  Heard'
<1>1. UNCHANGED <<tables, reader, calls, startup>> /\ Wds' = Wds
  BY DEF NotUser, Wds
<1>2. /\ Known \subseteq Known' /\ KnownNotes \subseteq KnownNotes'
      /\ KnownChanges \subseteq KnownChanges'
  BY MoreNames
<1>3. kq \in Seq(KnownNotes') /\ buffer' \in Seq(KnownNotes') /\ notes \in Seq(KnownChanges')
  BY <1>1, <1>2, SeqLarger DEF Cover, Heard, reader
<1>4. kq' \in Seq(KnownNotes')
  BY <1>3, Queued
<1>5. notes' \in Seq(KnownChanges')
  <2>1. new \in Seq(KnownChanges')
    BY DEF KnownChanges
  <2> QED BY <1>3, <2>1, ConcatProperties
<1>6. \A wd \in Wds : had'[given'[wd]] # {}
  BY CoverFacts DEF Cover, Heard
<1>7. \A p \in DOMAIN watches' : p \in had'[given'[watches'[p]]]
  <2>1. \A p \in DOMAIN watches : watches[p] \in Wds
    BY DEF Inv, TypeOK, TablesOK
  <2> QED BY <1>1, <2>1, CoverFacts DEF Cover, Heard, tables
<1>8. \A a \in Actors : adding'[a] # NoCall => adding'[a].path \in Known'
  BY <1>1, <1>2 DEF Cover, Heard, calls
<1>9. todo' \subseteq Known'
  BY <1>1, <1>2 DEF Cover, Heard, startup
<1> QED BY <1>1, <1>3, <1>4, <1>5, <1>6, <1>7, <1>8, <1>9 DEF Cover, Heard

LEMMA MkdirCover ==
  ASSUME Inv, Cover, NEW d \in Dirs, NEW i \in Inodes, Mkdir(d, i)
  PROVE  Cover'
<1> DEFINE c == [op |-> "create", dir |-> d]
           es == OnMark(RootWd, <<Note(RootWd, "newdir", d)>>)
<1>0. PICK new \in Seq({c}) : notes' = notes \o new /\ (Len(notes) # NotesCap => new = <<c>>)
  <2> DEFINE T == [op : {"create", "remove", "rename"}, dir : Dirs]
  <2>1. /\ notes \in Seq(T) /\ Len(notes) <= NotesCap /\ Len(notes) \in Nat /\ NotesCap \in Nat
    BY BoundAssumption DEF Inv, TypeOK, QueueOK
  <2>2. Tell(<<c>>)
    BY DEF Mkdir
  <2> HIDE DEF c, T
  <2>3. <<c>> \in Seq({c}) /\ Len(<<c>>) = 1
    OBVIOUS
  <2>4. Len(notes) # NotesCap => Len(notes) + 1 <= NotesCap
    BY <2>1
  <2> QED BY <2>1, <2>2, <2>3, <2>4, TellOK
<1>1. /\ had[i] = {} /\ at[d] = NoInode /\ at' = [at EXCEPT ![d] = i]
      /\ had' = [had EXCEPT ![i] = {d}] /\ UNCHANGED <<mark, given>> /\ NotUser
      /\ untold \subseteq untold' /\ Notify(es)
  BY DEF Mkdir, kernel
<1>2. i \in AllInodes /\ RootInode \in AllInodes /\ i # RootInode /\ d \in Places
  BY NameAssumption DEF AllInodes, Places
<1>3. /\ \A j \in AllInodes : had[j] \subseteq had'[j]
      /\ \A j \in AllInodes : j # i => had'[j] = had[j]
      /\ had'[i] = {d} /\ d \in Known'
  BY <1>1, <1>2 DEF Inv, TypeOK, DiskOK, Known
<1>4. /\ at'[d] = i /\ \A e \in Dirs : e # d => at'[e] = at[e]
  BY <1>1, <1>2, ConstantTypes DEF Inv, TypeOK, DiskOK
<1>5. new \in Seq([op : {"create", "remove", "rename"}, dir : Dirs \cap Known'])
      /\ \A n \in DOMAIN new : new[n].op = "create"
  <2> DEFINE S == [op : {"create", "remove", "rename"}, dir : Dirs \cap Known']
  <2>1. {c} \subseteq S /\ c.op = "create"
    BY <1>3
  <2> HIDE DEF c, S
  <2>2. new \in Seq(S)
    BY <2>1, SeqLarger
  <2>3. \A n \in DOMAIN new : new[n] = c
    BY <1>0
  <2> QED BY <2>1, <2>2, <2>3 DEF S
<1>6. RootWd # NoWd => RootWd \in Wds
  BY <1>2, CoverFacts DEF RootWd
<1>7. es \in Seq(KnownNotes') /\ \A j \in AllInodes : es \in Seq(Sparing(j))
  <2>1. CASE RootWd = NoWd
    BY <2>1 DEF OnMark
  <2>2. CASE RootWd # NoWd
    <3> DEFINE note == Note(RootWd, "newdir", d)
    <3>1. note \in KnownNotes' /\ \A j \in AllInodes : note \in Sparing(j)
      BY <1>1, <1>3, <1>6, <2>2 DEF Note, Notes, Wds, KnownNotes, Sparing
    <3>2. es = <<note>>
      BY <2>2 DEF OnMark
    <3> HIDE DEF note, es
    <3> QED BY <3>1, <3>2
  <2> QED BY <2>1, <2>2
<1>8. Heard'
  <2>1. had'[RootInode] = had[RootInode] /\ \A e \in Dirs : at'[e] # RootInode
    BY <1>2, <1>3, <1>4 DEF Cover, Heard
  <2> HIDE DEF es
  <2> QED BY <1>0, <1>1, <1>3, <1>5, <1>7, <2>1, UserHeard
<1>9. ASSUME NEW e \in Dirs, Stable(e)', e # d PROVE Steady(e)'
  <2>1. at'[e] = at[e] /\ at[e] \in AllInodes /\ at[e] # i /\ at[e] # NoInode
    BY <1>1, <1>4, <1>9, CoverFacts, ConstantTypes DEF Stable
  <2>2. Stable(e)
    BY <1>2, <1>3, <1>9, <2>1 DEF Stable, AllInodes
  <2>3. PICK j \in AllInodes : at[e] = j
    BY <2>1
  <2> HIDE DEF es
  <2>4. es \in Seq(Sparing(j)) /\ at'[e] = j /\ mark'[j] = mark[j]
    BY <1>1, <1>7, <2>1, <2>3
  <2> QED BY <1>0, <1>1, <1>3, <1>5, <2>2, <2>3, <2>4, UserSpares
<1>10. ASSUME Stable(d)' PROVE Steady(d)'
  <2>1. d \notin Known
    <3>1. \A j \in Inodes : d \notin had[j]
      BY <1>1, <1>2, <1>3, <1>4, <1>10 DEF Stable, AllInodes
    <3> QED BY <3>1, NameAssumption DEF Cover, Heard, Known, AllInodes
  <2>2. \A wd \in Wds : given[wd] # i
    BY <1>1 DEF Cover, Heard
  <2>3. UNCHANGED <<tables, reader, calls, startup>> /\ Wds' = Wds /\ Notes' = Notes
    BY <1>1 DEF NotUser, Wds, Notes
  <2>4. kq' \in Seq(Notes') /\ buffer' \in Seq(Notes')
    <3>1. Inv'
      BY MkdirInv
    <3> QED BY <3>1 DEF Inv, TypeOK, QueueOK, ReaderOK
  <2>5. Sparing(i)' = Notes'
    BY <1>1, <2>2, <2>3 DEF Sparing, Notes
  <2>6. notes' \in Seq(Creating(d)')
    <3>1. notes \in Seq(KnownChanges) /\ KnownChanges \subseteq Creating(d)'
      BY <1>1, <1>3, <2>1, MoreNames DEF Cover, Heard, KnownChanges, Creating
    <3>2. c \in Creating(d)'
      BY <1>3 DEF Creating, KnownChanges
    <3> HIDE DEF c
    <3>3. notes \in Seq(Creating(d)') /\ new \in Seq(Creating(d)')
      BY <1>0, <3>1, <3>2, SeqLarger
    <3> QED BY <1>0, <3>3, ConcatProperties
  <2>7. d \notin DOMAIN watches'
    <3>1. \A p \in DOMAIN watches : p \in Known
      BY CoverFacts DEF Cover, Heard, Inv, TypeOK, TablesOK, Known
    <3> QED BY <2>1, <2>3, <3>1 DEF tables
  <2>8. removing' # NoWd => removing' \in Wds
    BY <2>3 DEF Inv, TypeOK, CallsOK, calls
  <2>9. Untouched(d)'
    BY <1>1, <1>4, <2>2, <2>3, <2>4, <2>5, <2>6, <2>7, <2>8 DEF Untouched
  <2>10. Told(d)'
    <3>1. CASE Len(notes) # NotesCap
      <4> DEFINE T == [op : {"create", "remove", "rename"}, dir : Dirs]
      <4>1. notes \in Seq(T) /\ c.op = "create" /\ c.dir = d
        BY DEF Inv, TypeOK, QueueOK
      <4> HIDE DEF T, c
      <4>2. notes' = notes \o <<c>>
        BY <1>0, <3>1
      <4>3. Len(notes) + 1 \in DOMAIN notes' /\ notes'[Len(notes) + 1] = c
        BY <4>1, <4>2
      <4> QED BY <4>1, <4>3 DEF Told, Announced
    <3>2. CASE phase # "list" /\ Len(notes) = NotesCap /\ (RootWd = NoWd \/ Len(kq) = KernelCap)
      BY <3>2 DEF Mkdir, Told
    <3>3. CASE RootWd # NoWd /\ Len(kq) # KernelCap
      <4> DEFINE note == Note(RootWd, "newdir", d)
      <4>1. es = <<note>> /\ note \in Notes /\ kq \in Seq(Notes) /\ es \in Seq(Notes)
        BY <1>6, <3>3 DEF OnMark, Note, Notes, Inv, TypeOK, QueueOK
      <4>2. note.op = "newdir" /\ note.dir = d
        BY DEF Note
      <4> HIDE DEF note, es
      <4>3. Len(kq) + 1 \in DOMAIN kq' /\ kq'[Len(kq) + 1] = note
        BY <1>1, <3>3, <4>1, Keeps
      <4> QED BY <4>2, <4>3 DEF Told, Announced
    <3>4. CASE phase = "list"
      BY <2>3, <3>4 DEF Told, startup
    <3> QED BY <3>1, <3>2, <3>3, <3>4
  <2> QED BY <2>9, <2>10 DEF Steady
<1> QED BY <1>8, <1>9, <1>10 DEF Cover

LEMMA RmdirCover ==
  ASSUME Inv, Cover, NEW d \in Dirs, Rmdir(d)
  PROVE  Cover'
<1> DEFINE wd == mark[at[d]]
           r == [op |-> "remove", dir |-> d]
           es == OnMark(wd, <<Note(wd, "self", NoPath), Note(wd, "ignored", NoPath)>>)
<1>1. /\ at[d] # NoInode /\ at' = [at EXCEPT ![d] = NoInode]
      /\ mark' = [mark EXCEPT ![at[d]] = NoWd] /\ UNCHANGED <<had, untold, given>> /\ NotUser
      /\ Tell(<<r>>) /\ Notify(es)
  BY DEF Rmdir
<1>2. d \in Places /\ at[d] \in AllInodes /\ d \in had[at[d]] /\ d \in Known' /\ Known' = Known
  BY <1>1, CoverFacts, ConstantTypes DEF Known
<1>3. PICK new \in Seq([op : {"create", "remove", "rename"}, dir : Dirs \cap Known']) :
        notes' = notes \o new /\ \A n \in DOMAIN new : new[n].dir = d
  <2>1. /\ notes \in Seq([op : {"create", "remove", "rename"}, dir : Dirs])
        /\ Len(notes) <= NotesCap
    BY DEF Inv, TypeOK, QueueOK
  <2> DEFINE S == [op : {"create", "remove", "rename"}, dir : Dirs \cap Known']
  <2>2. {r} \subseteq S /\ r.dir = d
    BY <1>2
  <2> HIDE DEF r, S
  <2>3. <<r>> \in Seq({r})
    OBVIOUS
  <2>4. PICK new \in Seq({r}) : notes' = notes \o new
    BY <1>1, <2>1, <2>3, TellOK
  <2>5. new \in Seq(S)
    BY <2>2, SeqLarger
  <2>6. \A n \in DOMAIN new : new[n].dir = d
    BY <2>2
  <2> QED BY <2>4, <2>5, <2>6 DEF S
<1>4. wd # NoWd => wd \in Wds /\ given[wd] = at[d]
  BY <1>2, CoverFacts
<1>5. es \in Seq(KnownNotes') /\ \A j \in AllInodes : j # at[d] => es \in Seq(Sparing(j))
  <2>1. CASE wd = NoWd
    BY <2>1 DEF OnMark
  <2>2. CASE wd # NoWd
    <3> DEFINE m == Note(wd, "self", NoPath)
               n == Note(wd, "ignored", NoPath)
    <3>1. /\ m \in KnownNotes' /\ n \in KnownNotes'
          /\ \A j \in AllInodes : j # at[d] => m \in Sparing(j) /\ n \in Sparing(j)
      BY <1>1, <1>4, <2>2 DEF Note, Notes, Wds, KnownNotes, Sparing
    <3>2. es = <<m, n>>
      BY <2>2 DEF OnMark
    <3> HIDE DEF m, n, es
    <3> QED BY <3>1, <3>2
  <2> QED BY <2>1, <2>2
<1>6. Heard'
  <2>1. had'[RootInode] = had[RootInode] /\ \A e \in Dirs : at'[e] # RootInode
    BY <1>1, ConstantTypes DEF Cover, Heard, Inv, TypeOK, DiskOK
  <2> HIDE DEF es
  <2> QED BY <1>1, <1>3, <1>5, <2>1, UserHeard
<1>7. ASSUME NEW e \in Dirs, Stable(e)' PROVE Steady(e)'
  <2>1. e # d /\ at'[e] = at[e]
    BY <1>1, <1>2, <1>7, ConstantTypes DEF Stable, Inv, TypeOK, DiskOK
  <2>2. Stable(e) /\ at[e] \in AllInodes
    BY <1>1, <1>7, <2>1, CoverFacts, ConstantTypes DEF Stable
  <2>3. at[e] # at[d]
    BY <1>2, <2>1, <2>2 DEF Stable
  <2>4. mark'[at[e]] = mark[at[e]]
    BY <1>1, <2>2, <2>3 DEF Inv, TypeOK, DiskOK
  <2> HIDE DEF es
  <2> QED BY <1>1, <1>3, <1>5, <2>1, <2>2, <2>3, <2>4, UserSpares
<1> QED BY <1>6, <1>7 DEF Cover

LEMMA RenameCover ==
  ASSUME Inv, Cover, NEW d \in Dirs, NEW e \in Dirs, Rename(d, e)
  PROVE  Cover'
<1> DEFINE wd == mark[at[d]]
           S == [op : {"create", "remove", "rename"}, dir : Dirs \cap Known']
           g == [op |-> "rename", dir |-> d]
           c == [op |-> "create", dir |-> e]
           es == OnMark(RootWd, <<Note(RootWd, "newdir", e)>>) \o
                 OnMark(wd, <<Note(wd, "self", NoPath)>>)
<1>1. /\ at[d] # NoInode /\ at[e] = NoInode
      /\ at' = [at EXCEPT ![d] = NoInode, ![e] = at[d]]
      /\ had' = [had EXCEPT ![at[d]] = @ \cup {e}] /\ UNCHANGED <<mark, given>> /\ NotUser
      /\ untold' = untold /\ (Tell(<<g, c>>) \/ Tell(<<g, c, g>>)) /\ Notify(es)
  BY DEF Rename, kernel
<1>2. d \in Places /\ e \in Places /\ at[d] \in AllInodes /\ d \in had[at[d]] /\ at[d] # RootInode
  BY <1>1, CoverFacts, ConstantTypes DEF Cover, Heard
<1>3. /\ \A j \in AllInodes : had[j] \subseteq had'[j]
      /\ \A j \in AllInodes : j # at[d] => had'[j] = had[j]
      /\ had'[at[d]] = had[at[d]] \cup {e} /\ d \in Known' /\ e \in Known'
  BY <1>1, <1>2 DEF Inv, TypeOK, DiskOK, Known
<1>4. /\ at'[d] = NoInode /\ at'[e] = at[d]
      /\ \A f \in Dirs : f # d /\ f # e => at'[f] = at[f]
  <2>1. d # e /\ at \in [Places -> AllInodes \cup {NoInode}] /\ Dirs \subseteq Places
    BY <1>1, ConstantTypes DEF Inv, TypeOK, DiskOK
  <2> QED BY <1>1, <1>2, <2>1
<1>5. PICK new \in Seq({g, c}) : notes' = notes \o new
  <2>1. /\ notes \in Seq([op : {"create", "remove", "rename"}, dir : Dirs])
        /\ Len(notes) <= NotesCap
    BY DEF Inv, TypeOK, QueueOK
  <2> HIDE DEF g, c
  <2>2. <<g, c>> \in Seq({g, c}) /\ <<g, c, g>> \in Seq({g, c})
    OBVIOUS
  <2> QED BY <1>1, <2>1, <2>2, TellOK
<1>6. new \in Seq(S) /\ \A n \in DOMAIN new : new[n].dir \in {d, e}
  <2>1. g \in S /\ c \in S /\ g.dir = d /\ c.dir = e
    BY <1>3
  <2> HIDE DEF g, c, S
  <2>2. new \in Seq(S)
    BY <2>1, SeqLarger
  <2>3. \A n \in DOMAIN new : new[n] = g \/ new[n] = c
    OBVIOUS
  <2> QED BY <2>1, <2>2, <2>3
<1>7. (wd # NoWd => wd \in Wds /\ given[wd] = at[d]) /\ (RootWd # NoWd => RootWd \in Wds)
  BY <1>2, CoverFacts, ConstantTypes DEF RootWd
<1>8. es \in Seq(KnownNotes') /\ \A j \in AllInodes : j # at[d] => es \in Seq(Sparing(j))
  <2> DEFINE m == Note(RootWd, "newdir", e)
             n == Note(wd, "self", NoPath)
  <2>1. RootWd # NoWd => m \in KnownNotes' /\ \A j \in AllInodes : m \in Sparing(j)
    BY <1>1, <1>3, <1>7 DEF Note, Notes, Wds, KnownNotes, Sparing
  <2>2. wd # NoWd => n \in KnownNotes' /\ \A j \in AllInodes : j # at[d] => n \in Sparing(j)
    BY <1>1, <1>7 DEF Note, Notes, Wds, KnownNotes, Sparing
  <2>3. es = OnMark(RootWd, <<m>>) \o OnMark(wd, <<n>>)
    OBVIOUS
  <2> HIDE DEF m, n, es, wd
  <2>4. /\ OnMark(RootWd, <<m>>) \in Seq(KnownNotes') /\ OnMark(wd, <<n>>) \in Seq(KnownNotes')
        /\ \A j \in AllInodes : j # at[d] => /\ OnMark(RootWd, <<m>>) \in Seq(Sparing(j))
                                             /\ OnMark(wd, <<n>>) \in Seq(Sparing(j))
    BY <2>1, <2>2 DEF OnMark
  <2> QED BY <2>3, <2>4, ConcatProperties
<1>9. Heard'
  <2>1. had'[RootInode] = had[RootInode]
    BY <1>2, <1>3, ConstantTypes
  <2>2. ASSUME NEW f \in Dirs PROVE at'[f] # RootInode
    BY <1>2, <1>4, ConstantTypes DEF Cover, Heard
  <2> HIDE DEF es
  <2> QED BY <1>1, <1>3, <1>5, <1>6, <1>8, <2>1, <2>2, UserHeard
<1>10. ASSUME NEW f \in Dirs, Stable(f)' PROVE Steady(f)'
  <2>1. f # d /\ f # e
    <3>1. f # d
      BY <1>4, <1>10 DEF Stable
    <3>2. d # e
      BY <1>1
    <3>3. ASSUME f = e PROVE had'[at[d]] = {e}
      BY <1>4, <1>10, <3>3 DEF Stable
    <3> QED BY <1>2, <1>3, <3>1, <3>2, <3>3
  <2>2. PICK j \in AllInodes : at[f] = j /\ at'[f] = j
    BY <1>4, <1>10, <2>1, CoverFacts, ConstantTypes DEF Stable
  <2>3. j # at[d]
    BY <1>2, <1>3, <1>10, <2>1, <2>2 DEF Stable
  <2>4. Stable(f)
    BY <1>3, <1>10, <2>1, <2>2, <2>3 DEF Stable, AllInodes
  <2>5. es \in Seq(Sparing(j)) /\ \A n \in DOMAIN new : new[n].dir = f => new[n].op = "create"
    BY <1>6, <1>8, <2>1, <2>3
  <2> HIDE DEF es
  <2> QED BY <1>1, <1>3, <1>5, <1>6, <2>2, <2>4, <2>5, UserSpares
<1> QED BY <1>9, <1>10 DEF Cover

LEMMA ReadCover ==
  ASSUME Inv, Cover, NEW d \in Dirs, Read(d)
  PROVE  Cover'
<1> DEFINE wd == mark[at[d]]
           es == OnMark(wd, <<Note(wd, "access", NoPath)>>)
<1>1. at[d] # NoInode /\ UNCHANGED <<disk, kernel, notes>> /\ NotUser /\ Notify(es)
  BY DEF Read
<1>2. wd # NoWd => wd \in Wds
  BY <1>1, CoverFacts, ConstantTypes
<1>3. es \in Seq(KnownNotes) /\ \A j : es \in Seq(Sparing(j))
  <2>1. CASE wd = NoWd
    BY <2>1 DEF OnMark
  <2>2. CASE wd # NoWd
    <3> DEFINE n == Note(wd, "access", NoPath)
    <3>1. n \in KnownNotes /\ \A j : n \in Sparing(j)
      BY <1>2, <2>2 DEF Note, Notes, KnownNotes, Sparing
    <3>2. es = <<n>>
      BY <2>2 DEF OnMark
    <3> HIDE DEF n, es
    <3> QED BY <3>1, <3>2
  <2> QED BY <2>1, <2>2
<1> HIDE DEF es
<1>4. /\ kq' \in Seq(KnownNotes) /\ \A i : kq \in Seq(Sparing(i)) => kq' \in Seq(Sparing(i))
      /\ \A n \in DOMAIN kq : n \in DOMAIN kq' /\ kq'[n] = kq[n]
  BY <1>1, <1>3, Queued, Keeps DEF Cover, Heard
<1>5. UNCHANGED <<tables, buffer, calls, startup>>
  BY <1>1 DEF NotUser, reader
<1>6. Heard'
  BY <1>1, <1>4, <1>5, SameNames DEF Cover, Heard, disk, kernel, tables, calls, startup
<1>7. ASSUME NEW e \in Dirs, Stable(e) PROVE Steady(e)'
  <2>1. Untouched(e) /\ (e \notin Ignored => Told(e))
    BY <1>7 DEF Cover, Steady
  <2>2. Untouched(e)'
    BY <1>1, <1>4, <1>5, <2>1, SameNames DEF Untouched, disk, kernel, tables, calls
  <2>3. Told(e) => Told(e)'
    BY <1>1, <1>4, <1>5 DEF Told, Announced, disk, tables, calls, startup
  <2> QED BY <2>1, <2>2, <2>3 DEF Steady
<1> QED BY <1>1, <1>6, <1>7, SameNames DEF Cover

-----------------------------------------------------------------------------
(***************************************************************************)
(* The calls.                                                              *)
(***************************************************************************)
LEMMA AddCheckCover ==
  ASSUME Inv, Cover, NEW a \in Actors, AddCheck(a)
  PROVE  Cover'
<1> DEFINE p == adding[a].path
<1>1. /\ adding[a].stage = "check"
      /\ adding' = [adding EXCEPT ![a] = IF p \in DOMAIN watches THEN NoCall
                                         ELSE Call(p, "watch", NoWd)]
      /\ UNCHANGED <<disk, kernel, queue, notes, tables, reader, removing, startup, changes>>
  BY DEF AddCheck
<1>2. /\ \A b \in Actors : b # a => adding'[b] = adding[b]
      /\ p \in DOMAIN watches \/ (adding'[a].path = p /\ adding[a] # NoCall)
      /\ adding'[a] = NoCall \/ adding'[a].path = p
  BY <1>1 DEF Inv, TypeOK, CallsOK, Call, NoCall
<1>3. Heard'
  BY <1>1, <1>2, SameNames
     DEF Cover, Heard, disk, kernel, queue, tables, reader, startup
<1>4. ASSUME NEW d \in Dirs, Stable(d) PROVE Steady(d)'
  <2>1. Untouched(d)'
    BY <1>1, <1>4, SameNames
       DEF Cover, Steady, Untouched, disk, kernel, queue, tables, reader
  <2>2. Told(d) => Told(d)'
    BY <1>1, <1>2 DEF Told, Announced, disk, queue, reader, tables, startup
  <2> QED BY <1>4, <2>1, <2>2 DEF Cover, Steady
<1> QED BY <1>1, <1>3, <1>4, SameNames DEF Cover

LEMMA AddRecordCover ==
  ASSUME Inv, Cover, NEW a \in Actors, AddRecord(a)
  PROVE  Cover'
<1> DEFINE p == adding[a].path
           wd == adding[a].wd
<1>1. /\ adding[a].stage = "record"
      /\ paths' = With(paths, wd, p) /\ watches' = With(watches, p, wd)
      /\ adding' = [adding EXCEPT ![a] = NoCall]
      /\ UNCHANGED <<disk, kernel, queue, notes, reader, removing, startup, changes>>
  BY DEF AddRecord
<1>2. /\ \A b \in Actors : b # a => adding'[b] = adding[b]
      /\ adding'[a] = NoCall /\ p \in Places /\ wd \in Wds /\ p \in had[given[wd]]
  BY <1>1, StageOf DEF Inv, TypeOK, CallsOK, Names
<1> HIDE DEF p, wd
<1>3. Heard'
  BY <1>1, <1>2, SameNames
     DEF Cover, Heard, With, disk, kernel, queue, reader, startup
<1>4. ASSUME NEW d \in Dirs, Stable(d) PROVE Steady(d)'
  <2>0. at[d] \in AllInodes /\ at[d] # NoInode
    BY <1>4, CoverFacts, ConstantTypes DEF Stable
  <2>1. p = d <=> given[wd] = at[d]
    BY <1>2, <1>4, CoverFacts DEF Stable
  <2>2. Untouched(d)
    BY <1>4 DEF Cover, Steady
  <2>3. given[wd] = at[d] => mark[at[d]] = wd /\ wd # NoWd
    BY <1>2, <2>2 DEF Untouched, Inv, TypeOK, DiskOK, Wds, NoWd
  <2>4. d \in DOMAIN watches' =>
          /\ watches'[d] = mark[at[d]] /\ mark[at[d]] # NoWd
          /\ mark[at[d]] \in DOMAIN paths' /\ paths'[mark[at[d]]] = d
    <3>1. CASE p = d
      BY <1>1, <2>1, <2>3, <3>1 DEF With
    <3>2. CASE p # d
      <4>1. mark[at[d]] # NoWd => mark[at[d]] # wd
        BY <2>0, <2>1, <3>2, CoverFacts
      <4> QED BY <1>1, <2>2, <3>2, <4>1 DEF With, Untouched
    <3> QED BY <3>1, <3>2
  <2>5. Untouched(d)'
    BY <1>1, <2>2, <2>4, SameNames DEF Untouched, disk, kernel, queue, reader
  <2>6. Told(d) => Told(d)'
    BY <1>1, <1>2 DEF Told, Announced, With, disk, queue, reader, startup, p
  <2> QED BY <1>4, <2>5, <2>6 DEF Cover, Steady
<1> QED BY <1>1, <1>3, <1>4, SameNames DEF Cover

LEMMA AddWatchCover ==
  ASSUME Inv, Cover, NEW a \in Actors, AddWatch(a)
  PROVE  Cover'
<1> DEFINE p == adding[a].path
           i == at[p]
<1>1. /\ adding[a].stage = "watch" /\ p \in Places /\ p \in Known
      /\ UNCHANGED <<disk, queue, notes, tables, reader, removing, todo, changes>>
  <2>1. adding[a].stage = "watch"
        /\ UNCHANGED <<disk, queue, notes, tables, reader, removing, todo, changes>>
    BY DEF AddWatch
  <2>2. p \in Places
    BY <2>1, StageOf DEF Inv
  <2>3. NoCall.stage = "none"
    BY DEF NoCall, Call
  <2>4. adding[a] # NoCall
    BY <2>1, <2>3
  <2> QED BY <2>1, <2>2, <2>4 DEF Cover, Heard
<1>2. CASE i = NoInode
  <2>1. /\ adding' = [adding EXCEPT ![a] = NoCall] /\ UNCHANGED kernel
        /\ phase' = IF phase = "walk" THEN "stopped" ELSE phase
    BY <1>2 DEF AddWatch
  <2>2. \A b \in Actors : adding'[b] = IF b = a THEN NoCall ELSE adding[b]
    BY <2>1 DEF Inv, TypeOK, CallsOK
  <2>3. Heard'
    BY <1>1, <2>1, <2>2, SameNames
       DEF Cover, Heard, disk, kernel, queue, tables, reader
  <2>4. ASSUME NEW d \in Dirs, Stable(d) PROVE Steady(d)'
    <3>1. Untouched(d)'
      BY <1>1, <2>1, <2>4, SameNames
         DEF Cover, Steady, Untouched, disk, kernel, queue, tables, reader
    <3>2. d # p
      BY <1>2, <2>4 DEF Stable
    <3>3. Told(d) => Told(d)'
      BY <1>1, <2>1, <2>2, <3>2 DEF Told, Announced, disk, queue, reader, tables
    <3> QED BY <2>4, <3>1, <3>3 DEF Cover, Steady
  <2> QED BY <1>1, <2>1, <2>3, <2>4, SameNames DEF Cover
<1>3. CASE i # NoInode
  <2>1. /\ IF mark[i] = NoWd
           THEN given' = Append(given, i) /\ mark' = [mark EXCEPT ![i] = Len(given) + 1]
           ELSE UNCHANGED kernel
        /\ adding' = [adding EXCEPT ![a] = Call(p, "record", mark'[i])] /\ UNCHANGED phase
    BY <1>3 DEF AddWatch
  <2>2. /\ i \in AllInodes /\ p \in had[i] /\ given \in Seq(AllInodes)
        /\ mark \in [AllInodes -> Wds \cup {NoWd}]
    BY <1>1, <1>3, CoverFacts DEF Inv, TypeOK, DiskOK
  <2> HIDE DEF i
  <2>3. /\ Wds \subseteq Wds' /\ \A wd \in Wds : given'[wd] = given[wd]
        /\ \A wd \in Wds' \ Wds : given'[wd] = i /\ mark[i] = NoWd /\ mark'[i] = wd
        /\ \A j \in AllInodes : mark[j] # NoWd => mark'[j] = mark[j]
    BY <2>1, <2>2 DEF Wds, kernel
  <2>4. \A b \in Actors : adding'[b].path = adding[b].path /\ (b # a => adding'[b] = adding[b])
    BY <2>1 DEF Inv, TypeOK, CallsOK, Call
  <2>5. /\ KnownNotes \subseteq KnownNotes' /\ \A j : Sparing(j) \subseteq Sparing(j)'
        /\ Known' = Known /\ KnownChanges' = KnownChanges /\ \A d : Creating(d)' = Creating(d)
    BY <1>1, <2>3, MoreNames DEF disk, Known, KnownChanges, Creating, Wds
  <2>6. Heard'
    <3>1. kq' \in Seq(KnownNotes') /\ buffer' \in Seq(KnownNotes') /\ notes' \in Seq(KnownChanges')
      BY <1>1, <2>5, SeqLarger DEF Cover, Heard, queue, reader
    <3>2. \A wd \in Wds' : had[given'[wd]] # {}
      BY <2>2, <2>3 DEF Cover, Heard
    <3>3. \A q \in DOMAIN watches : q \in had[given'[watches[q]]]
      <4>1. \A q \in DOMAIN watches : watches[q] \in Wds
        BY DEF Inv, TypeOK, TablesOK
      <4> QED BY <2>3, <4>1 DEF Cover, Heard
    <3>4. \A b \in Actors : adding'[b] # NoCall => adding'[b].path \in Known'
      BY <1>1, <2>4, <2>5 DEF Cover, Heard
    <3> QED BY <1>1, <2>5, <3>1, <3>2, <3>3, <3>4 DEF Cover, Heard, disk, tables
  <2>7. ASSUME NEW d \in Dirs, Stable(d) PROVE Steady(d)'
    <3> DEFINE j == at[d]
    <3>1. Untouched(d) /\ (d \notin Ignored => Told(d))
      BY <2>7 DEF Cover, Steady
    <3>2. /\ kq' \in Seq(Sparing(j)') /\ buffer' \in Seq(Sparing(j)')
          /\ notes' \in Seq(Creating(d)')
      BY <1>1, <2>5, <3>1, SeqLarger DEF Untouched, queue, reader, disk
    <3>3. removing' # NoWd => given'[removing'] # j
      BY <1>1, <2>3, <3>1 DEF Untouched, Inv, TypeOK, CallsOK
    <3>4. \A wd \in Wds' : given'[wd] = j => mark'[j] = wd
      <4>1. ASSUME NEW wd \in Wds, given[wd] = j PROVE mark'[j] = wd
        <5>1. mark[j] = wd /\ wd # NoWd /\ j \in AllInodes
          BY <2>2, <3>1, <4>1 DEF Untouched, Wds, NoWd
        <5> QED BY <2>3, <5>1
      <4> QED BY <2>3, <4>1
    <3>5. d \in DOMAIN watches' =>
            /\ watches'[d] = mark'[j] /\ mark'[j] # NoWd
            /\ mark'[j] \in DOMAIN paths' /\ paths'[mark'[j]] = d
      BY <1>1, <2>3, <2>7, <3>1, CoverFacts, ConstantTypes DEF Untouched, Stable, tables
    <3>6. Untouched(d)'
      BY <1>1, <3>2, <3>3, <3>4, <3>5 DEF Untouched, disk
    <3>7. Told(d) => Told(d)'
      BY <1>1, <2>1, <2>4 DEF Told, Announced, disk, queue, reader, tables
    <3> QED BY <3>1, <3>6, <3>7 DEF Steady
  <2>8. \A d : Stable(d)' <=> Stable(d)
    BY <1>1 DEF Stable, disk
  <2> QED BY <2>6, <2>7, <2>8 DEF Cover
<1> QED BY <1>2, <1>3

LEMMA RemoveWatchCover ==
  ASSUME Inv, Cover, RemoveWatch
  PROVE  Cover'
<1> DEFINE es == IF Live(removing) THEN <<Note(removing, "ignored", NoPath)>> ELSE <<>>
<1>1. /\ removing # NoWd /\ removing' = NoWd /\ Notify(es)
      /\ mark' = [i \in AllInodes |-> IF mark[i] = removing THEN NoWd ELSE mark[i]]
      /\ UNCHANGED <<disk, given, notes, tables, reader, adding, startup, changes>>
  BY DEF RemoveWatch
<1>2. removing \in Wds
  BY <1>1 DEF Inv, TypeOK, CallsOK
<1>3. /\ es \in Seq(KnownNotes)
      /\ \A j : given[removing] # j => es \in Seq(Sparing(j))
  <2> DEFINE n == Note(removing, "ignored", NoPath)
  <2>1. n \in KnownNotes /\ \A j : given[removing] # j => n \in Sparing(j)
    BY <1>2 DEF Note, Notes, KnownNotes, Sparing
  <2>2. es \in {<<n>>, <<>>}
    OBVIOUS
  <2> HIDE DEF n, es
  <2>3. CASE es = <<n>>
    BY <2>1, <2>3
  <2>4. CASE es = <<>>
    BY <2>4
  <2> QED BY <2>2, <2>3, <2>4
<1> HIDE DEF es
<1>4. /\ Known' = Known /\ KnownNotes' = KnownNotes /\ KnownChanges' = KnownChanges
      /\ Wds' = Wds /\ \A j : Sparing(j)' = Sparing(j)
      /\ \A d : Creating(d)' = Creating(d) /\ (Stable(d)' <=> Stable(d))
  BY <1>1 DEF Known, KnownNotes, KnownChanges, Notes, Wds, Sparing, Creating, Stable, disk
<1>5. Heard'
  <2>1. kq' \in Seq(KnownNotes)
    BY <1>1, <1>3, Queued DEF Cover, Heard
  <2> QED BY <1>1, <1>4, <2>1 DEF Cover, Heard, disk, tables, reader, startup
<1>6. ASSUME NEW d \in Dirs, Stable(d) PROVE Steady(d)'
  <2>1. Untouched(d) /\ (d \notin Ignored => Told(d))
    BY <1>6 DEF Cover, Steady
  <2>2. given[removing] # at[d]
    BY <1>1, <2>1 DEF Untouched
  <2>3. kq' \in Seq(Sparing(at[d]))
    BY <1>1, <1>3, <2>1, <2>2, Queued DEF Untouched
  <2>4. mark'[at[d]] = mark[at[d]]
    BY <1>1, <1>6, <2>2, CoverFacts, ConstantTypes DEF Stable
  <2>5. Untouched(d)'
    BY <1>1, <1>4, <2>1, <2>3, <2>4 DEF Untouched, disk, tables, reader
  <2>6. Told(d) => Told(d)'
    <3>1. \A n \in DOMAIN kq : n \in DOMAIN kq' /\ kq'[n] = kq[n]
      BY <1>1, <1>3, Keeps DEF Cover, Heard
    <3> QED BY <1>1, <3>1 DEF Told, Announced, disk, reader, tables, startup
  <2> QED BY <2>1, <2>5, <2>6 DEF Steady
<1> QED BY <1>4, <1>5, <1>6 DEF Cover

-----------------------------------------------------------------------------
(***************************************************************************)
(* The walk, Run and the service loop: none of their steps changes the     *)
(* disk or gives out a descriptor.                                         *)
(***************************************************************************)
\* The head of a sequence over a set, and its tail.
LEMMA TakeOne ==
  ASSUME NEW S, NEW s \in Seq(S), s # <<>>
  PROVE  /\ Head(s) \in S /\ Tail(s) \in Seq(S)
         /\ \A n \in DOMAIN s : s[n] = Head(s) \/ (n - 1 \in DOMAIN Tail(s) /\ Tail(s)[n - 1] = s[n])
OBVIOUS

\* What is announced still is once the head is taken, unless the head said so.
LEMMA StillAnnounced ==
  ASSUME NEW S, NEW s \in Seq(S), s # <<>>, NEW d, Announced(s, d)
  PROVE  \/ Announced(Tail(s), d)
         \/ Head(s).op \in {"create", "newdir"} /\ Head(s).dir = d
BY TakeOne DEF Announced

\* A step that begins a call of a, which had none, or does not, and leaves the
\* tables alone.
LEMMA BeginsCover ==
  ASSUME Inv, Cover, UNCHANGED <<disk, kernel, queue, tables, removing>>,
         NEW a \in Actors, adding[a] = NoCall, NEW p \in Known,
         adding' \in {adding, [adding EXCEPT ![a] = Call(p, "check", NoWd)]},
         buffer' \in Seq(KnownNotes), notes' \in Seq(KnownChanges), todo' \subseteq Known,
         \A i : buffer \in Seq(Sparing(i)) => buffer' \in Seq(Sparing(i)),
         \A d \in Dirs : notes \in Seq(Creating(d)) => notes' \in Seq(Creating(d)),
         \A d \in Dirs : Stable(d) /\ d \notin Ignored /\ Told(d) => Told(d)'
  PROVE  Cover'
<1>1. \A b \in Actors : adding'[b] = adding[b] \/ adding'[b].path = p
  BY DEF Inv, TypeOK, CallsOK, Call
<1>2. Heard'
  BY <1>1, SameNames DEF Cover, Heard, disk, kernel, queue, tables
<1>3. \A d \in Dirs : Stable(d) => Steady(d)'
  BY SameNames DEF Cover, Steady, Untouched, disk, kernel, queue, tables
<1> QED BY <1>2, <1>3, SameNames DEF Cover

LEMMA WalkListCover ==
  ASSUME Inv, Cover, WalkList
  PROVE  Cover'
<1>1. /\ phase' = "walk" /\ todo' = {d \in Dirs : at[d] # NoInode}
      /\ adding' = [adding EXCEPT !["service"] = Call(Root, "check", NoWd)]
      /\ UNCHANGED <<disk, kernel, queue, notes, tables, reader, removing, changes>>
  BY DEF WalkList
<1>2. \A b \in Actors : adding'[b] = adding[b] \/ adding'[b].path = Root
  BY <1>1 DEF Inv, TypeOK, CallsOK, Call
<1>3. Root \in Known /\ todo' \subseteq Known
  <2>1. Root \in had[RootInode]
    BY DEF Cover, Heard
  <2> QED BY <1>1, <2>1, CoverFacts, ConstantTypes DEF Known
<1>4. Heard'
  BY <1>1, <1>2, <1>3, SameNames DEF Cover, Heard, disk, kernel, queue, tables, reader
<1>5. \A d \in Dirs : Stable(d) => Steady(d)'
  BY <1>1, SameNames
     DEF Cover, Steady, Untouched, Told, Announced, Stable, disk, kernel, queue, tables, reader
<1> QED BY <1>1, <1>4, <1>5, SameNames DEF Cover

LEMMA WalkVisitCover ==
  ASSUME Inv, Cover, NEW d \in Dirs, WalkVisit(d)
  PROVE  Cover'
<1>1. /\ adding["service"] = NoCall /\ "service" \in Actors /\ d \in Known
      /\ todo' = todo \ {d} /\ d \in todo
      /\ adding' = IF d \in Ignored \/ at[d] = NoInode THEN adding
                   ELSE [adding EXCEPT !["service"] = Call(d, "check", NoWd)]
      /\ UNCHANGED <<disk, kernel, queue, notes, tables, reader, removing, phase>>
  BY DEF WalkVisit, Actors, Cover, Heard
<1>2. \A b \in Actors : b # "service" => adding'[b] = adding[b]
  BY <1>1 DEF Inv, TypeOK, CallsOK
<1>3. d \notin Ignored /\ at[d] # NoInode => adding'["service"].path = d
  BY <1>1 DEF Inv, TypeOK, CallsOK, Call
<1>4. \A e \in Dirs : NoCall.path # e
  BY NameAssumption DEF NoCall, Call, Places
<1>5. ASSUME NEW e \in Dirs, Stable(e), e \notin Ignored, Told(e) PROVE Told(e)'
  BY <1>1, <1>2, <1>3, <1>4, <1>5 DEF Told, Announced, Stable, disk, queue, reader, tables
<1>6. buffer' \in Seq(KnownNotes) /\ notes' \in Seq(KnownChanges) /\ todo' \subseteq Known
  BY <1>1 DEF Cover, Heard, reader
<1>7. buffer' = buffer /\ notes' = notes
  BY <1>1 DEF reader
<1> QED BY <1>1, <1>5, <1>6, <1>7, BeginsCover

\* The end of the walk, and of the service: what the walk has visited is told of.
LEMMA PhaseCover ==
  ASSUME Inv, Cover, WalkDone \/ Stop
  PROVE  Cover'
<1>1. /\ UNCHANGED <<disk, kernel, queue, notes, tables, reader, calls, todo, changes>>
      /\ phase' = "stopped" \/ (phase = "walk" /\ todo = {})
  BY DEF WalkDone, Stop
<1>2. Heard'
  BY <1>1, SameNames DEF Cover, Heard, disk, kernel, queue, tables, reader, calls
<1>3. \A d \in Dirs : Stable(d) => Steady(d)'
  BY <1>1, SameNames
     DEF Cover, Steady, Untouched, Told, Announced, disk, kernel, queue, tables, reader, calls
<1> QED BY <1>1, <1>2, <1>3, SameNames DEF Cover

\* A step of Run or of the loop that only takes notifications, or reads, out.
LEMMA TakesCover ==
  ASSUME Inv, Cover, ReadBuffer \/ HandleAccess \/ SendRead \/ HandleRead
  PROVE  Cover'
<1>1. /\ UNCHANGED <<disk, kernel, notes, tables, calls, startup>>
      /\ \/ buffer = <<>> /\ buffer' = kq /\ kq' = <<>>
         \/ buffer # <<>> /\ Head(buffer).op = "access" /\ buffer' = Tail(buffer) /\ UNCHANGED kq
         \/ UNCHANGED <<kq, buffer>>
  BY DEF ReadBuffer, HandleAccess, SendRead, HandleRead, Handle, queue
<1>2. ASSUME NEW S, kq \in Seq(S), buffer \in Seq(S)
      PROVE  kq' \in Seq(S) /\ buffer' \in Seq(S)
  <2>1. <<>> \in Seq(S) /\ (buffer # <<>> => Tail(buffer) \in Seq(S))
    BY <1>2, TakeOne
  <2> QED BY <1>1, <1>2, <2>1
<1>3. Heard'
  BY <1>1, <1>2, SameNames DEF Cover, Heard, disk, kernel, tables, calls, startup
<1>4. \A d : Announced(kq, d) \/ Announced(buffer, d) =>
             (Announced(kq, d) \/ Announced(buffer, d))'
  <2>1. CASE buffer # <<>> /\ Head(buffer).op = "access" /\ buffer' = Tail(buffer) /\ UNCHANGED kq
    BY <2>1, StillAnnounced DEF Inv, TypeOK, ReaderOK, Announced
  <2> QED BY <1>1, <2>1 DEF Announced
<1>5. \A d \in Dirs : Stable(d) => Steady(d)'
  BY <1>1, <1>2, <1>4, SameNames
     DEF Cover, Steady, Untouched, Told, Announced, disk, kernel, tables, calls, startup
<1> QED BY <1>1, <1>3, <1>5, SameNames DEF Cover

LEMMA HandleSelfCover ==
  ASSUME Inv, Cover, HandleSelf
  PROVE  Cover'
<1> DEFINE n == Head(buffer)
           q == PathOf(n.wd)
<1>1. /\ UNCHANGED <<disk, kernel, queue, notes, calls, startup>>
      /\ buffer # <<>> /\ n.op \in {"self", "ignored"} /\ buffer' = Tail(buffer)
      /\ paths' = Without(paths, n.wd) /\ watches' = Without(watches, q)
  BY DEF HandleSelf, Handle
<1>2. \A S : buffer \in Seq(S) => n \in S /\ buffer' \in Seq(S)
  BY <1>1, TakeOne
<1>3. n \in Notes /\ n.wd \in Wds
  BY <1>2 DEF Inv, TypeOK, ReaderOK, Notes
<1> HIDE DEF n
<1>4. Heard'
  BY <1>1, <1>2, SameNames DEF Cover, Heard, Without, disk, kernel, queue, calls, startup
<1>5. ASSUME NEW d \in Dirs, Stable(d) PROVE Steady(d)'
  <2>1. Untouched(d) /\ at[d] \in AllInodes
    BY <1>5, CoverFacts, ConstantTypes DEF Cover, Steady, Stable
  <2>2. given[n.wd] # at[d]
    BY <1>1, <1>2, <2>1 DEF Untouched, Sparing
  <2>3. q # d
    <3>1. n.wd \in DOMAIN paths => paths[n.wd] \in had[given[n.wd]]
      BY DEF Inv, Names
    <3>2. d # NoPath
      BY ConstantTypes
    <3> QED BY <1>3, <1>5, <2>2, <3>1, <3>2, CoverFacts DEF PathOf
  <2>4. mark[at[d]] # NoWd => mark[at[d]] # n.wd
    BY <2>1, <2>2, CoverFacts
  <2>5. Untouched(d)'
    BY <1>1, <1>2, <2>1, <2>3, <2>4, SameNames
       DEF Untouched, Without, disk, kernel, queue, calls
  <2>6. Told(d) => Told(d)'
    <3>1. Announced(buffer, d) => Announced(buffer, d)'
      BY <1>1, StillAnnounced DEF n, Inv, TypeOK, ReaderOK, Announced
    <3> QED BY <1>1, <2>3, <3>1 DEF Told, Announced, Without, disk, queue, calls, startup
  <2> QED BY <1>5, <2>5, <2>6 DEF Cover, Steady
<1> QED BY <1>1, <1>4, <1>5, SameNames DEF Cover

LEMMA HandleNewDirCover ==
  ASSUME Inv, Cover, HandleNewDir
  PROVE  Cover'
<1> DEFINE n == Head(buffer)
<1>1. /\ UNCHANGED <<disk, kernel, queue, notes, tables, removing, startup>>
      /\ buffer # <<>> /\ n.op = "newdir" /\ buffer' = Tail(buffer)
      /\ adding["run"] = NoCall /\ "run" \in Actors
      /\ adding' = [adding EXCEPT !["run"] = Call(n.dir, "check", NoWd)]
  BY DEF HandleNewDir, Handle, Running, Actors
<1>2. \A S : buffer \in Seq(S) => n \in S /\ buffer' \in Seq(S)
  BY <1>1, TakeOne
<1>3. n.dir \in Known /\ buffer' \in Seq(KnownNotes)
  BY <1>1, <1>2 DEF Cover, Heard, KnownNotes
<1>4. \A b \in Actors : adding[b] # NoCall => adding'[b] = adding[b]
  BY <1>1 DEF Inv, TypeOK, CallsOK
<1>5. \A d \in Dirs : NoCall.path # d
  BY NameAssumption DEF NoCall, Call, Places
<1>6. \A d \in Dirs : Told(d) => Told(d)'
  <2>1. "run" \in Actors /\ adding'["run"].path = n.dir
    BY <1>1 DEF Inv, TypeOK, CallsOK, Call
  <2>2. \A d : Announced(buffer, d) => n.dir = d \/ Announced(buffer', d)
    BY <1>1, StillAnnounced DEF Inv, TypeOK, ReaderOK
  <2> HIDE DEF n
  <2> QED BY <1>1, <1>4, <1>5, <2>1, <2>2 DEF Told, Announced, disk, queue, tables, startup
<1>7. notes' \in Seq(KnownChanges) /\ todo' \subseteq Known
  BY <1>1 DEF Cover, Heard, startup
<1> HIDE DEF n
<1> QED BY <1>1, <1>2, <1>3, <1>6, <1>7, BeginsCover

LEMMA HandleCreateCover ==
  ASSUME Inv, Cover, HandleCreate
  PROVE  Cover'
<1> DEFINE n == Head(notes)
           p == n.dir
<1>1. /\ UNCHANGED <<disk, kernel, queue, tables, reader, removing, startup>>
      /\ notes # <<>> /\ n.op = "create" /\ notes' = Tail(notes)
      /\ adding["service"] = NoCall /\ "service" \in Actors
      /\ adding' = IF p \in Ignored \/ at[p] = NoInode THEN adding
                   ELSE [adding EXCEPT !["service"] = Call(p, "check", NoWd)]
  BY DEF HandleCreate, Receive, Selecting, Actors
<1>2. \A S : notes \in Seq(S) => n \in S /\ notes' \in Seq(S)
  BY <1>1, TakeOne
<1>3. p \in Known /\ notes' \in Seq(KnownChanges)
  <2>1. n \in KnownChanges /\ notes' \in Seq(KnownChanges)
    BY <1>2 DEF Cover, Heard
  <2> QED BY <2>1 DEF KnownChanges
<1>4. \A m \in DOMAIN notes : notes[m] = n \/ \E k \in DOMAIN notes' : notes'[k] = notes[m]
  BY <1>1, TakeOne DEF Cover, Heard
<1> HIDE DEF n
<1>5. \A b \in Actors : adding[b] # NoCall => adding'[b] = adding[b]
  BY <1>1 DEF Inv, TypeOK, CallsOK
<1>6. p \notin Ignored /\ at[p] # NoInode => adding'["service"].path = p
  BY <1>1 DEF Inv, TypeOK, CallsOK, Call
<1>7. \A d \in Dirs : NoCall.path # d
  BY NameAssumption DEF NoCall, Call, Places
<1>8. ASSUME NEW d \in Dirs, Stable(d), d \notin Ignored, Told(d) PROVE Told(d)'
  BY <1>1, <1>4, <1>5, <1>6, <1>7, <1>8
     DEF Told, Announced, Stable, disk, queue, reader, tables, startup
<1>9. buffer' = buffer /\ buffer' \in Seq(KnownNotes) /\ todo' \subseteq Known
  BY <1>1 DEF Cover, Heard, reader, startup
<1> HIDE DEF p
<1> QED BY <1>1, <1>2, <1>3, <1>8, <1>9, BeginsCover

LEMMA HandleGoneCover ==
  ASSUME Inv, Cover, HandleGone
  PROVE  Cover'
<1> DEFINE n == Head(notes)
           p == n.dir
<1>1. /\ UNCHANGED <<disk, kernel, queue, reader, adding, startup>>
      /\ notes # <<>> /\ n.op \in {"remove", "rename"} /\ notes' = Tail(notes)
      /\ removing = NoWd /\ (UNCHANGED <<tables, removing>> \/ RemoveEntry(p))
  BY DEF HandleGone, Receive, Selecting
<1>2. \A S : notes \in Seq(S) => n \in S /\ notes' \in Seq(S)
  BY <1>1, TakeOne
<1>3. \A m \in DOMAIN notes : notes[m] = n \/ \E k \in DOMAIN notes' : notes'[k] = notes[m]
  BY <1>1, TakeOne DEF Cover, Heard
<1> HIDE DEF n
<1>4. \/ UNCHANGED <<tables, removing>>
      \/ /\ p \in DOMAIN watches /\ removing' = watches[p]
         /\ watches' = Without(watches, p) /\ paths' = Without(paths, watches[p])
  BY <1>1 DEF RemoveEntry
<1> HIDE DEF p
<1>5. Heard'
  BY <1>1, <1>2, <1>4, SameNames
     DEF Cover, Heard, Without, disk, kernel, queue, reader, startup, tables
<1>6. ASSUME NEW d \in Dirs, Stable(d) PROVE Steady(d)'
  <2>1. Untouched(d) /\ at[d] \in AllInodes
    BY <1>6, CoverFacts, ConstantTypes DEF Cover, Steady, Stable
  <2>2. p # d
    BY <1>1, <1>2, <2>1 DEF Untouched, Creating, p
  <2>3. p \in DOMAIN watches => watches[p] \in Wds /\ given[watches[p]] # at[d]
    BY <1>6, <2>2 DEF Inv, TypeOK, TablesOK, Cover, Heard, Stable
  <2>4. p \in DOMAIN watches /\ mark[at[d]] # NoWd => mark[at[d]] # watches[p]
    BY <2>1, <2>3, CoverFacts
  <2>5. Untouched(d)'
    BY <1>1, <1>2, <1>4, <2>1, <2>2, <2>3, <2>4, SameNames
       DEF Untouched, Without, disk, kernel, queue, reader, tables
  <2>6. Told(d) => Told(d)'
    BY <1>1, <1>3, <1>4, <2>2 DEF Told, Announced, Without, disk, queue, reader, startup, tables
  <2> QED BY <1>6, <2>5, <2>6 DEF Cover, Steady
<1> QED BY <1>1, <1>5, <1>6, SameNames DEF Cover

-----------------------------------------------------------------------------
LEMMA NextCover == Inv /\ Cover /\ [Next]_vars => Cover'
<1> SUFFICES ASSUME Inv, Cover, [Next]_vars PROVE Cover'
  OBVIOUS
<1>1. CASE UserStep
  BY <1>1, MkdirCover, RmdirCover, RenameCover, ReadCover DEF UserStep
<1>2. CASE WalkList \/ WalkDone \/ Stop
  BY <1>2, WalkListCover, PhaseCover
<1>3. CASE \E d \in Dirs : WalkVisit(d)
  BY <1>3, WalkVisitCover
<1>4. CASE \E a \in Actors : AddStep(a)
  BY <1>4, AddCheckCover, AddWatchCover, AddRecordCover DEF AddStep
<1>5. CASE RunStep
  BY <1>5, TakesCover, HandleSelfCover, HandleNewDirCover DEF RunStep
<1>6. CASE ServiceStep
  BY <1>6, TakesCover, HandleCreateCover, HandleGoneCover, RemoveWatchCover DEF ServiceStep
<1>7. CASE UNCHANGED vars
  <2>1. UNCHANGED <<disk, kernel, queue, notes, tables, reader, calls, startup>>
    BY <1>7 DEF vars
  <2> QED BY <2>1, SameNames
     DEF Cover, Heard, Steady, Untouched, Told, Announced, disk, kernel, queue, tables, reader,
         calls, startup
<1> QED BY <1>1, <1>2, <1>3, <1>4, <1>5, <1>6, <1>7 DEF Next, Terminated

\* StableStays: a directory that has had one name, which no other directory has had,
\* is watched and known by that name whenever all is worked off, for any
\* directories and capacities and whatever happens to the others.  Both queues
\* may overflow; what is needed is that one of them took note of the directory
\* when it was made (AddPath, RemovePath, removeWatchDescriptor).
THEOREM StableStays == Spec => []StableCovered
<1>1. Inv /\ Cover => StableCovered
  <2> SUFFICES ASSUME Inv, Cover, Quiet, NEW d \in Dirs \ Ignored, Stable(d), d \notin untold
               PROVE  Covered(d)
    BY DEF StableCovered
  <2>1. Untouched(d) /\ Told(d)
    BY DEF Cover, Steady
  <2>2. \A a \in Actors : adding[a].path # d
    BY NameAssumption DEF Quiet, NoCall, Call, Places
  <2>3. d \in DOMAIN watches
    BY <2>1, <2>2 DEF Told, Announced, Quiet
  <2> QED BY <2>1, <2>3 DEF Untouched, Covered, PathOf
<1> QED BY <1>1, InitInv, NextInv, InitCover, NextCover, PTL DEF Spec
=============================================================================
