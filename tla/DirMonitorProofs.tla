-------------------------- MODULE DirMonitorProofs --------------------------
(***************************************************************************)
(* Theorems about DirMonitor.                                              *)
(***************************************************************************)
EXTENDS DirMonitor, SequenceTheorems, TLAPS

Notes == [path : Paths, op : FileOps \cup {"self"}, gen : Nat] \cup {OverflowMark}

Items == [path : Paths, op : FileOps] \cup {[path |-> Root, op |-> "overflow"]}

Marked(q) == \E i \in DOMAIN q : q[i] = OverflowMark

\* A queue longer than KernelCap is so by an overflow mark.
QueueOK(q) ==
  /\ q \in Seq(Notes)
  /\ Len(q) <= KernelCap + 1
  /\ Len(q) = KernelCap + 1 => Marked(q)

BoxOK(b) ==
  /\ b = [q |-> b.q, live |-> b.live, blind |-> b.blind, overflow |-> b.overflow]
  /\ QueueOK(b.q)
  /\ b.live \in SUBSET Dirs /\ b.blind \in SUBSET Paths
  /\ b.overflow \in {"none", "lost", "told"}

\* The type invariant with what makes the bound on kq inductive.
TypeInv == TypeOK /\ QueueOK(kq)

-----------------------------------------------------------------------------
\* Taking the head of a sequence; a sequence of one item; an empty one.
LEMMA TakeHead ==
  ASSUME NEW S, NEW s \in Seq(S), s # <<>>, NEW cap \in Nat, Len(s) <= cap
  PROVE  Head(s) \in S /\ Tail(s) \in Seq(S) /\ Len(Tail(s)) <= cap
<1>1. Head(s) \in S /\ Tail(s) \in Seq(S) /\ Len(Tail(s)) = Len(s) - 1 /\ Len(s) \in Nat
  OBVIOUS
<1>2. \A m, n, k \in Int : m = n - 1 /\ n <= k => m <= k
  OBVIOUS
<1> QED BY <1>1, <1>2

LEMMA OneItem ==
  ASSUME NEW S, NEW x \in S
  PROVE  <<x>> \in Seq(S) /\ Len(<<x>>) <= 1
OBVIOUS

LEMMA NoItem == ASSUME NEW S PROVE <<>> \in Seq(S) /\ Len(<<>>) = 0
OBVIOUS

\* A queue below its cap takes one more note.
LEMMA QueueAppend ==
  ASSUME NEW q, QueueOK(q), Len(q) < KernelCap, NEW e \in Notes
  PROVE  QueueOK(Append(q, e))
<1>1. Append(q, e) \in Seq(Notes) /\ Len(Append(q, e)) = Len(q) + 1
  BY DEF QueueOK
<1>2. Len(q) \in Nat /\ KernelCap \in Nat
  BY BoundAssumption DEF QueueOK
<1> QED BY <1>1, <1>2 DEF QueueOK

\* A queue without an overflow mark takes one, even at its cap.
LEMMA QueueMark ==
  ASSUME NEW q, QueueOK(q), ~Marked(q)
  PROVE  QueueOK(Append(q, OverflowMark))
<1>1. q \in Seq(Notes) /\ OverflowMark \in Notes /\ Len(q) \in Nat /\ KernelCap \in Nat
  BY BoundAssumption DEF QueueOK, Notes
<1>2. Len(q) <= KernelCap
  BY <1>1 DEF QueueOK
<1>3. /\ Append(q, OverflowMark) \in Seq(Notes)
      /\ Len(Append(q, OverflowMark)) = Len(q) + 1
      /\ Append(q, OverflowMark)[Len(q) + 1] = OverflowMark
      /\ Len(q) + 1 \in DOMAIN Append(q, OverflowMark)
  BY <1>1
<1> QED BY <1>1, <1>2, <1>3 DEF QueueOK, Marked

\* Taking the head keeps the queue in bounds.
LEMMA QueueTail ==
  ASSUME NEW q, QueueOK(q), q # <<>>
  PROVE  QueueOK(Tail(q)) /\ Head(q) \in Notes
<1>1. q \in Seq(Notes) /\ Len(q) \in Nat /\ KernelCap \in Nat
  BY BoundAssumption DEF QueueOK
<1>2. Tail(q) \in Seq(Notes) /\ Len(Tail(q)) = Len(q) - 1 /\ Head(q) \in Notes
  BY <1>1
<1>3. Len(q) <= KernelCap + 1
  BY DEF QueueOK
<1>4. \A m, n, k \in Int : m = n - 1 /\ n <= k + 1 => m <= k + 1 /\ m # k + 1
  OBVIOUS
<1> DEFINE m == Len(Tail(q))
<1>5. m # KernelCap + 1 /\ m <= KernelCap + 1
  <2>1. m \in Int /\ Len(q) \in Int /\ KernelCap \in Int /\ m = Len(q) - 1
    BY <1>1, <1>2
  <2> HIDE DEF m
  <2> QED BY <2>1, <1>3, <1>4
<1> QED BY <1>2, <1>5 DEF QueueOK

\* Dropping a notification keeps a mailbox well formed.
LEMMA OverflowedOK ==
  ASSUME NEW b, BoxOK(b), NEW L \in SUBSET Paths
  PROVE  BoxOK(Overflowed(b, L))
<1> DEFINE q == IF Marked(b.q) THEN b.q ELSE Append(b.q, OverflowMark)
<1>1. Overflowed(b, L) = [b EXCEPT !.q = q, !.blind = @ \cup L, !.overflow = "lost"]
  BY DEF Overflowed, Marked
<1>2. QueueOK(q)
  BY QueueMark DEF BoxOK
<1> HIDE DEF q
<1>3. Overflowed(b, L) = [q |-> q, live |-> b.live, blind |-> b.blind \cup L,
                          overflow |-> "lost"]
  BY <1>1 DEF BoxOK
<1> QED BY <1>2, <1>3 DEF BoxOK

\* So does announcing a change,
LEMMA AnnounceOK ==
  ASSUME TypeOK, NEW b, BoxOK(b), NEW p \in Paths, NEW op \in FileOps
  PROVE  BoxOK(Announce(b, p, op))
<1> DEFINE e == [path |-> p, op |-> op, gen |-> gen[Parent[p]]]
<1>1. e \in Notes
  BY TreeAssumption DEF TypeOK, Notes
<1>2. CASE Parent[p] \notin b.live
  BY <1>2 DEF Announce, BoxOK
<1>3. CASE Parent[p] \in b.live /\ Len(b.q) < KernelCap
  <2>1. QueueOK(Append(b.q, e))
    BY <1>1, <1>3, QueueAppend DEF BoxOK
  <2>2. Announce(b, p, op) =
          [q |-> Append(b.q, e), live |-> b.live, blind |-> b.blind \ {p},
           overflow |-> b.overflow]
    BY <1>3 DEF Announce, BoxOK
  <2> QED BY <2>1, <2>2 DEF BoxOK
<1>4. CASE Parent[p] \in b.live /\ ~(Len(b.q) < KernelCap)
  <2>1. Announce(b, p, op) = Overflowed(b, {p})
    BY <1>4 DEF Announce
  <2> QED BY <2>1, OverflowedOK
<1> QED BY <1>2, <1>3, <1>4

\* and announcing that a path is gone.
LEMMA AnnounceGoneOK ==
  ASSUME TypeOK, NEW b, BoxOK(b), NEW p \in Paths
  PROVE  BoxOK(AnnounceGone(b, p))
<1> DEFINE e == [path |-> p, op |-> "self", gen |-> gen[p]]
           c == [b EXCEPT !.live = @ \ {p}]
<1>1. e \in Notes
  BY DEF TypeOK, Notes, Dirs
<1>2. BoxOK(c) /\ c.q = b.q /\ c.live = b.live \ {p} /\ c.blind = b.blind
      /\ c.overflow = b.overflow
  BY DEF BoxOK
<1>3. CASE p \notin b.live
  BY <1>3 DEF AnnounceGone
<1>4. CASE p \in b.live /\ Len(b.q) < KernelCap
  <2>1. QueueOK(Append(b.q, e))
    BY <1>1, <1>4, QueueAppend DEF BoxOK
  <2>2. AnnounceGone(b, p) =
          [q |-> Append(b.q, e), live |-> b.live \ {p}, blind |-> b.blind,
           overflow |-> b.overflow]
    BY <1>4, <1>2 DEF AnnounceGone, BoxOK
  <2> QED BY <1>2, <2>1, <2>2 DEF BoxOK
<1>5. CASE p \in b.live /\ ~(Len(b.q) < KernelCap)
  <2>1. AnnounceGone(b, p) = Overflowed(c, {})
    BY <1>2, <1>5 DEF AnnounceGone
  <2> QED BY <1>2, <2>1, OverflowedOK
<1> QED BY <1>3, <1>4, <1>5

-----------------------------------------------------------------------------
LEMMA MailboxOK == ASSUME TypeInv PROVE BoxOK(Mailbox)
BY DEF TypeInv, TypeOK, BoxOK, Mailbox

\* What a step with a well-formed mailbox leaves of the type invariant.
LEMMA SetMailboxOK ==
  ASSUME NEW b, BoxOK(b), SetMailbox(b)
  PROVE  /\ QueueOK(kq')
         /\ kq' \in Seq(Notes) /\ Len(kq') <= KernelCap + 1
         /\ live' \subseteq Dirs /\ blind' \subseteq Paths
         /\ overflow' \in {"none", "lost", "told"}
BY DEF BoxOK, QueueOK, SetMailbox

\* A user change keeps the types if it does on the disk.
LEMMA UserChangeType ==
  ASSUME TypeInv,
         NEW k \in [Paths -> {"absent", "file", "dir"}], NEW z \in [Paths -> Sizes],
         NEW b, BoxOK(b), NEW P, UserMay(P), UserChange(k, z, b)
  PROVE  TypeInv'
<1>1. changes' \in 0 .. MaxChanges
  BY BoundAssumption DEF TypeInv, TypeOK, UserMay, UserChange
<1>2. /\ QueueOK(kq') /\ kq' \in Seq(Notes) /\ Len(kq') <= KernelCap + 1
      /\ live' \subseteq Dirs /\ blind' \subseteq Paths
      /\ overflow' \in {"none", "lost", "told"}
  BY SetMailboxOK DEF UserChange
<1>3. kind' = k /\ size' = z
  BY DEF UserChange
<1>4. UNCHANGED <<table, gen, paths, pipe, sizes, startup, creating, signalled,
                  refused>>
  BY DEF UserChange
<1> QED BY <1>1, <1>2, <1>3, <1>4 DEF TypeInv, TypeOK, Notes, pipe, startup, walk

LEMMA UserType == ASSUME TypeInv, UserStep PROVE TypeInv'
<1> USE DEF FileOps
<1>0. BoxOK(Mailbox) /\ TypeOK /\ 0 \in Sizes
  BY MailboxOK, BoundAssumption DEF TypeInv
<1>1. SUFFICES ASSUME NEW p \in Paths,
                      \/ CreateFile(p) \/ Unlink(p) \/ Mkdir(p) \/ Rmdir(p)
                      \/ \E n \in Sizes : WriteFile(p, n)
                      \/ \E q \in Paths : RenameFile(p, q)
               PROVE  TypeInv'
  BY DEF UserStep
<1>2. kind \in [Paths -> {"absent", "file", "dir"}] /\ size \in [Paths -> Sizes]
  BY <1>0 DEF TypeOK
<1>3. CASE CreateFile(p)
  BY <1>0, <1>2, <1>3, AnnounceOK, UserChangeType DEF CreateFile
<1>4. CASE Unlink(p)
  <2>1. BoxOK(AnnounceGone(Announce(Mailbox, p, "remove"), p))
    BY <1>0, AnnounceOK, AnnounceGoneOK
  <2> QED BY <2>1, <1>2, <1>4, UserChangeType DEF Unlink
<1>5. CASE Mkdir(p)
  BY <1>0, <1>2, <1>5, AnnounceOK, UserChangeType DEF Mkdir
<1>6. CASE Rmdir(p)
  <2>1. /\ BoxOK(Announce(AnnounceGone(Mailbox, p), p, "remove"))
        /\ BoxOK(AnnounceGone(Announce(Mailbox, p, "remove"), p))
    BY <1>0, AnnounceOK, AnnounceGoneOK
  <2> QED BY <2>1, <1>2, <1>6, UserChangeType DEF Rmdir
<1>7. CASE \E n \in Sizes : WriteFile(p, n)
  BY <1>0, <1>2, <1>7, AnnounceOK, UserChangeType DEF WriteFile
<1>8. ASSUME NEW q \in Paths, RenameFile(p, q) PROVE TypeInv'
  <2>1. BoxOK(AnnounceGone(Announce(Announce(Mailbox, p, "rename"), q, "create"), q))
    BY <1>0, AnnounceOK, AnnounceGoneOK
  <2>2. [size EXCEPT ![q] = size[p]] \in [Paths -> Sizes]
    BY <1>2
  <2>3. [kind EXCEPT ![p] = "absent", ![q] = "file"]
          \in [Paths -> {"absent", "file", "dir"}]
    BY <1>2
  <2> QED BY <2>1, <2>2, <2>3, <1>8, UserChangeType DEF RenameFile
<1> QED BY <1>1, <1>3, <1>4, <1>5, <1>6, <1>7, <1>8

\* Every path has its names, and no name is another path's.
LEMMA Spellings ==
  /\ Dirs \subseteq Names \cup {Root}
  /\ \A p \in Dirs : NamesOf(p) \subseteq Names \cup {Root} /\ p \in NamesOf(p)
  /\ \A p \in Paths : /\ p \in Names /\ EventName[p] \in Names
                      /\ EventName[p] \in NamesOf(p)
  /\ \A p, q \in Dirs : p # q => NamesOf(p) \cap NamesOf(q) = {}
<1>1. \A p \in Paths : EventName[p] \in Names /\ p \in Names /\ p # Root
  BY TreeAssumption DEF Names
<1>2. \A p \in Paths : EventName[p] # Root
  BY <1>1, SpellingAssumption
<1> QED BY <1>1, <1>2, SpellingAssumption, TreeAssumption DEF NamesOf, Dirs

\* AddPath keeps the types, for any path or the root.
LEMMA AddPathType ==
  ASSUME TypeOK, NEW p \in Dirs, NEW name \in Names \cup {Root}, AddPath(p, name)
  PROVE  /\ live' \subseteq Dirs /\ table' \subseteq Dirs
         /\ gen' \in [Dirs -> Nat] /\ paths' \subseteq Names \cup {Root}
         /\ blind' \subseteq Paths /\ refused' \subseteq Dirs
<1>1. Dropped(p) \in SUBSET Paths
  BY DEF Dropped
<1>2. CASE AddSucceeds(p)
  <2>1. gen' \in [Dirs -> Nat]
    BY <1>2 DEF TypeOK, AddPath
  <2>2. /\ live' \subseteq Dirs /\ table' \subseteq Dirs
        /\ paths' \subseteq Names \cup {Root}
        /\ blind' \subseteq Paths /\ refused' \subseteq Dirs
    BY <1>1, <1>2 DEF TypeOK, AddPath, PathsAfterAdd
  <2> QED BY <2>1, <2>2
<1>3. CASE ~AddSucceeds(p)
  BY <1>3 DEF TypeOK, AddPath, inotify
<1> QED BY <1>2, <1>3

LEMMA StartupType == ASSUME TypeInv, StartupStep PROVE TypeInv'
<1> USE DEF TypeInv, TypeOK, disk, inotify, pipe, startup, walk, history
<1>1. ASSUME NEW p \in Dirs, ScanVisit(p) PROVE TypeInv'
  <2>1. sizes' \in [Names -> Sizes \cup {NoEntry}]
    <3>1. sizes' = sizes \/ (p \in Paths /\ sizes' = [sizes EXCEPT ![p] = size[p]])
      BY <1>1 DEF ScanVisit, Dirs
    <3>2. p \in Paths => p \in Names /\ size[p] \in Sizes
      BY Spellings
    <3> QED BY <3>1, <3>2
  <2> QED BY <1>1, <2>1 DEF ScanVisit, ChildrenOf, Dirs
<1>2. ASSUME NEW p \in Dirs, WatchList(p) PROVE TypeInv'
  BY <1>2 DEF WatchList, ChildrenOf
<1>3. CASE ScanDone
  BY <1>3 DEF ScanDone, Dirs
<1>4. CASE WatchAdd
  <2>1. listed.dir \in Dirs /\ listed.names \subseteq Paths
    BY <1>4 DEF WatchAdd
  <2>2. /\ live' \subseteq Dirs /\ table' \subseteq Dirs
        /\ gen' \in [Dirs -> Nat] /\ paths' \subseteq Names \cup {Root}
        /\ blind' \subseteq Paths /\ refused' \subseteq Dirs
    BY <2>1, <1>4, Spellings, AddPathType DEF WatchAdd
  <2> QED BY <2>1, <2>2, <1>4 DEF WatchAdd, Dirs
<1>5. CASE WatchDone
  BY <1>5 DEF WatchDone
<1>6. CASE ReadWalkFails
  BY <1>6 DEF ReadWalkFails
<1> QED BY <1>1, <1>2, <1>3, <1>4, <1>5, <1>6 DEF StartupStep

LEMMA RunType == ASSUME TypeInv, RunStep PROVE TypeInv'
<1> USE DEF TypeInv, TypeOK, disk, inotify, pipe, startup, walk, history
<1>1. ASSUME kq # <<>>, kq' = Tail(kq)
      PROVE  /\ QueueOK(kq') /\ kq' \in Seq(Notes) /\ Len(kq') <= KernelCap + 1
             /\ Head(kq) \in Notes
  BY <1>1, QueueTail DEF QueueOK
<1>2. CASE FsnotifyDiscard
  BY <1>1, <1>2 DEF FsnotifyDiscard, Idle, Notes
<1>3. CASE FsnotifySelf
  <2>1. Head(kq).path \in Paths
    BY <1>1, <1>3 DEF FsnotifySelf, Idle, Notes, OverflowMark
  <2> DEFINE h == [path |-> Head(kq).path, op |-> "remove"]
  <2>2. h \in Items
    BY <2>1 DEF Items, FileOps
  <2>3. hand' = <<>> \/ hand' = <<h>>
    BY <1>3 DEF FsnotifySelf
  <2> HIDE DEF h
  <2>4. hand' \in Seq(Items) /\ Len(hand') <= 1
    <3>1. CASE hand' = <<>>
      BY <3>1, NoItem
    <3>2. CASE hand' = <<h>>
      BY <3>2, <2>2, OneItem
    <3> QED BY <2>3, <3>1, <3>2
  <2>5. blind' \subseteq Paths
    BY <2>1, <1>3 DEF FsnotifySelf
  <2> QED BY <1>1, <1>3, <2>4, <2>5 DEF FsnotifySelf, Idle, Notes, Items
<1>4. CASE RunTake
  <2>1. [path |-> Head(kq).path, op |-> Head(kq).op] \in Items
    BY <1>1, <1>4 DEF RunTake, Idle, Notes, Items, OverflowMark, FileOps
  <2>2. hand' \in Seq(Items) /\ Len(hand') <= 1
    BY <2>1, <1>4 DEF RunTake
  <2> QED BY <1>1, <1>4, <2>2 DEF RunTake, Idle, Notes, Items
<1>5. CASE RunPutEvent
  <2>1. hand[1] \in [path : Paths, op : FileOps]
    BY <1>5 DEF RunPutEvent
  <2>2. events' \in Seq([path : Paths, op : FileOps]) /\ Len(events') <= EventsCap
    BY <2>1, <1>5, BoundAssumption DEF RunPutEvent, HasRoom
  <2>3. hand' = <<>>
    BY <1>5 DEF RunPutEvent
  <2> QED BY <2>2, <2>3, <1>5 DEF RunPutEvent
<1>6. CASE RunPutError
  <2>1. errors' \in 0 .. ErrorsCap /\ hand' = <<>>
    BY <1>6, BoundAssumption DEF RunPutError
  <2> QED BY <2>1, <1>6 DEF RunPutError
<1> QED BY <1>2, <1>3, <1>4, <1>5, <1>6 DEF RunStep

\* Writing to the log keeps the types, in any well-formed mailbox.
LEMMA WriteLogType ==
  ASSUME TypeInv, NEW b, BoxOK(b), WriteLog(b)
  PROVE  /\ size' \in [Paths -> Sizes]
         /\ QueueOK(kq') /\ kq' \in Seq(Notes) /\ Len(kq') <= KernelCap + 1
         /\ live' \subseteq Dirs /\ blind' \subseteq Paths
         /\ overflow' \in {"none", "lost", "told"} /\ phase' \in {phase, "crashed"}
<1>0. phase' \in {phase, "crashed"}
  BY DEF WriteLog, WriteLine
<1>1. CASE LogFile = NoPath
  BY <1>0, <1>1, SetMailboxOK DEF WriteLog, WriteLine, TypeInv, TypeOK
<1>2. CASE LogFile # NoPath
  <2>1. LogFile \in Paths
    BY <1>2, ConfigAssumption
  <2>2. BoxOK(Announce(b, LogFile, "write"))
    BY <2>1, AnnounceOK DEF TypeInv, FileOps
  <2>3. SetMailbox(Announce(b, LogFile, "write")) /\ size' \in [Paths -> Sizes]
    BY <1>2 DEF WriteLog, WriteLine, TypeInv, TypeOK
  <2> QED BY <1>0, <2>2, <2>3, SetMailboxOK
<1> QED BY <1>1, <1>2

LEMMA PrintRecordType ==
  ASSUME TypeInv, NEW op, NEW b, BoxOK(b), printRecord(op, b)
  PROVE  /\ size' \in [Paths -> Sizes]
         /\ QueueOK(kq') /\ kq' \in Seq(Notes) /\ Len(kq') <= KernelCap + 1
         /\ live' \subseteq Dirs /\ blind' \subseteq Paths
         /\ overflow' \in {"none", "lost", "told"} /\ phase' \in {phase, "crashed"}
BY WriteLogType, SetMailboxOK DEF printRecord, TypeInv, TypeOK

LEMMA MailboxAfterRemoveOK ==
  ASSUME TypeInv, NEW p PROVE BoxOK(MailboxAfterRemove(p))
BY MailboxOK DEF MailboxAfterRemove, Mailbox, BoxOK, Dropped

LEMMA ReceiveType ==
  ASSUME TypeOK, NEW ops, Receive(ops)
  PROVE  /\ Head(events) \in [path : Paths, op : FileOps]
         /\ events' \in Seq([path : Paths, op : FileOps])
         /\ Len(events') <= EventsCap
<1>1. events \in Seq([path : Paths, op : FileOps]) /\ events # <<>>
      /\ Len(events) <= EventsCap /\ events' = Tail(events)
  BY DEF TypeOK, Receive
<1> QED BY <1>1, TakeHead, BoundAssumption

LEMMA getFileSizeType == ASSUME TypeOK, NEW p \in Paths PROVE getFileSize(p) \in Sizes
BY BoundAssumption DEF TypeOK, getFileSize

LEMMA ServiceType ==
  ASSUME TypeInv, HandleEvent \/ FinishCreate \/ HandleError PROVE TypeInv'
<1> USE DEF TypeInv, TypeOK, disk, inotify, pipe, startup, walk, history
<1>0. ASSUME NEW ops \in SUBSET FileOps, Receive(ops)
      PROVE  /\ Head(events) \in [path : Paths, op : FileOps]
             /\ events' \in Seq([path : Paths, op : FileOps])
             /\ Len(events') <= EventsCap
  BY <1>0, ReceiveType
<1>1. CASE HandleIgnored
  <2> DEFINE p == Head(events).path
  <2>1. BoxOK(MailboxAfterRemove(p)) /\ BoxOK(Mailbox)
    BY MailboxAfterRemoveOK, MailboxOK
  <2>2. /\ QueueOK(kq') /\ kq' \in Seq(Notes) /\ Len(kq') <= KernelCap + 1
        /\ live' \subseteq Dirs /\ blind' \subseteq Paths
        /\ overflow' \in {"none", "lost", "told"}
    BY <2>1, <1>1, SetMailboxOK DEF HandleIgnored
  <2>3. table' \subseteq Dirs /\ paths' \subseteq Names \cup {Root}
    BY <1>1 DEF HandleIgnored, TableAfterRemove, PathsAfterRemove
  <2>4. /\ events' \in Seq([path : Paths, op : FileOps])
        /\ Len(events') <= EventsCap
    BY <1>0, <1>1 DEF HandleIgnored
  <2> QED BY <2>2, <2>3, <2>4, <1>1 DEF HandleIgnored, Notes
<1>2. CASE HandleWrite
  <2>1. /\ Head(events) \in [path : Paths, op : FileOps]
        /\ events' \in Seq([path : Paths, op : FileOps])
        /\ Len(events') <= EventsCap
    BY <1>0, <1>2 DEF HandleWrite, FileOps
  <2>2. /\ size' \in [Paths -> Sizes]
        /\ QueueOK(kq') /\ kq' \in Seq(Notes) /\ Len(kq') <= KernelCap + 1
        /\ live' \subseteq Dirs /\ blind' \subseteq Paths
        /\ overflow' \in {"none", "lost", "told"} /\ phase' \in {phase, "crashed"}
    BY <1>2, MailboxOK, PrintRecordType DEF HandleWrite
  <2>3. sizes' \in [Names -> Sizes \cup {NoEntry}]
    BY <1>2, <2>1, Spellings, getFileSizeType DEF HandleWrite
  <2> QED BY <2>1, <2>2, <2>3, <1>2 DEF HandleWrite, Notes
<1>3. CASE HandleGone
  <2>1. /\ Head(events) \in [path : Paths, op : FileOps]
        /\ events' \in Seq([path : Paths, op : FileOps])
        /\ Len(events') <= EventsCap
    BY <1>0, <1>3 DEF HandleGone, FileOps
  <2>2. /\ size' \in [Paths -> Sizes]
        /\ QueueOK(kq') /\ kq' \in Seq(Notes) /\ Len(kq') <= KernelCap + 1
        /\ live' \subseteq Dirs /\ blind' \subseteq Paths
        /\ overflow' \in {"none", "lost", "told"} /\ phase' \in {phase, "crashed"}
    BY <1>3, MailboxAfterRemoveOK, PrintRecordType, SetMailboxOK DEF HandleGone
  <2>3. /\ table' \subseteq Dirs /\ paths' \subseteq Names \cup {Root}
        /\ sizes' \in [Names -> Sizes \cup {NoEntry}]
    BY <1>3, <2>1, Spellings
       DEF HandleGone, TableAfterRemove, PathsAfterRemove, SizesWithout
  <2> QED BY <2>1, <2>2, <2>3, <1>3 DEF HandleGone, Notes
<1>4. CASE HandleCreate
  <2>1. /\ Head(events) \in [path : Paths, op : FileOps]
        /\ events' \in Seq([path : Paths, op : FileOps])
        /\ Len(events') <= EventsCap
    BY <1>0, <1>4 DEF HandleCreate, FileOps
  <2>2. creating' \in [path : Paths, isDir : BOOLEAN]
    BY <2>1, <1>4 DEF HandleCreate
  <2> QED BY <2>1, <2>2, <1>4 DEF HandleCreate
<1>5. CASE FinishCreateDir
  <2>1. creating.path \in Dirs /\ EventName[creating.path] \in Names
    BY <1>5, Spellings DEF FinishCreateDir, Dirs
  <2>2. /\ live' \subseteq Dirs /\ table' \subseteq Dirs
        /\ gen' \in [Dirs -> Nat] /\ paths' \subseteq Names \cup {Root}
        /\ blind' \subseteq Paths /\ refused' \subseteq Dirs
    BY <2>1, <1>5, AddPathType DEF FinishCreateDir
  <2> QED BY <2>2, <1>5 DEF FinishCreateDir
<1>6. CASE FinishCreateFile
  <2>1. creating.path \in Paths
    BY <1>6 DEF FinishCreateFile
  <2>2. /\ size' \in [Paths -> Sizes]
        /\ QueueOK(kq') /\ kq' \in Seq(Notes) /\ Len(kq') <= KernelCap + 1
        /\ live' \subseteq Dirs /\ blind' \subseteq Paths
        /\ overflow' \in {"none", "lost", "told"} /\ phase' \in {phase, "crashed"}
    BY <1>6, MailboxOK, PrintRecordType DEF FinishCreateFile
  <2>3. sizes' \in [Names -> Sizes \cup {NoEntry}]
    BY <1>6, <2>1, Spellings, getFileSizeType DEF FinishCreateFile
  <2> QED BY <2>2, <2>3, <1>6 DEF FinishCreateFile, Notes
<1>7. CASE HandleError
  <2> DEFINE b == [Mailbox EXCEPT !.overflow = IF LastError THEN "told" ELSE @]
  <2>1. BoxOK(b)
    <3>1. BoxOK(Mailbox) /\ (IF LastError THEN "told" ELSE Mailbox.overflow)
                              \in {"none", "lost", "told"}
      BY MailboxOK DEF BoxOK
    <3> QED BY <3>1 DEF BoxOK
  <2>2. /\ size' \in [Paths -> Sizes]
        /\ QueueOK(kq') /\ kq' \in Seq(Notes) /\ Len(kq') <= KernelCap + 1
        /\ live' \subseteq Dirs /\ blind' \subseteq Paths
        /\ overflow' \in {"none", "lost", "told"} /\ phase' \in {phase, "crashed"}
    BY <1>7, <2>1, WriteLogType DEF HandleError
  <2>3. errors' \in 0 .. ErrorsCap
    BY <1>7, BoundAssumption DEF HandleError
  <2> QED BY <2>2, <2>3, <1>7 DEF HandleError, Notes
<1> QED BY <1>1, <1>2, <1>3, <1>4, <1>5, <1>6, <1>7 DEF HandleEvent, FinishCreate

LEMMA InitType == Init => TypeInv
<1> SUFFICES ASSUME Init PROVE TypeInv
  OBVIOUS
<1>1. QueueOK(kq)
  BY BoundAssumption DEF Init, QueueOK
<1>2. 0 \in 0 .. ErrorsCap /\ 0 \in 0 .. MaxChanges /\ 0 <= KernelCap + 1
      /\ 0 <= EventsCap /\ 0 \in Sizes
  BY BoundAssumption
<1>3. /\ kq \in Seq(Notes) /\ Len(kq) <= KernelCap + 1
      /\ hand \in Seq(Items) /\ Len(hand) <= 1
      /\ events \in Seq([path : Paths, op : FileOps]) /\ Len(events) <= EventsCap
  BY <1>1, <1>2, NoItem DEF Init
<1> QED BY <1>1, <1>2, <1>3 DEF Init, TypeInv, TypeOK, Dirs, Notes, Items

LEMMA NextType == TypeInv /\ [Next]_vars => TypeInv'
<1> SUFFICES ASSUME TypeInv, [Next]_vars PROVE TypeInv'
  OBVIOUS
<1>1. CASE Signal \/ HandleSignal
  BY <1>1 DEF Signal, HandleSignal, TypeInv, TypeOK, disk, inotify, pipe, walk, history
<1>2. CASE UNCHANGED vars
  BY <1>2 DEF TypeInv, TypeOK, vars, disk, inotify, pipe, startup, walk, history
<1> QED BY <1>1, <1>2, UserType, StartupType, RunType, ServiceType
        DEF Next, Terminated

\* TypeCorrect: the variables keep their types and no queue, channel or
\* counter exceeds its capacity (NewWatcherComponent's channels, the kernel's
\* queue with its one overflow mark).
THEOREM TypeCorrect == Spec => []TypeOK
<1>1. TypeInv => TypeOK
  BY DEF TypeInv
<1> QED BY <1>1, InitType, NextType, PTL DEF Spec

-----------------------------------------------------------------------------
(***************************************************************************)
(* WatchTables.  It is not inductive: fsnotify forgets a path when it      *)
(* reads the report that the path is gone, and that report must not        *)
(* concern a watch that is live again.  SelfGone says it cannot: a report  *)
(* carries the number of its watch, and a new watch has a new number.      *)
(***************************************************************************)
Elems(q) == {q[i] : i \in DOMAIN q}

\* What e says is gone is not among the watches L.
Gone(e, L) ==
  e.op = "self" => /\ e.gen <= gen[e.path]
                   /\ e.gen = gen[e.path] => e.path \notin L

SelfGone == \A e \in Elems(kq) : Gone(e, live)

WatchInv == SelfGone /\ WatchTables

BoxGone(b) == b.live \subseteq live /\ \A e \in Elems(b.q) : Gone(e, b.live)

LEMMA ElemsAppend ==
  ASSUME NEW S, NEW q \in Seq(S), NEW e \in S
  PROVE  Elems(Append(q, e)) \subseteq Elems(q) \cup {e}
<1>1. /\ DOMAIN Append(q, e) = 1 .. Len(q) + 1 /\ DOMAIN q = 1 .. Len(q)
      /\ Append(q, e)[Len(q) + 1] = e /\ Len(q) \in Nat
      /\ \A i \in 1 .. Len(q) : Append(q, e)[i] = q[i]
  OBVIOUS
<1>2. SUFFICES ASSUME NEW i \in 1 .. Len(q) + 1
               PROVE  Append(q, e)[i] \in Elems(q) \cup {e}
  BY <1>1 DEF Elems
<1>3. CASE i = Len(q) + 1
  BY <1>1, <1>3
<1>4. CASE i # Len(q) + 1
  <2>1. i \in 1 .. Len(q)
    BY <1>1, <1>4
  <2>2. Append(q, e)[i] = q[i] /\ i \in DOMAIN q
    BY <1>1, <2>1
  <2>3. q[i] \in Elems(q)
    BY <2>2 DEF Elems
  <2> QED BY <2>2, <2>3
<1> QED BY <1>3, <1>4

LEMMA ElemsTail ==
  ASSUME NEW S, NEW q \in Seq(S), q # <<>>
  PROVE  Elems(Tail(q)) \subseteq Elems(q) /\ Head(q) \in Elems(q)
<1>1. /\ DOMAIN Tail(q) = 1 .. Len(q) - 1 /\ DOMAIN q = 1 .. Len(q)
      /\ Len(q) \in Nat /\ Len(q) # 0 /\ Head(q) = q[1]
      /\ \A i \in 1 .. Len(q) - 1 : Tail(q)[i] = q[i + 1]
  OBVIOUS
<1>2. \A i \in 1 .. Len(q) - 1 : i + 1 \in DOMAIN q
  BY <1>1
<1>3. 1 \in DOMAIN q
  BY <1>1
<1> QED BY <1>1, <1>2, <1>3 DEF Elems

\* Announcing keeps what is queued about gone watches true.
LEMMA OverflowedGone ==
  ASSUME NEW b, BoxOK(b), BoxGone(b), NEW L \in SUBSET Paths
  PROVE  BoxGone(Overflowed(b, L))
<1>1. b.q \in Seq(Notes) /\ OverflowMark \in Notes
  BY DEF BoxOK, QueueOK, Notes
<1>2. /\ Overflowed(b, L).live = b.live
      /\ Overflowed(b, L).q = b.q \/ Overflowed(b, L).q = Append(b.q, OverflowMark)
  BY DEF Overflowed, BoxOK
<1>3. Gone(OverflowMark, b.live)
  BY DEF Gone, OverflowMark
<1>4. Elems(Append(b.q, OverflowMark)) \subseteq Elems(b.q) \cup {OverflowMark}
  BY <1>1, ElemsAppend
<1> QED BY <1>2, <1>3, <1>4 DEF BoxGone

LEMMA AnnounceKeepsGone ==
  ASSUME TypeOK, NEW b, BoxOK(b), BoxGone(b), NEW p \in Paths, NEW op \in FileOps
  PROVE  BoxGone(Announce(b, p, op))
<1> DEFINE e == [path |-> p, op |-> op, gen |-> gen[Parent[p]]]
<1>1. b.q \in Seq(Notes) /\ e \in Notes
  BY TreeAssumption DEF TypeOK, Notes, BoxOK, QueueOK
<1>2. CASE Parent[p] \notin b.live
  <2>1. Announce(b, p, op).live = b.live /\ Announce(b, p, op).q = b.q
    BY <1>2 DEF Announce, BoxOK
  <2> QED BY <2>1 DEF BoxGone
<1>3. CASE Parent[p] \in b.live /\ Len(b.q) < KernelCap
  <2>1. Announce(b, p, op).live = b.live /\ Announce(b, p, op).q = Append(b.q, e)
    BY <1>3 DEF Announce, BoxOK
  <2>2. Gone(e, b.live)
    BY DEF Gone, FileOps
  <2>3. Elems(Append(b.q, e)) \subseteq Elems(b.q) \cup {e}
    BY <1>1, ElemsAppend
  <2> QED BY <2>1, <2>2, <2>3 DEF BoxGone
<1>4. CASE Parent[p] \in b.live /\ ~(Len(b.q) < KernelCap)
  <2>1. Announce(b, p, op) = Overflowed(b, {p})
    BY <1>4 DEF Announce
  <2> QED BY <2>1, OverflowedGone
<1> QED BY <1>2, <1>3, <1>4

LEMMA AnnounceGoneKeepsGone ==
  ASSUME TypeOK, NEW b, BoxOK(b), BoxGone(b), NEW p \in Paths
  PROVE  BoxGone(AnnounceGone(b, p))
<1> DEFINE e == [path |-> p, op |-> "self", gen |-> gen[p]]
           c == [b EXCEPT !.live = @ \ {p}]
<1>1. b.q \in Seq(Notes) /\ e \in Notes /\ gen[p] \in Nat
  BY DEF TypeOK, Notes, BoxOK, QueueOK, Dirs
<1>2. BoxOK(c) /\ c.q = b.q /\ c.live = b.live \ {p}
  BY DEF BoxOK
<1>3. BoxGone(c)
  BY <1>2 DEF BoxGone, Gone
<1>4. CASE p \notin b.live
  BY <1>4 DEF AnnounceGone
<1>5. CASE p \in b.live /\ Len(b.q) < KernelCap
  <2>1. /\ AnnounceGone(b, p).q = Append(b.q, e)
        /\ AnnounceGone(b, p).live = b.live \ {p}
    BY <1>2, <1>5 DEF AnnounceGone, BoxOK
  <2>2. Gone(e, b.live \ {p})
    BY <1>1 DEF Gone
  <2>3. Elems(Append(b.q, e)) \subseteq Elems(b.q) \cup {e}
    BY <1>1, ElemsAppend
  <2> QED BY <1>2, <1>3, <2>1, <2>2, <2>3 DEF BoxGone
<1>6. CASE p \in b.live /\ ~(Len(b.q) < KernelCap)
  <2>1. AnnounceGone(b, p) = Overflowed(c, {})
    BY <1>2, <1>6 DEF AnnounceGone
  <2> QED BY <1>2, <1>3, <2>1, OverflowedGone
<1> QED BY <1>4, <1>5, <1>6

LEMMA WriteLogGone ==
  ASSUME TypeInv, NEW b, BoxOK(b), BoxGone(b), WriteLog(b) \/ SetMailbox(b)
  PROVE  \E c : BoxGone(c) /\ c.live = b.live /\ kq' = c.q /\ live' = c.live
<1>1. CASE SetMailbox(b)
  BY <1>1 DEF SetMailbox
<1>2. CASE WriteLog(b) /\ LogFile # NoPath
  <2> DEFINE c == Announce(b, LogFile, "write")
  <2>1. LogFile \in Paths /\ "write" \in FileOps
    BY <1>2, ConfigAssumption DEF FileOps
  <2>2. BoxGone(c) /\ SetMailbox(c)
    BY <1>2, <2>1, AnnounceKeepsGone DEF TypeInv, WriteLog, WriteLine
  <2>3. c.live = b.live
    BY DEF Announce, Overflowed, BoxOK
  <2> QED BY <2>2, <2>3 DEF SetMailbox
<1> QED BY <1>1, <1>2 DEF WriteLog, WriteLine

LEMMA MailboxGone ==
  ASSUME WatchInv, NEW p PROVE BoxGone(Mailbox) /\ BoxGone(MailboxAfterRemove(p))
<1>1. /\ MailboxAfterRemove(p).q = kq
      /\ MailboxAfterRemove(p).live \subseteq live
  BY DEF MailboxAfterRemove, Mailbox
<1> QED BY <1>1 DEF WatchInv, SelfGone, BoxGone, Mailbox, Gone

\* RemovePath under the event's name: what leaves `paths` is no name of another
\* path, and its own path leaves the table with it.
LEMMA RemoveGone ==
  ASSUME TypeInv, WatchInv, NEW p \in Paths
  PROVE  /\ BoxGone(MailboxAfterRemove(p))
         /\ MailboxAfterRemove(p).live \subseteq TableAfterRemove(p)
         /\ \A q \in TableAfterRemove(p) : NamesOf(q) \cap PathsAfterRemove(p) # {}
<1>1. /\ live \subseteq table /\ table \subseteq Dirs /\ p \in Dirs
      /\ \A q \in table : NamesOf(q) \cap paths # {}
  BY DEF WatchInv, WatchTables, TypeInv, TypeOK, Dirs
<1>2. /\ MailboxAfterRemove(p).q = kq
      /\ MailboxAfterRemove(p).live =
           IF IsWatched(EventName[p]) /\ p \in table THEN live \ {p} ELSE live
  BY DEF MailboxAfterRemove, Mailbox
<1>3. BoxGone(MailboxAfterRemove(p))
  BY MailboxGone
<1>4. MailboxAfterRemove(p).live \subseteq TableAfterRemove(p)
  BY <1>1, <1>2 DEF TableAfterRemove
<1>5. ASSUME NEW q \in TableAfterRemove(p)
      PROVE  NamesOf(q) \cap PathsAfterRemove(p) # {}
  <2>1. q \in table
    BY DEF TableAfterRemove
  <2>2. PICK n \in NamesOf(q) : n \in paths
    BY <1>1, <2>1
  <2>3. CASE ~IsWatched(EventName[p])
    BY <2>2, <2>3 DEF PathsAfterRemove, IsWatched
  <2>4. CASE IsWatched(EventName[p])
    <3>1. q # p
      BY <2>4 DEF TableAfterRemove
    <3>2. n # EventName[p]
      BY <1>1, <2>1, <3>1, Spellings
    <3> QED BY <2>2, <3>2 DEF PathsAfterRemove
  <2> QED BY <2>3, <2>4
<1> QED BY <1>3, <1>4, <1>5

\* A step that settles for a mailbox below the old watches keeps WatchInv if
\* the two tables follow.
LEMMA WatchKept ==
  ASSUME WatchInv, NEW b, BoxGone(b), kq' = b.q, live' = b.live, gen' = gen,
         b.live \subseteq table', \A q \in table' : NamesOf(q) \cap paths' # {}
  PROVE  WatchInv'
BY DEF WatchInv, SelfGone, WatchTables, BoxGone, Gone

LEMMA UserWatch == ASSUME TypeInv, WatchInv, UserStep PROVE WatchInv'
<1> USE DEF FileOps
<1>0. BoxOK(Mailbox) /\ BoxGone(Mailbox) /\ TypeOK
  BY MailboxOK, MailboxGone DEF TypeInv
<1>1. ASSUME NEW k, NEW z, NEW b, BoxGone(b), UserChange(k, z, b) PROVE WatchInv'
  <2>1. /\ kq' = b.q /\ live' = b.live /\ gen' = gen /\ table' = table
        /\ paths' = paths
    BY <1>1 DEF UserChange, SetMailbox
  <2> QED BY <2>1, <1>1, WatchKept DEF BoxGone, WatchInv, WatchTables
<1>2. SUFFICES ASSUME NEW p \in Paths,
                      \/ CreateFile(p) \/ Unlink(p) \/ Mkdir(p) \/ Rmdir(p)
                      \/ \E n \in Sizes : WriteFile(p, n)
                      \/ \E q \in Paths : RenameFile(p, q)
               PROVE  WatchInv'
  BY DEF UserStep
<1>3. \A op \in FileOps : /\ BoxOK(Announce(Mailbox, p, op))
                          /\ BoxGone(Announce(Mailbox, p, op))
  BY <1>0, AnnounceOK, AnnounceKeepsGone
<1>4. /\ BoxOK(AnnounceGone(Mailbox, p)) /\ BoxGone(AnnounceGone(Mailbox, p))
      /\ BoxGone(AnnounceGone(Announce(Mailbox, p, "remove"), p))
  BY <1>0, <1>3, AnnounceGoneOK, AnnounceGoneKeepsGone
<1>5. CASE CreateFile(p) \/ Mkdir(p) \/ \E n \in Sizes : WriteFile(p, n)
  BY <1>1, <1>3, <1>5 DEF CreateFile, Mkdir, WriteFile
<1>6. CASE Unlink(p)
  BY <1>1, <1>4, <1>6 DEF Unlink
<1>7. CASE Rmdir(p)
  <2>1. BoxGone(Announce(AnnounceGone(Mailbox, p), p, "remove"))
    BY <1>0, <1>4, AnnounceKeepsGone
  <2> QED BY <1>1, <1>4, <1>7, <2>1 DEF Rmdir
<1>8. ASSUME NEW q \in Paths, RenameFile(p, q) PROVE WatchInv'
  <2>1. BoxGone(AnnounceGone(Announce(Announce(Mailbox, p, "rename"), q, "create"), q))
    BY <1>0, <1>3, AnnounceOK, AnnounceKeepsGone, AnnounceGoneKeepsGone
  <2> QED BY <1>1, <1>8, <2>1 DEF RenameFile
<1> QED BY <1>2, <1>5, <1>6, <1>7, <1>8

\* A new watch has a new number, so nothing queued says it is gone.
LEMMA AddPathWatch ==
  ASSUME TypeInv, WatchInv, NEW p \in Dirs, NEW name \in NamesOf(p),
         AddPath(p, name), kq' = kq
  PROVE  WatchInv'
<1>1. CASE UNCHANGED <<inotify, paths>>
  BY <1>1 DEF WatchInv, SelfGone, WatchTables, Gone, inotify
<1>2. CASE /\ live' = live \cup {p} /\ table' = table \cup {p}
           /\ paths' = paths \cup {name}
           /\ gen' = IF p \in live THEN gen ELSE [gen EXCEPT ![p] = @ + 1]
  <2>1. WatchTables'
    BY <1>2 DEF WatchInv, WatchTables
  <2>2. ASSUME NEW e \in Elems(kq), e.op = "self"
        PROVE  /\ e.gen <= gen'[e.path]
               /\ e.gen = gen'[e.path] => e.path \notin live'
    <3>1. /\ e.gen <= gen[e.path]
          /\ e.gen = gen[e.path] => e.path \notin live
      BY <2>2 DEF WatchInv, SelfGone, Gone
    <3>2. CASE p \in live
      <4>1. live' = live /\ gen' = gen
        BY <1>2, <3>2
      <4> QED BY <3>1, <4>1
    <3>3. CASE p \notin live
      <4>1. e \in Notes
        <5>1. kq \in Seq(Notes)
          BY DEF TypeInv, QueueOK
        <5> QED BY <5>1 DEF Elems
      <4>2. e.gen \in Nat /\ e.path \in Dirs
        BY <4>1, <2>2 DEF Notes, OverflowMark, Dirs
      <4>3. gen \in [Dirs -> Nat] /\ gen' = [gen EXCEPT ![p] = @ + 1]
        BY <1>2, <3>3 DEF TypeInv, TypeOK
      <4>4. CASE e.path = p
        BY <3>1, <4>2, <4>3, <4>4
      <4>5. CASE e.path # p
        <5>1. gen'[e.path] = gen[e.path]
          BY <4>2, <4>3, <4>5
        <5>2. e.path \in live' => e.path \in live
          BY <1>2, <4>5
        <5> QED BY <3>1, <5>1, <5>2
      <4> QED BY <4>4, <4>5
    <3> QED BY <3>2, <3>3
  <2>3. SelfGone'
    BY <2>2 DEF SelfGone, Gone, Elems
  <2> QED BY <2>1, <2>3 DEF WatchInv
<1> QED BY <1>1, <1>2 DEF AddPath, PathsAfterAdd

LEMMA RunWatch == ASSUME TypeInv, WatchInv, RunStep PROVE WatchInv'
<1>1. ASSUME kq # <<>>, kq' = Tail(kq)
      PROVE  Elems(kq') \subseteq Elems(kq) /\ Head(kq) \in Elems(kq)
  <2>1. kq \in Seq(Notes)
    BY DEF TypeInv, QueueOK
  <2> QED BY <1>1, <2>1, ElemsTail
<1>2. CASE FsnotifyDiscard \/ RunTake
  <2>1. Elems(kq') \subseteq Elems(kq) /\ UNCHANGED <<inotify, paths>>
    BY <1>1, <1>2 DEF FsnotifyDiscard, RunTake, Idle
  <2> QED BY <2>1 DEF WatchInv, SelfGone, WatchTables, Gone, inotify
<1>3. CASE FsnotifySelf
  <2> DEFINE p == Head(kq).path
  <2>1. /\ Elems(kq') \subseteq Elems(kq) /\ Head(kq) \in Elems(kq)
        /\ UNCHANGED <<live, gen, paths>> /\ table' = table \ {p}
    BY <1>1, <1>3 DEF FsnotifySelf, Idle
  <2>2. p \notin live
    BY <2>1, <1>3 DEF FsnotifySelf, Known, WatchInv, SelfGone, Gone
  <2> QED BY <2>1, <2>2 DEF WatchInv, SelfGone, WatchTables, Gone
<1>4. CASE RunPutEvent \/ RunPutError
  <2>1. UNCHANGED <<inotify, kq, paths>>
    BY <1>4 DEF RunPutEvent, RunPutError
  <2> QED BY <2>1 DEF WatchInv, SelfGone, WatchTables, Gone, inotify
<1> QED BY <1>2, <1>3, <1>4 DEF RunStep

LEMMA ServiceWatch ==
  ASSUME TypeInv, WatchInv, HandleEvent \/ FinishCreate \/ HandleError
  PROVE  WatchInv'
<1>0. BoxOK(Mailbox) /\ BoxGone(Mailbox) /\ Mailbox.live = live
  BY MailboxOK, MailboxGone DEF Mailbox
<1>1. CASE HandleIgnored
  <2> DEFINE p == Head(events).path
  <2>0. p \in Paths
    BY <1>1, ReceiveType DEF HandleIgnored, TypeInv
  <2>1. CASE Head(events).op \in {"remove", "rename"}
    <3>1. /\ SetMailbox(MailboxAfterRemove(p)) /\ gen' = gen
          /\ table' = TableAfterRemove(p) /\ paths' = PathsAfterRemove(p)
      BY <1>1, <2>1 DEF HandleIgnored
    <3> QED BY <2>0, <3>1, RemoveGone, WatchKept DEF SetMailbox
  <2>2. CASE Head(events).op \notin {"remove", "rename"}
    <3>1. SetMailbox(Mailbox) /\ gen' = gen /\ table' = table /\ paths' = paths
      BY <1>1, <2>2 DEF HandleIgnored
    <3> QED BY <3>1, <1>0, WatchKept DEF SetMailbox, WatchInv, WatchTables
  <2> QED BY <2>1, <2>2
<1>2. ASSUME UNCHANGED <<table, gen, paths>>, NEW b, BoxOK(b), BoxGone(b),
             b.live = live, WriteLog(b) \/ SetMailbox(b)
      PROVE  WatchInv'
  BY <1>2, WriteLogGone, WatchKept DEF WatchInv, WatchTables
<1>3. CASE HandleWrite \/ FinishCreateFile
  BY <1>0, <1>2, <1>3 DEF HandleWrite, FinishCreateFile, printRecord
<1>4. CASE HandleGone
  <2> DEFINE p == Head(events).path
             b == MailboxAfterRemove(p)
  <2>1. BoxOK(b) /\ BoxGone(b) /\ p \in Paths
    BY <1>4, MailboxAfterRemoveOK, RemoveGone, ReceiveType DEF HandleGone, TypeInv
  <2>2. /\ WriteLog(b) \/ SetMailbox(b)
        /\ gen' = gen /\ table' = TableAfterRemove(p)
        /\ paths' = PathsAfterRemove(p)
    BY <1>4 DEF HandleGone, printRecord
  <2>3. /\ \A q \in table' : NamesOf(q) \cap paths' # {}
        /\ b.live \subseteq table'
    BY <2>1, <2>2, RemoveGone
  <2>4. PICK c : BoxGone(c) /\ c.live = b.live /\ kq' = c.q /\ live' = c.live
    BY <2>1, <2>2, WriteLogGone
  <2> QED BY <2>2, <2>3, <2>4, WatchKept
<1>5. CASE HandleCreate
  <2>1. UNCHANGED <<inotify, kq, paths>>
    BY <1>5 DEF HandleCreate
  <2> QED BY <2>1 DEF WatchInv, SelfGone, WatchTables, Gone, inotify
<1>6. CASE FinishCreateDir
  <2>1. creating.path \in Paths
    BY <1>6 DEF FinishCreateDir, TypeInv, TypeOK
  <2>2. /\ creating.path \in Dirs
        /\ EventName[creating.path] \in NamesOf(creating.path)
    BY <2>1, Spellings DEF Dirs
  <2> QED BY <2>2, <1>6, AddPathWatch DEF FinishCreateDir
<1>7. CASE HandleError
  <2> DEFINE b == [Mailbox EXCEPT !.overflow = IF LastError THEN "told" ELSE @]
  <2>1. BoxOK(b) /\ BoxGone(b) /\ b.live = live
    BY <1>0 DEF BoxOK, BoxGone
  <2>2. WriteLog(b) /\ UNCHANGED <<table, gen, paths>>
    BY <1>7 DEF HandleError
  <2> QED BY <1>2, <2>1, <2>2
<1> QED BY <1>1, <1>3, <1>4, <1>5, <1>6, <1>7 DEF HandleEvent, FinishCreate

LEMMA NextWatch == TypeInv /\ WatchInv /\ [Next]_vars => WatchInv'
<1> SUFFICES ASSUME TypeInv, WatchInv, [Next]_vars PROVE WatchInv'
  OBVIOUS
<1>1. CASE UNCHANGED <<inotify, kq, paths>>
  BY <1>1 DEF WatchInv, SelfGone, WatchTables, Gone, inotify
<1>2. CASE WatchAdd
  <2>1. listed.dir \in Dirs
    BY <1>2 DEF WatchAdd, TypeInv, TypeOK
  <2> QED BY <2>1, <1>2, Spellings, AddPathWatch DEF WatchAdd
<1>3. CASE StartupStep
  BY <1>1, <1>2, <1>3
     DEF StartupStep, ScanVisit, WatchList, ScanDone, WatchDone, ReadWalkFails
<1>4. CASE Signal \/ HandleSignal
  BY <1>1, <1>4 DEF Signal, HandleSignal
<1>5. CASE UNCHANGED vars
  BY <1>1, <1>5 DEF vars
<1> QED BY <1>3, <1>4, <1>5, UserWatch, RunWatch, ServiceWatch
        DEF Next, Terminated

\* WatchesKnown: no watch is unknown to fsnotify and none of fsnotify's to
\* WatcherComponent.paths under a name of its directory, for any tree, any
\* spelling of its paths, any queue sizes and any number of changes.
THEOREM WatchesKnown == Spec => []WatchTables
<1>1. Init => WatchInv
  BY DEF Init, WatchInv, SelfGone, WatchTables, Elems
<1>2. WatchInv => WatchTables
  BY DEF WatchInv
<1> QED BY <1>1, <1>2, InitType, NextType, NextWatch, PTL DEF Spec

-----------------------------------------------------------------------------
(***************************************************************************)
(* IgnoredUntouched, with the paths that are between two steps.            *)
(***************************************************************************)
IgnoreInv ==
  IgnoredUntouched /\ creating.path \notin Ignored /\ listed.dir \notin Ignored

LEMMA NextIgnore == TypeInv /\ IgnoreInv /\ [Next]_vars => IgnoreInv'
<1> SUFFICES ASSUME TypeInv, IgnoreInv, [Next]_vars PROVE IgnoreInv'
  OBVIOUS
<1> USE DEF IgnoreInv, IgnoredUntouched, ShouldIgnore, pipe, startup, walk
<1>0. NoPath \notin Ignored
  BY TreeAssumption, ConfigAssumption DEF Dirs
<1>9. /\ sizes \in [Names -> Sizes \cup {NoEntry}]
      /\ Ignored \subseteq Paths /\ Paths \subseteq Dirs
      /\ \A r \in Ignored : NamesOf(r) \subseteq Names
  BY ConfigAssumption, TreeAssumption DEF TypeInv, TypeOK, Dirs, NamesOf, Names
<1>10. ASSUME NEW p \in Dirs, NEW n \in NamesOf(p), NEW z,
              sizes' = [sizes EXCEPT ![n] = z], p \notin Ignored
      PROVE  \A r \in Ignored : \A m \in NamesOf(r) : sizes'[m] = NoEntry
  <2>1. \A r \in Ignored : n \notin NamesOf(r)
    BY <1>9, <1>10, Spellings
  <2> QED BY <1>9, <1>10, <2>1
<1>11. HandleEvent => Head(events).path \in Paths /\ EventName[Head(events).path] \in Names
  BY ReceiveType, Spellings
     DEF TypeInv, HandleEvent, HandleIgnored, HandleWrite, HandleGone, HandleCreate,
         FileOps
<1>12. creating # NotCreating => creating.path \in Paths
  BY DEF TypeInv, TypeOK
<1>1. CASE UNCHANGED <<sizes, paths, creating, listed>>
  BY <1>1
<1>2. ASSUME NEW p \in Dirs, NEW n \in NamesOf(p), p \notin Ignored, AddPath(p, n)
      PROVE  \A r \in Ignored : NamesOf(r) \cap paths' = {}
  <2>1. \A r \in Ignored : n \notin NamesOf(r)
    BY <1>2, <1>9, Spellings
  <2>2. paths' = paths \/ paths' = paths \cup {n}
    BY <1>2 DEF AddPath, PathsAfterAdd
  <2> QED BY <2>1, <2>2
<1>3. CASE UserStep
  <2>1. UNCHANGED <<sizes, paths, creating, startup>>
    BY <1>3 DEF UserStep, CreateFile, WriteFile, Unlink, Mkdir, Rmdir, RenameFile,
                UserChange
  <2> QED BY <2>1
<1>4. CASE StartupStep
  <2>1. ASSUME NEW p \in Dirs, ScanVisit(p) PROVE IgnoreInv'
    <3>1. UNCHANGED <<paths, creating, listed>>
      BY <2>1 DEF ScanVisit
    <3>2. sizes' = sizes \/ (p \notin Ignored /\ sizes' = [sizes EXCEPT ![p] = size[p]])
      BY <2>1 DEF ScanVisit
    <3> QED BY <2>1, <3>1, <3>2, <1>10, Spellings
  <2>2. ASSUME NEW p \in Dirs, WatchList(p) PROVE IgnoreInv'
    BY <2>2 DEF WatchList
  <2>3. CASE WatchAdd
    <3>1. listed.dir \in Dirs /\ listed.dir \notin Ignored
      BY <2>3 DEF WatchAdd, TypeInv, TypeOK
    <3> QED BY <2>3, <3>1, <1>0, <1>2, Spellings DEF WatchAdd, Unlisted
  <2> QED BY <1>4, <2>1, <2>2, <2>3
          DEF StartupStep, ScanDone, WatchDone, ReadWalkFails
<1>5. CASE RunStep \/ HandleError \/ Signal \/ HandleSignal \/ UNCHANGED vars
  <2>1. UNCHANGED <<sizes, paths, creating, listed>>
    BY <1>5 DEF RunStep, FsnotifyDiscard, FsnotifySelf, RunTake, RunPutEvent,
                RunPutError, HandleError, Signal, HandleSignal, vars
  <2> QED BY <2>1
<1>6. ASSUME NEW p
      PROVE  \A r : r \in PathsAfterRemove(p) => r \in paths
  BY DEF PathsAfterRemove
<1>7. CASE HandleEvent
  <2> DEFINE p == Head(events).path
  <2>1. CASE HandleIgnored
    BY <2>1, <1>6 DEF HandleIgnored
  <2>2. CASE HandleWrite
    <3>1. p \in Dirs /\ EventName[p] \in NamesOf(p) /\ p \notin Ignored
      BY <1>7, <1>9, <1>11, <2>2, Spellings DEF HandleWrite
    <3>2. sizes' = [sizes EXCEPT ![EventName[p]] = getFileSize(p)]
          /\ UNCHANGED <<paths, creating, listed>>
      BY <2>2 DEF HandleWrite
    <3> QED BY <3>1, <3>2, <1>10
  <2>3. CASE HandleGone
    <3>1. p \in Dirs /\ EventName[p] \in NamesOf(p) /\ p \notin Ignored
      BY <1>7, <1>9, <1>11, <2>3, Spellings DEF HandleGone
    <3>2. /\ sizes' = [sizes EXCEPT ![EventName[p]] = NoEntry]
          /\ paths' = PathsAfterRemove(p) /\ UNCHANGED <<creating, listed>>
      BY <2>3 DEF HandleGone, SizesWithout
    <3> QED BY <3>1, <3>2, <1>6, <1>10
  <2>4. CASE HandleCreate
    BY <2>4 DEF HandleCreate
  <2> QED BY <1>7, <2>1, <2>2, <2>3, <2>4 DEF HandleEvent
<1>8. CASE FinishCreate
  <2>1. CASE FinishCreateDir
    <3> DEFINE p == creating.path
    <3>1. p \in Dirs /\ EventName[p] \in NamesOf(p) /\ p \notin Ignored
      BY <1>9, <1>12, <2>1, Spellings DEF FinishCreateDir
    <3>2. AddPath(p, EventName[p]) /\ UNCHANGED <<sizes, listed>>
          /\ creating' = NotCreating
      BY <2>1 DEF FinishCreateDir
    <3>3. \A r \in Ignored : NamesOf(r) \cap paths' = {}
      BY <3>1, <3>2, <1>2
    <3> QED BY <3>2, <3>3, <1>0 DEF NotCreating
  <2>2. CASE FinishCreateFile
    <3> DEFINE p == creating.path
    <3>1. p \in Dirs /\ EventName[p] \in NamesOf(p) /\ p \notin Ignored
      BY <1>9, <1>12, <2>2, Spellings DEF FinishCreateFile
    <3>2. /\ sizes' = [sizes EXCEPT ![EventName[p]] = getFileSize(p)]
          /\ UNCHANGED <<paths, listed>> /\ creating' = NotCreating
      BY <2>2 DEF FinishCreateFile
    <3>3. \A r \in Ignored : \A m \in NamesOf(r) : sizes'[m] = NoEntry
      BY <3>1, <3>2, <1>10
    <3> QED BY <3>2, <3>3, <1>0 DEF NotCreating
  <2> QED BY <1>8, <2>1, <2>2 DEF FinishCreate
<1> QED BY <1>3, <1>4, <1>5, <1>7, <1>8 DEF Next, Terminated

\* IgnoredStay: whatever the users do, an ignored path never enters the size
\* table nor the watched paths, under none of its names.
THEOREM IgnoredStay == Spec => []IgnoredUntouched
<1>1. Init => IgnoreInv
  <2>1. ASSUME NEW r \in Ignored PROVE NamesOf(r) \subseteq Names /\ r # NoPath
    BY TreeAssumption, ConfigAssumption DEF NamesOf, Names, Dirs
  <2> QED BY <2>1 DEF Init, IgnoreInv, IgnoredUntouched, Unlisted, NotCreating
<1>2. IgnoreInv => IgnoredUntouched
  BY DEF IgnoreInv
<1> QED BY <1>1, <1>2, InitType, NextType, NextIgnore, PTL DEF Spec

=============================================================================
