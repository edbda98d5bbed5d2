--------------------------- MODULE DirAgreeProofs ---------------------------
(***************************************************************************)
(* SizesAgree and WatchesAgree of DirMonitor: once all that is queued      *)
(* about a path has been handled, the size table and the watches agree     *)
(* with the disk.  The invariant follows the notes about one path down the *)
(* line kq, hand, events, creating: the last of them tells of what is at   *)
(* the path now, or there is none left and the path has been dealt with.   *)
(***************************************************************************)
EXTENDS DirMonitorProofs

\* e is about path p.
About(e, p) == e.path = p /\ e.op \in FileOps

\* Nothing in s is about p; the last in s about p is a member of B.
Silent(s, p) == \A i \in DOMAIN s : ~About(s[i], p)

Last(s, p, B) ==
  \E i \in DOMAIN s : s[i] \in B /\ \A j \in DOMAIN s : j > i => ~About(s[j], p)

\* The notes about p with an operation of ops that fsnotify will pass on, and
\* the events Run makes of them.
Fresh(p, ops) ==
  {[path |-> p, op |-> o, gen |-> gen[Parent[p]]] : o \in {x \in ops : Parent[p] \in table}}
Told(p, ops) == {[path |-> p, op |-> o] : o \in ops}

\* The last in the line q, h, ev about p, if there is one: q holds notes, h
\* and ev what Run has made of earlier ones.
Line(q, h, ev, p, K, B) ==
  \/ Last(q, p, K)
  \/ Silent(q, p) /\ Last(h, p, B)
  \/ Silent(q, p) /\ Silent(h, p) /\ Last(ev, p, B)

Unheard(p) == Silent(kq, p) /\ Silent(hand, p) /\ Silent(events, p)
Coming(p, ops) == Line(kq, hand, events, p, Fresh(p, ops), Told(p, ops))

-----------------------------------------------------------------------------
(***************************************************************************)
(* Silent and Last of a sequence that grows and shrinks.                   *)
(***************************************************************************)
\* One more item in a sequence.
LEMMA SilentAppend ==
  ASSUME NEW S, NEW s \in Seq(S), NEW e \in S, NEW p
  PROVE  /\ Silent(s, p) /\ ~About(e, p) => Silent(Append(s, e), p)
         /\ Silent(Append(s, e), p) => Silent(s, p) /\ ~About(e, p)
<1>1. /\ DOMAIN Append(s, e) = 1 .. Len(s) + 1 /\ DOMAIN s = 1 .. Len(s)
      /\ Append(s, e)[Len(s) + 1] = e /\ Len(s) \in Nat
      /\ \A i \in 1 .. Len(s) : Append(s, e)[i] = s[i]
  OBVIOUS
<1>2. 1 .. Len(s) + 1 = (1 .. Len(s)) \cup {Len(s) + 1}
  BY <1>1
<1> QED BY <1>1, <1>2 DEF Silent

LEMMA LastAppend ==
  ASSUME NEW S, NEW s \in Seq(S), NEW e \in S, NEW p, NEW B
  PROVE  /\ Last(s, p, B) /\ ~About(e, p) => Last(Append(s, e), p, B)
         /\ e \in B => Last(Append(s, e), p, B)
<1>1. /\ DOMAIN Append(s, e) = 1 .. Len(s) + 1 /\ DOMAIN s = 1 .. Len(s)
      /\ Append(s, e)[Len(s) + 1] = e /\ Len(s) \in Nat
      /\ \A i \in 1 .. Len(s) : Append(s, e)[i] = s[i]
  OBVIOUS
<1>2. 1 .. Len(s) + 1 = (1 .. Len(s)) \cup {Len(s) + 1}
  BY <1>1
<1>3. ASSUME e \in B PROVE Last(Append(s, e), p, B)
  <2>1. \A j \in 1 .. Len(s) + 1 : ~(j > Len(s) + 1)
    BY <1>1
  <2> QED BY <1>1, <1>3, <2>1 DEF Last
<1>4. ASSUME Last(s, p, B), ~About(e, p) PROVE Last(Append(s, e), p, B)
  <2>1. PICK i \in 1 .. Len(s) : s[i] \in B /\ \A j \in 1 .. Len(s) : j > i => ~About(s[j], p)
    BY <1>1, <1>4 DEF Last
  <2>2. Append(s, e)[i] \in B /\ i \in DOMAIN Append(s, e)
    BY <1>1, <1>2, <2>1
  <2>3. ASSUME NEW j \in DOMAIN Append(s, e), j > i PROVE ~About(Append(s, e)[j], p)
    BY <1>1, <1>2, <1>4, <2>1, <2>3
  <2> QED BY <2>2, <2>3 DEF Last
<1> QED BY <1>3, <1>4

\* The head taken off.
LEMMA SilentTail ==
  ASSUME NEW S, NEW s \in Seq(S), s # <<>>, NEW p
  PROVE  /\ Silent(s, p) => Silent(Tail(s), p) /\ ~About(Head(s), p)
         /\ Silent(Tail(s), p) /\ ~About(Head(s), p) => Silent(s, p)
<1>1. /\ DOMAIN Tail(s) = 1 .. Len(s) - 1 /\ DOMAIN s = 1 .. Len(s)
      /\ Len(s) \in Nat /\ Len(s) # 0 /\ Head(s) = s[1]
      /\ \A i \in 1 .. Len(s) - 1 : Tail(s)[i] = s[i + 1]
  OBVIOUS
<1>2. /\ \A i \in 1 .. Len(s) - 1 : i + 1 \in 1 .. Len(s)
      /\ 1 \in 1 .. Len(s)
      /\ \A i \in 1 .. Len(s) : i = 1 \/ (i - 1 \in 1 .. Len(s) - 1 /\ (i - 1) + 1 = i)
  BY <1>1
<1>3. ASSUME Silent(s, p) PROVE Silent(Tail(s), p) /\ ~About(Head(s), p)
  BY <1>1, <1>2, <1>3 DEF Silent
<1>4. ASSUME Silent(Tail(s), p), ~About(Head(s), p), NEW i \in DOMAIN s
      PROVE  ~About(s[i], p)
  BY <1>1, <1>2, <1>4 DEF Silent
<1> QED BY <1>3, <1>4 DEF Silent

LEMMA LastTail ==
  ASSUME NEW S, NEW s \in Seq(S), s # <<>>, NEW p, NEW B, Last(s, p, B)
  PROVE  Last(Tail(s), p, B) \/ (Head(s) \in B /\ Silent(Tail(s), p))
<1>1. /\ DOMAIN Tail(s) = 1 .. Len(s) - 1 /\ DOMAIN s = 1 .. Len(s)
      /\ Len(s) \in Nat /\ Len(s) # 0 /\ Head(s) = s[1]
      /\ \A i \in 1 .. Len(s) - 1 : Tail(s)[i] = s[i + 1]
  OBVIOUS
<1>2. PICK i \in 1 .. Len(s) : s[i] \in B /\ \A j \in 1 .. Len(s) : j > i => ~About(s[j], p)
  BY <1>1 DEF Last
<1>3. CASE i = 1
  <2>1. ASSUME NEW j \in 1 .. Len(s) - 1 PROVE ~About(Tail(s)[j], p)
    BY <1>1, <1>2, <1>3
  <2> QED BY <1>1, <1>2, <1>3, <2>1 DEF Silent
<1>4. CASE i # 1
  <2>1. i - 1 \in DOMAIN Tail(s) /\ Tail(s)[i - 1] = s[i]
    BY <1>1, <1>2, <1>4
  <2>2. ASSUME NEW j \in DOMAIN Tail(s), j > i - 1 PROVE ~About(Tail(s)[j], p)
    <3>1. j + 1 \in 1 .. Len(s) /\ j + 1 > i /\ Tail(s)[j] = s[j + 1]
      BY <1>1, <1>2, <2>2
    <3> QED BY <3>1, <1>2
  <2> QED BY <1>2, <2>1, <2>2 DEF Last
<1> QED BY <1>3, <1>4

\* Nothing is in an empty sequence; a sequence of one.
LEMMA EmptyLine ==
  ASSUME NEW p, NEW B PROVE Silent(<<>>, p) /\ ~Last(<<>>, p, B)
BY DEF Silent, Last

LEMMA SingleLine ==
  ASSUME NEW x, NEW p, NEW B
  PROVE  /\ ~About(x, p) <=> Silent(<<x>>, p)
         /\ x \in B <=> Last(<<x>>, p, B)
<1>1. DOMAIN <<x>> = {1} /\ <<x>>[1] = x
  OBVIOUS
<1>2. Silent(<<x>>, p) <=> ~About(x, p)
  BY <1>1 DEF Silent
<1>3. Last(<<x>>, p, B) <=> x \in B
  BY <1>1 DEF Last
<1> QED BY <1>2, <1>3

\* A sequence that holds at most one item, and is not empty.
LEMMA OnlyItem ==
  ASSUME NEW S, NEW s \in Seq(S), Len(s) <= 1, s # <<>>
  PROVE  s = <<s[1]>> /\ s[1] \in S
<1>1. Len(s) \in Nat /\ Len(s) # 0
  OBVIOUS
<1>2. Len(s) = 1
  BY <1>1
<1> QED BY <1>2

\* What is about p is not silent about it.
LEMMA LastNotSilent ==
  ASSUME NEW s, NEW p, NEW B, \A x \in B : About(x, p), Last(s, p, B)
  PROVE  ~Silent(s, p)
BY DEF Last, Silent

LEMMA LastMono ==
  ASSUME NEW s, NEW p, NEW B, NEW C, Last(s, p, B), B \subseteq C
  PROVE  Last(s, p, C)
BY DEF Last

\* The members of Fresh and of Told are about p and known to fsnotify.
LEMMA FreshAbout ==
  ASSUME NEW p, NEW ops \in SUBSET FileOps
  PROVE  /\ \A e \in Fresh(p, ops) : /\ About(e, p) /\ e.op \in ops /\ Known(e)
                                     /\ e.gen = gen[Parent[p]] /\ Parent[p] \in table
         /\ \A x \in Told(p, ops) : About(x, p) /\ x.op \in ops
<1>1. "self" \notin FileOps
  BY DEF FileOps
<1>2. ASSUME NEW e \in Fresh(p, ops)
      PROVE /\ About(e, p) /\ e.op \in ops /\ Known(e)
            /\ e.gen = gen[Parent[p]] /\ Parent[p] \in table
  <2>1. /\ e.path = p /\ e.op \in ops /\ e.op \in FileOps
        /\ e.gen = gen[Parent[p]] /\ Parent[p] \in table
    BY <1>2 DEF Fresh
  <2> QED BY <1>1, <2>1 DEF About, Known
<1>3. ASSUME NEW x \in Told(p, ops) PROVE About(x, p) /\ x.op \in ops
  BY <1>3 DEF Told, About
<1> QED BY <1>2, <1>3

-----------------------------------------------------------------------------
(***************************************************************************)
(* Mailboxes: posting carries on what is queued about other paths.         *)
(***************************************************************************)
Carries(b, c, p) ==
  /\ \A B : Last(b.q, p, B) => Last(c.q, p, B)
  /\ Silent(b.q, p) => Silent(c.q, p)
  /\ p \in b.blind => p \in c.blind

LEMMA CarriesTrans ==
  ASSUME NEW b, NEW c, NEW d, NEW p, Carries(b, c, p), Carries(c, d, p)
  PROVE  Carries(b, d, p)
BY DEF Carries

LEMMA OverflowedCarries ==
  ASSUME NEW b, BoxOK(b), NEW L, NEW p PROVE Carries(b, Overflowed(b, L), p)
<1>1. b.q \in Seq(Notes) /\ OverflowMark \in Notes
  BY DEF BoxOK, QueueOK, Notes
<1>2. /\ Overflowed(b, L).blind = b.blind \cup L
      /\ Overflowed(b, L).q = b.q \/ Overflowed(b, L).q = Append(b.q, OverflowMark)
  BY DEF Overflowed, BoxOK
<1>3. ~About(OverflowMark, p)
  BY DEF About, OverflowMark, FileOps
<1>4. \A B : Last(b.q, p, B) => Last(Append(b.q, OverflowMark), p, B)
  BY <1>1, <1>3, LastAppend
<1>5. Silent(b.q, p) => Silent(Append(b.q, OverflowMark), p)
  BY <1>1, <1>3, SilentAppend
<1> QED BY <1>2, <1>4, <1>5 DEF Carries

\* An announcement about r leaves what is known of another path p.
LEMMA AnnounceCarries ==
  ASSUME TypeOK, NEW b, BoxOK(b), NEW r \in Paths, NEW op \in FileOps, NEW p, p # r
  PROVE  /\ Carries(b, Announce(b, r, op), p)
         /\ p \in Announce(b, r, op).blind => p \in b.blind
         /\ Announce(b, r, op).live = b.live
<1> DEFINE e == [path |-> r, op |-> op, gen |-> gen[Parent[r]]]
<1>1. b.q \in Seq(Notes) /\ e \in Notes /\ ~About(e, p)
  BY TreeAssumption DEF TypeOK, Notes, BoxOK, QueueOK, About
<1>2. CASE Parent[r] \notin b.live
  <2>1. /\ Announce(b, r, op).live = b.live /\ Announce(b, r, op).q = b.q
        /\ Announce(b, r, op).blind = b.blind \cup {r}
    BY <1>2 DEF Announce, BoxOK
  <2> QED BY <2>1 DEF Carries
<1>3. CASE Parent[r] \in b.live /\ Len(b.q) < KernelCap
  <2>1. /\ Announce(b, r, op).live = b.live /\ Announce(b, r, op).q = Append(b.q, e)
        /\ Announce(b, r, op).blind = b.blind \ {r}
    BY <1>3 DEF Announce, BoxOK
  <2> HIDE DEF e
  <2>2. \A B : Last(b.q, p, B) => Last(Append(b.q, e), p, B)
    BY <1>1, LastAppend
  <2>3. Silent(b.q, p) => Silent(Append(b.q, e), p)
    BY <1>1, SilentAppend
  <2> QED BY <2>1, <2>2, <2>3 DEF Carries
<1>4. CASE Parent[r] \in b.live /\ ~(Len(b.q) < KernelCap)
  <2>1. Announce(b, r, op) = Overflowed(b, {r})
    BY <1>4 DEF Announce
  <2>2. /\ Overflowed(b, {r}).live = b.live
        /\ Overflowed(b, {r}).blind = b.blind \cup {r}
    BY DEF Overflowed, BoxOK
  <2> QED BY <2>1, <2>2, OverflowedCarries
<1> QED BY <1>2, <1>3, <1>4

\* Announced or not, the program is not left with older news of p: p is blind
\* or the note is the last about it.
LEMMA AnnounceTells ==
  ASSUME TypeOK, NEW b, BoxOK(b), NEW p \in Paths, NEW op \in FileOps
  PROVE  \/ p \in Announce(b, p, op).blind
         \/ /\ Parent[p] \in b.live
            /\ Last(Announce(b, p, op).q, p,
                    {[path |-> p, op |-> op, gen |-> gen[Parent[p]]]})
<1> DEFINE e == [path |-> p, op |-> op, gen |-> gen[Parent[p]]]
<1>1. b.q \in Seq(Notes) /\ e \in Notes
  BY TreeAssumption DEF TypeOK, Notes, BoxOK, QueueOK
<1>2. CASE Parent[p] \notin b.live
  BY <1>2 DEF Announce, BoxOK
<1>3. CASE Parent[p] \in b.live /\ Len(b.q) < KernelCap
  <2>1. Announce(b, p, op).q = Append(b.q, e)
    BY <1>3 DEF Announce, BoxOK
  <2> HIDE DEF e
  <2>2. Last(Append(b.q, e), p, {e})
    BY <1>1, LastAppend
  <2>3. Parent[p] \in b.live /\ Last(Announce(b, p, op).q, p, {e})
    BY <1>3, <2>1, <2>2
  <2> QED BY <2>3 DEF e
<1>4. CASE Parent[p] \in b.live /\ ~(Len(b.q) < KernelCap)
  <2>1. Announce(b, p, op) = Overflowed(b, {p})
    BY <1>4 DEF Announce
  <2>2. Overflowed(b, {p}).blind = b.blind \cup {p}
    BY DEF Overflowed, BoxOK
  <2> QED BY <2>1, <2>2
<1> QED BY <1>2, <1>3, <1>4

\* The report that what was at r is gone is about no path's contents.
LEMMA AnnounceGoneCarries ==
  ASSUME TypeOK, NEW b, BoxOK(b), NEW r \in Paths, NEW p
  PROVE  /\ Carries(b, AnnounceGone(b, r), p)
         /\ p \in AnnounceGone(b, r).blind => p \in b.blind
         /\ p # r => (p \in AnnounceGone(b, r).live <=> p \in b.live)
<1> DEFINE e == [path |-> r, op |-> "self", gen |-> gen[r]]
           c == [b EXCEPT !.live = @ \ {r}]
<1>1. b.q \in Seq(Notes) /\ e \in Notes /\ ~About(e, p)
  BY DEF TypeOK, Notes, BoxOK, QueueOK, Dirs, About, FileOps
<1>2. BoxOK(c) /\ c.q = b.q /\ c.live = b.live \ {r} /\ c.blind = b.blind
  BY DEF BoxOK
<1>3. Carries(b, c, p)
  BY <1>2 DEF Carries
<1>4. CASE r \notin b.live
  BY <1>4 DEF AnnounceGone, Carries
<1>5. CASE r \in b.live /\ Len(b.q) < KernelCap
  <2>1. /\ AnnounceGone(b, r).q = Append(b.q, e)
        /\ AnnounceGone(b, r).live = b.live \ {r}
        /\ AnnounceGone(b, r).blind = b.blind
    BY <1>2, <1>5 DEF AnnounceGone, BoxOK
  <2> HIDE DEF e
  <2>2. \A B : Last(b.q, p, B) => Last(Append(b.q, e), p, B)
    BY <1>1, LastAppend
  <2>3. Silent(b.q, p) => Silent(Append(b.q, e), p)
    BY <1>1, SilentAppend
  <2> QED BY <2>1, <2>2, <2>3 DEF Carries
<1>6. CASE r \in b.live /\ ~(Len(b.q) < KernelCap)
  <2>1. AnnounceGone(b, r) = Overflowed(c, {})
    BY <1>2, <1>6 DEF AnnounceGone
  <2> HIDE DEF c
  <2>2. /\ Overflowed(c, {}).live = c.live
        /\ Overflowed(c, {}).blind = c.blind \cup {}
    BY <1>2 DEF Overflowed, BoxOK
  <2>3. Carries(c, Overflowed(c, {}), p)
    BY <1>2, OverflowedCarries
  <2>4. Carries(b, AnnounceGone(b, r), p)
    BY <1>3, <2>1, <2>3, CarriesTrans
  <2> QED BY <1>2, <2>1, <2>2, <2>4
<1> QED BY <1>4, <1>5, <1>6

-----------------------------------------------------------------------------
(***************************************************************************)
(* Three invariants of their own: what is present sits in a directory;     *)
(* nothing is on its way before the service loop runs; and notes about     *)
(* what was in a directory do not come after the report that the directory *)
(* of that watch is gone.                                                  *)
(***************************************************************************)
TreeInv ==
  /\ \A p \in Paths : kind[p] # "absent" => IsDir(Parent[p])
  /\ LogFile # NoPath => kind[LogFile] = "file"

\* The scan makes no entry under a name that only the events use.
ScanInv ==
  phase = "scan" =>
    \A p \in Paths : EventName[p] # p => sizes[EventName[p]] = NoEntry

StartInv ==
  /\ phase = "scan" => live = {} /\ kq = <<>>
  /\ phase \in {"scan", "watch"} => hand = <<>> /\ events = <<>> /\ creating = NotCreating
  /\ ScanInv

Ordered(q) ==
  \A i, j \in DOMAIN q :
    i < j /\ q[i].op = "self" /\ q[j].op \in FileOps /\ q[i].path = Parent[q[j].path]
      => q[i].gen # q[j].gen

OrderInv == Ordered(kq)

\* No path encloses itself.
LEMMA NotOwnParent == \A p \in Paths : Parent[p] # p
<1> SUFFICES ASSUME NEW p \in Paths, Parent[p] = p PROVE FALSE
  OBVIOUS
<1>1. {p} \in SUBSET Paths /\ {p} # {}
  OBVIOUS
<1>2. \E q \in {p} : Parent[q] \notin {p}
  BY <1>1, TreeAssumption
<1> QED BY <1>2

LEMMA UserTree == ASSUME TypeInv, TreeInv, UserStep PROVE TreeInv'
<1>0. /\ kind \in [Paths -> {"absent", "file", "dir"}] /\ Root \notin Paths
      /\ Parent \in [Paths -> Dirs] /\ LogFile \in Paths \cup {NoPath}
  BY TreeAssumption, ConfigAssumption DEF TypeInv, TypeOK
<1>1. SUFFICES ASSUME NEW p \in Paths,
                      \/ CreateFile(p) \/ Unlink(p) \/ Mkdir(p) \/ Rmdir(p)
                      \/ \E n \in Sizes : WriteFile(p, n)
                      \/ \E q \in Paths : RenameFile(p, q)
               PROVE  TreeInv'
  BY DEF UserStep
<1>2. ASSUME NEW k \in {"absent", "file", "dir"}, kind' = [kind EXCEPT ![p] = k], UserMay({p}),
             k # "dir" => \A q \in Paths : Parent[q] = p => kind[q] = "absent"
      PROVE  TreeInv'
  <2>1. LogFile # NoPath => kind'[LogFile] = "file"
    BY <1>0, <1>2 DEF TreeInv, UserMay
  <2>2. ASSUME NEW q \in Paths, kind'[q] # "absent" PROVE IsDir(Parent[q])'
    <3>1. CASE q = p
      <4>1. IsDir(Parent[p]) /\ Parent[p] # p
        BY <1>2, NotOwnParent DEF UserMay
      <4> QED BY <1>0, <1>2, <3>1, <4>1 DEF IsDir, Dirs
    <3>2. CASE q # p
      <4>1. kind[q] # "absent" /\ IsDir(Parent[q])
        BY <1>0, <1>2, <2>2, <3>2 DEF TreeInv
      <4>2. Parent[q] # p \/ k = "dir"
        BY <1>2, <4>1
      <4> QED BY <1>0, <1>2, <4>1, <4>2 DEF IsDir, Dirs
    <3> QED BY <3>1, <3>2
  <2> QED BY <2>1, <2>2 DEF TreeInv
<1>3. CASE CreateFile(p) \/ Unlink(p)
  <2>1. \A q \in Paths : Parent[q] = p => kind[q] = "absent"
    BY <1>0, <1>3 DEF CreateFile, Unlink, TreeInv, IsDir
  <2>2. UserMay({p}) /\ \E k \in {"absent", "file"} : kind' = [kind EXCEPT ![p] = k]
    BY <1>3 DEF CreateFile, Unlink, UserChange
  <2> QED BY <1>2, <2>1, <2>2
<1>4. CASE Mkdir(p)
  BY <1>2, <1>4 DEF Mkdir, UserChange
<1>5. CASE Rmdir(p)
  <2>1. \A q \in Paths : Parent[q] = p => kind[q] = "absent"
    BY <1>5 DEF Rmdir, ChildrenOf
  <2> QED BY <1>2, <1>5, <2>1 DEF Rmdir, UserChange
<1>6. CASE \E n \in Sizes : WriteFile(p, n)
  <2>1. kind' = kind
    BY <1>6 DEF WriteFile, UserChange
  <2> QED BY <2>1 DEF TreeInv, IsDir
<1>7. ASSUME NEW r \in Paths, RenameFile(p, r) PROVE TreeInv'
  <2>1. /\ kind' = [kind EXCEPT ![p] = "absent", ![r] = "file"] /\ p # r
        /\ kind[p] = "file" /\ kind[r] \in {"absent", "file"} /\ LogFile \notin {p, r}
        /\ IsDir(Parent[p]) /\ IsDir(Parent[r])
    BY <1>7 DEF RenameFile, UserChange, UserMay
  <2>2. \A q \in Paths : kind'[q] = IF q = r THEN "file" ELSE IF q = p THEN "absent" ELSE kind[q]
    BY <1>0, <2>1
  <2>3. ASSUME NEW q \in Paths, kind'[q] # "absent" PROVE IsDir(Parent[q])'
    <3>1. IsDir(Parent[q])
      BY <2>1, <2>2, <2>3 DEF TreeInv
    <3>2. Parent[q] \notin {p, r}
      BY <1>0, <2>1, <3>1 DEF IsDir
    <3> QED BY <1>0, <2>2, <3>1, <3>2 DEF IsDir, Dirs
  <2>4. LogFile # NoPath => kind'[LogFile] = "file"
    BY <1>0, <2>1, <2>2 DEF TreeInv
  <2> QED BY <2>3, <2>4 DEF TreeInv
<1> QED BY <1>1, <1>3, <1>4, <1>5, <1>6, <1>7

\* The program changes no kind.
LEMMA OnlyUsers ==
  ASSUME StartupStep \/ RunStep \/ HandleEvent \/ FinishCreate \/ HandleError
         \/ Signal \/ HandleSignal \/ Terminated
  PROVE  kind' = kind
<1> USE DEF disk
<1>1. CASE StartupStep
  BY <1>1 DEF StartupStep, ScanVisit, WatchList, ScanDone, WatchAdd, WatchDone, ReadWalkFails
<1>2. CASE RunStep
  BY <1>2 DEF RunStep, FsnotifyDiscard, FsnotifySelf, RunTake, RunPutEvent, RunPutError
<1>3. CASE HandleEvent \/ FinishCreate \/ HandleError
  BY <1>3 DEF HandleEvent, HandleIgnored, HandleWrite, HandleGone, HandleCreate,
              FinishCreate, FinishCreateDir, FinishCreateFile, HandleError
<1> QED BY <1>1, <1>2, <1>3 DEF Signal, HandleSignal, Terminated, vars

LEMMA NextTree == TypeInv /\ TreeInv /\ [Next]_vars => TreeInv'
<1> SUFFICES ASSUME TypeInv, TreeInv, [Next]_vars PROVE TreeInv'
  OBVIOUS
<1>1. CASE kind' = kind
  BY <1>1 DEF TreeInv, IsDir
<1> QED BY <1>1, UserTree, OnlyUsers DEF Next, vars, disk

LEMMA NextScan == TypeInv /\ ScanInv /\ [Next]_vars => ScanInv'
<1> SUFFICES ASSUME TypeInv, ScanInv, [Next]_vars, phase' = "scan" PROVE ScanInv'
  BY DEF ScanInv
<1>1. CASE phase = "scan" /\ sizes' = sizes
  BY <1>1 DEF ScanInv
<1>2. ASSUME NEW d \in Dirs, ScanVisit(d) PROVE ScanInv'
  <2>1. /\ phase = "scan" /\ sizes \in [Names -> Sizes \cup {NoEntry}]
        /\ sizes' = sizes \/ (d \in Paths /\ sizes' = [sizes EXCEPT ![d] = size[d]])
    BY <1>2 DEF ScanVisit, Dirs, TypeInv, TypeOK
  <2>2. ASSUME NEW p \in Paths, EventName[p] # p PROVE sizes'[EventName[p]] = NoEntry
    <3>1. EventName[p] \in Names /\ d \in Paths => EventName[p] # d
      BY <2>2, SpellingAssumption DEF Names
    <3>2. EventName[p] \in Names
      BY Spellings
    <3>3. sizes'[EventName[p]] = sizes[EventName[p]]
      BY <2>1, <3>1, <3>2
    <3> QED BY <2>1, <2>2, <3>3 DEF ScanInv
  <2> QED BY <2>2 DEF ScanInv
<1>3. CASE UserStep \/ Signal \/ UNCHANGED vars
  <2>1. UNCHANGED <<phase, sizes>> \/ (phase = "scan" /\ sizes' = sizes)
        \/ phase' = "stopped"
    BY <1>3 DEF UserStep, CreateFile, WriteFile, Unlink, Mkdir, Rmdir, RenameFile, UserChange,
                Signal, vars, startup
  <2> QED BY <1>1, <2>1
<1>4. CASE StartupStep
  <2>1. (\E d \in Dirs : ScanVisit(d)) \/ phase' # "scan"
    BY <1>4 DEF StartupStep, ScanDone, WatchList, WatchAdd, WatchDone, ReadWalkFails
  <2> QED BY <1>2, <2>1
<1>5. ASSUME RunStep \/ HandleEvent \/ FinishCreate \/ HandleError \/ HandleSignal
      PROVE  phase' # "scan"
  BY <1>5 DEF RunStep, FsnotifyDiscard, FsnotifySelf, RunTake, RunPutEvent, RunPutError, Idle,
              HandleEvent, HandleIgnored, HandleWrite, HandleGone, HandleCreate, Receive,
              Selecting, FinishCreate, FinishCreateDir, FinishCreateFile, HandleError,
              HandleSignal, printRecord, WriteLog, startup
<1> QED BY <1>3, <1>4, <1>5 DEF Next, Terminated

LEMMA NextStart == TypeInv /\ StartInv /\ [Next]_vars => StartInv'
<1> SUFFICES ASSUME TypeInv, StartInv, [Next]_vars PROVE StartInv'
  OBVIOUS
<1>0. ScanInv'
  BY NextScan DEF StartInv
<1> USE <1>0 DEF StartInv
<1>1. CASE UserStep
  <2>1. SUFFICES ASSUME NEW k, NEW z, NEW b, UserChange(k, z, b),
                        phase = "scan" => b.live = live /\ b.q = kq
                 PROVE  StartInv'
    <3>1. SUFFICES ASSUME NEW p \in Paths,
                          \/ CreateFile(p) \/ Unlink(p) \/ Mkdir(p) \/ Rmdir(p)
                          \/ \E n \in Sizes : WriteFile(p, n)
                          \/ \E q \in Paths : RenameFile(p, q)
                   PROVE  \E k, z, b : UserChange(k, z, b) /\
                             (phase = "scan" => b.live = live /\ b.q = kq)
      BY <1>1, <2>1 DEF UserStep
    <3>2. ASSUME NEW b, b.live = {}, NEW r, NEW op
          PROVE  /\ Announce(b, r, op).live = b.live /\ Announce(b, r, op).q = b.q
                 /\ AnnounceGone(b, r).live = b.live /\ AnnounceGone(b, r).q = b.q
      BY <3>2 DEF Announce, AnnounceGone
    <3>3. /\ Mailbox.live = live /\ Mailbox.q = kq
          /\ phase = "scan" => live = {}
      BY DEF Mailbox
    <3>4. \A r, op : phase = "scan" => /\ Announce(Mailbox, r, op).live = live
                                       /\ Announce(Mailbox, r, op).q = kq
                                       /\ AnnounceGone(Mailbox, r).live = live
                                       /\ AnnounceGone(Mailbox, r).q = kq
      BY <3>2, <3>3
    <3>5. CASE CreateFile(p) \/ Mkdir(p) \/ \E n \in Sizes : WriteFile(p, n)
      BY <3>4, <3>5 DEF CreateFile, Mkdir, WriteFile
    <3>6. CASE Unlink(p)
      <4>1. phase = "scan" => /\ AnnounceGone(Announce(Mailbox, p, "remove"), p).live = live
                              /\ AnnounceGone(Announce(Mailbox, p, "remove"), p).q = kq
        BY <3>2, <3>3, <3>4
      <4> QED BY <3>6, <4>1 DEF Unlink
    <3>7. CASE Rmdir(p)
      <4>1. phase = "scan" => /\ AnnounceGone(Announce(Mailbox, p, "remove"), p).live = live
                              /\ AnnounceGone(Announce(Mailbox, p, "remove"), p).q = kq
                              /\ Announce(AnnounceGone(Mailbox, p), p, "remove").live = live
                              /\ Announce(AnnounceGone(Mailbox, p), p, "remove").q = kq
        BY <3>2, <3>3, <3>4
      <4> QED BY <3>7, <4>1 DEF Rmdir
    <3>8. ASSUME NEW q \in Paths, RenameFile(p, q)
          PROVE  \E k, z, b : UserChange(k, z, b) /\
                    (phase = "scan" => b.live = live /\ b.q = kq)
      <4> DEFINE b == Announce(Announce(Mailbox, p, "rename"), q, "create")
      <4>1. phase = "scan" => b.live = live /\ b.q = kq
        BY <3>2, <3>3, <3>4
      <4>2. phase = "scan" => AnnounceGone(b, q).live = live /\ AnnounceGone(b, q).q = kq
        BY <3>2, <3>3, <4>1
      <4> QED BY <3>8, <4>2 DEF RenameFile
    <3> QED BY <3>1, <3>5, <3>6, <3>7, <3>8
  <2>2. /\ UNCHANGED <<hand, events, creating, phase>>
        /\ kq' = b.q /\ live' = b.live
    BY <2>1 DEF UserChange, SetMailbox, pipe, startup
  <2> QED BY <2>1, <2>2
<1>2. CASE StartupStep
  BY <1>2 DEF StartupStep, ScanVisit, WatchList, ScanDone, WatchAdd, WatchDone, ReadWalkFails,
              AddPath, inotify, pipe
<1>3. CASE RunStep \/ HandleEvent \/ FinishCreate \/ HandleError
  <2>1. phase = "run" /\ phase' \in {"run", "crashed"}
    BY <1>3 DEF RunStep, FsnotifyDiscard, FsnotifySelf, RunTake, RunPutEvent, RunPutError, Idle,
                HandleEvent, HandleIgnored, HandleWrite, HandleGone, HandleCreate, Receive,
                Selecting, FinishCreate, FinishCreateDir, FinishCreateFile, HandleError,
                printRecord, WriteLog, startup
  <2> QED BY <2>1
<1>4. CASE Signal \/ HandleSignal \/ UNCHANGED vars
  BY <1>4 DEF Signal, HandleSignal, vars, inotify, pipe, startup
<1> QED BY <1>1, <1>2, <1>3, <1>4 DEF Next, Terminated

\* A note is put behind the others in order if no report in the queue is
\* about the watch it comes from.
LEMMA OrderedAppend ==
  ASSUME NEW q \in Seq(Notes), Ordered(q), NEW e \in Notes,
         e.op \in FileOps => \A x \in Elems(q) : x.op = "self" /\ x.path = Parent[e.path]
                                                  => x.gen # e.gen
  PROVE  Ordered(Append(q, e))
<1>1. /\ DOMAIN Append(q, e) = 1 .. Len(q) + 1 /\ DOMAIN q = 1 .. Len(q)
      /\ Append(q, e)[Len(q) + 1] = e /\ Len(q) \in Nat
      /\ \A i \in 1 .. Len(q) : Append(q, e)[i] = q[i]
  OBVIOUS
<1>2. SUFFICES ASSUME NEW i \in 1 .. Len(q) + 1, NEW j \in 1 .. Len(q) + 1, i < j,
                      Append(q, e)[i].op = "self", Append(q, e)[j].op \in FileOps,
                      Append(q, e)[i].path = Parent[Append(q, e)[j].path]
               PROVE  Append(q, e)[i].gen # Append(q, e)[j].gen
  BY <1>1 DEF Ordered
<1>3. i \in 1 .. Len(q) /\ Append(q, e)[i] = q[i] /\ q[i] \in Elems(q)
  BY <1>1, <1>2 DEF Elems
<1>4. CASE j = Len(q) + 1
  BY <1>1, <1>2, <1>3, <1>4
<1>5. CASE j # Len(q) + 1
  <2>1. j \in 1 .. Len(q) /\ Append(q, e)[j] = q[j]
    BY <1>1, <1>5
  <2> QED BY <1>1, <1>2, <1>3, <2>1 DEF Ordered
<1> QED BY <1>4, <1>5

LEMMA OrderedTail ==
  ASSUME NEW q \in Seq(Notes), Ordered(q), q # <<>> PROVE Ordered(Tail(q))
<1>1. /\ DOMAIN Tail(q) = 1 .. Len(q) - 1 /\ DOMAIN q = 1 .. Len(q) /\ Len(q) \in Nat
      /\ \A i \in 1 .. Len(q) - 1 : Tail(q)[i] = q[i + 1]
  OBVIOUS
<1>2. \A i, j \in 1 .. Len(q) - 1 : i < j => /\ i + 1 < j + 1
                                             /\ i + 1 \in 1 .. Len(q) /\ j + 1 \in 1 .. Len(q)
  BY <1>1
<1> QED BY <1>1, <1>2 DEF Ordered

\* Posting keeps the order: a note is posted by a live watch, and a report
\* about a watch with its number would say that it is gone.
LEMMA OverflowedOrdered ==
  ASSUME NEW b, BoxOK(b), Ordered(b.q), NEW L PROVE Ordered(Overflowed(b, L).q)
<1>1. b.q \in Seq(Notes) /\ OverflowMark \in Notes /\ OverflowMark.op \notin FileOps
  BY DEF BoxOK, QueueOK, Notes, OverflowMark, FileOps
<1>2. Overflowed(b, L).q = b.q \/ Overflowed(b, L).q = Append(b.q, OverflowMark)
  BY DEF Overflowed, BoxOK
<1> QED BY <1>1, <1>2, OrderedAppend

LEMMA AnnounceOrdered ==
  ASSUME TypeOK, NEW b, BoxOK(b), BoxGone(b), Ordered(b.q), NEW p \in Paths, NEW op \in FileOps
  PROVE  Ordered(Announce(b, p, op).q)
<1> DEFINE e == [path |-> p, op |-> op, gen |-> gen[Parent[p]]]
<1>1. b.q \in Seq(Notes) /\ e \in Notes
  BY TreeAssumption DEF TypeOK, Notes, BoxOK, QueueOK
<1>2. CASE Parent[p] \notin b.live
  BY <1>2 DEF Announce, BoxOK
<1>3. CASE Parent[p] \in b.live /\ Len(b.q) < KernelCap
  <2>1. Announce(b, p, op).q = Append(b.q, e)
    BY <1>3 DEF Announce, BoxOK
  <2>2. \A x \in Elems(b.q) : x.op = "self" /\ x.path = Parent[p] => x.gen # gen[Parent[p]]
    BY <1>3 DEF BoxGone, Gone
  <2>3. Ordered(Append(b.q, e))
    BY <1>1, <2>2, OrderedAppend
  <2> QED BY <2>1, <2>3
<1>4. CASE Parent[p] \in b.live /\ ~(Len(b.q) < KernelCap)
  <2>1. Announce(b, p, op) = Overflowed(b, {p})
    BY <1>4 DEF Announce
  <2> QED BY <2>1, OverflowedOrdered
<1> QED BY <1>2, <1>3, <1>4

LEMMA AnnounceGoneOrdered ==
  ASSUME TypeOK, NEW b, BoxOK(b), Ordered(b.q), NEW p \in Paths
  PROVE  Ordered(AnnounceGone(b, p).q)
<1> DEFINE e == [path |-> p, op |-> "self", gen |-> gen[p]]
           c == [b EXCEPT !.live = @ \ {p}]
<1>1. b.q \in Seq(Notes) /\ e \in Notes /\ e.op \notin FileOps
  BY DEF TypeOK, Notes, BoxOK, QueueOK, Dirs, FileOps
<1>2. BoxOK(c) /\ c.q = b.q
  BY DEF BoxOK
<1>3. CASE p \notin b.live
  BY <1>3 DEF AnnounceGone
<1>4. CASE p \in b.live /\ Len(b.q) < KernelCap
  <2>1. AnnounceGone(b, p).q = Append(b.q, e)
    BY <1>2, <1>4 DEF AnnounceGone, BoxOK
  <2> HIDE DEF e
  <2> QED BY <1>1, <2>1, OrderedAppend
<1>5. CASE p \in b.live /\ ~(Len(b.q) < KernelCap)
  <2>1. AnnounceGone(b, p) = Overflowed(c, {})
    BY <1>2, <1>5 DEF AnnounceGone
  <2> QED BY <1>2, <2>1, OverflowedOrdered
<1> QED BY <1>3, <1>4, <1>5

\* A mailbox in order, with what keeps it so.
BoxInv(b) == BoxOK(b) /\ BoxGone(b) /\ Ordered(b.q)

LEMMA PostInv ==
  ASSUME TypeOK, NEW b, BoxInv(b), NEW p \in Paths
  PROVE  /\ \A op \in FileOps : BoxInv(Announce(b, p, op))
         /\ BoxInv(AnnounceGone(b, p))
BY AnnounceOK, AnnounceKeepsGone, AnnounceOrdered,
   AnnounceGoneOK, AnnounceGoneKeepsGone, AnnounceGoneOrdered DEF BoxInv

LEMMA MailboxInv ==
  ASSUME TypeInv, WatchInv, OrderInv, NEW p
  PROVE  BoxInv(Mailbox) /\ BoxInv(MailboxAfterRemove(p))
<1>1. Mailbox.q = kq /\ MailboxAfterRemove(p).q = kq
  BY DEF Mailbox, MailboxAfterRemove
<1> QED BY <1>1, MailboxOK, MailboxAfterRemoveOK, MailboxGone DEF BoxInv, OrderInv

\* A log line is posted the same way.
LEMMA WriteLogOrdered ==
  ASSUME TypeInv, NEW b, BoxInv(b), WriteLog(b) \/ SetMailbox(b) PROVE Ordered(kq')
<1>1. CASE SetMailbox(b)
  BY <1>1 DEF SetMailbox, BoxInv
<1>2. CASE WriteLog(b) /\ LogFile # NoPath
  <2>1. LogFile \in Paths /\ "write" \in FileOps /\ TypeOK
    BY <1>2, ConfigAssumption DEF FileOps, TypeInv
  <2>2. Ordered(Announce(b, LogFile, "write").q)
    BY <2>1, AnnounceOrdered DEF BoxInv
  <2>3. kq' = Announce(b, LogFile, "write").q
    BY <1>2 DEF WriteLog, WriteLine, SetMailbox
  <2> QED BY <2>2, <2>3
<1> QED BY <1>1, <1>2 DEF WriteLog, WriteLine

\* The mailboxes a user change leaves.
LEMMA UserBox ==
  ASSUME TypeInv, WatchInv, OrderInv, UserStep
  PROVE  \E b : BoxInv(b) /\ SetMailbox(b)
<1> USE DEF FileOps
<1>0. BoxInv(Mailbox) /\ TypeOK
  BY MailboxInv DEF TypeInv
<1>1. SUFFICES ASSUME NEW p \in Paths,
                      \/ CreateFile(p) \/ Unlink(p) \/ Mkdir(p) \/ Rmdir(p)
                      \/ \E n \in Sizes : WriteFile(p, n)
                      \/ \E q \in Paths : RenameFile(p, q)
               PROVE  \E b : BoxInv(b) /\ SetMailbox(b)
  BY DEF UserStep
<1>2. /\ \A op \in FileOps : BoxInv(Announce(Mailbox, p, op))
      /\ BoxInv(AnnounceGone(Mailbox, p))
  BY <1>0, PostInv
<1>3. CASE CreateFile(p) \/ Mkdir(p) \/ \E n \in Sizes : WriteFile(p, n)
  BY <1>2, <1>3 DEF CreateFile, Mkdir, WriteFile, UserChange
<1>4. /\ BoxInv(AnnounceGone(Announce(Mailbox, p, "remove"), p))
      /\ BoxInv(Announce(AnnounceGone(Mailbox, p), p, "remove"))
  BY <1>0, <1>2, PostInv
<1>5. CASE Unlink(p)
  BY <1>4, <1>5 DEF Unlink, UserChange
<1>6. CASE Rmdir(p)
  BY <1>4, <1>6 DEF Rmdir, UserChange
<1>7. ASSUME NEW q \in Paths, RenameFile(p, q) PROVE \E b : BoxInv(b) /\ SetMailbox(b)
  <2>1. BoxInv(Announce(Announce(Mailbox, p, "rename"), q, "create"))
    BY <1>0, <1>2, PostInv
  <2>2. BoxInv(AnnounceGone(Announce(Announce(Mailbox, p, "rename"), q, "create"), q))
    BY <1>0, <2>1, PostInv
  <2> QED BY <1>7, <2>2 DEF RenameFile, UserChange
<1> QED BY <1>1, <1>3, <1>5, <1>6, <1>7

LEMMA NextOrder == TypeInv /\ WatchInv /\ OrderInv /\ [Next]_vars => OrderInv'
<1> SUFFICES ASSUME TypeInv, WatchInv, OrderInv, [Next]_vars PROVE OrderInv'
  OBVIOUS
<1>0. kq \in Seq(Notes) /\ \A p : BoxInv(Mailbox) /\ BoxInv(MailboxAfterRemove(p))
  BY MailboxInv DEF TypeInv, QueueOK
<1>1. CASE kq' = kq
  BY <1>1 DEF OrderInv, Ordered
<1>2. CASE kq # <<>> /\ kq' = Tail(kq)
  BY <1>0, <1>2, OrderedTail DEF OrderInv
<1>3. ASSUME NEW b, BoxInv(b), WriteLog(b) \/ SetMailbox(b) PROVE OrderInv'
  BY <1>3, WriteLogOrdered DEF OrderInv
<1>4. CASE UserStep
  BY <1>3, <1>4, UserBox
<1>5. CASE StartupStep
  BY <1>1, <1>5 DEF StartupStep, ScanVisit, WatchList, ScanDone, WatchAdd, WatchDone, ReadWalkFails
<1>6. CASE RunStep
  BY <1>1, <1>2, <1>6 DEF RunStep, FsnotifyDiscard, FsnotifySelf, RunTake, RunPutEvent, RunPutError, Idle
<1>7. CASE HandleEvent
  BY <1>0, <1>1, <1>3, <1>7 DEF HandleEvent, HandleIgnored, HandleWrite, HandleGone, HandleCreate, printRecord
<1>8. CASE FinishCreate
  BY <1>0, <1>1, <1>3, <1>8 DEF FinishCreate, FinishCreateDir, FinishCreateFile, printRecord
<1>9. CASE HandleError
  <2> DEFINE b == [Mailbox EXCEPT !.overflow = IF LastError THEN "told" ELSE @]
  <2>1. BoxInv(b)
    BY <1>0 DEF BoxInv, BoxOK, BoxGone
  <2>2. WriteLog(b)
    BY <1>9 DEF HandleError
  <2> QED BY <1>3, <2>1, <2>2
<1>10. CASE Signal \/ HandleSignal \/ UNCHANGED vars
  BY <1>1, <1>10 DEF Signal, HandleSignal, vars
<1> QED BY <1>4, <1>5, <1>6, <1>7, <1>8, <1>9, <1>10 DEF Next, Terminated

-----------------------------------------------------------------------------
(***************************************************************************)
(* The invariant.  What a path is tells which note must be the last about  *)
(* it; once nothing more is coming, Dealt says where the program stands:   *)
(* between os.Stat and its use, finished, or not yet there on one of the   *)
(* startup walks, which still have an enclosing directory to visit.        *)
(***************************************************************************)
News(k) ==
  CASE k = "absent" -> {"remove", "rename"}
    [] k = "file"   -> {"create", "write"}
    [] k = "dir"    -> {"create"}

\* p is in T or in a directory below a member of T.
Below(T, p) ==
  \A S \in SUBSET Dirs :
    T \subseteq S /\ (\A q \in Paths : Parent[q] \in S => q \in S) => p \in S

\* The table has the size of the file at p, as SizesAgree wants it.
Tracked(p) == \/ sizes[EventName[p]] = size[p]
              \/ sizes[EventName[p]] = NoEntry /\ sizes[p] = size[p]

FileDealt(p) ==
  IF creating.path = p THEN ~creating.isDir
  ELSE Tracked(p) \/ (phase = "scan" /\ Below(todo, p))

DirDealt(p) ==
  IF creating.path = p THEN creating.isDir
  ELSE \/ p \in live \cup refused
       \/ phase = "scan"
       \/ phase = "watch" /\ (p = listed.dir \/ Below(todo \cup listed.names, p))

AbsentDealt(p) == creating.path # p /\ sizes[EventName[p]] = NoEntry

\* The step leaves what the size table has of p.
SameSizes(p) == sizes'[p] = sizes[p] /\ sizes'[EventName[p]] = sizes[EventName[p]]

Dealt(p) ==
  /\ kind[p] = "file" => FileDealt(p)
  /\ kind[p] = "dir" => DirDealt(p)
  /\ kind[p] = "absent" => AbsentDealt(p)

Agreed(p) == Coming(p, News(kind[p])) \/ (Unheard(p) /\ Dealt(p))

Active == phase \in {"scan", "watch", "run"}

AgreeInv == Active => \A p \in Paths \ (Ignored \cup blind) : Agreed(p)

\* The operations of News, one by one.
LEMMA NewsOps ==
  /\ News("absent") = {"remove", "rename"} /\ News("file") = {"create", "write"}
  /\ News("dir") = {"create"}
  /\ \A k \in {"absent", "file", "dir"} : News(k) \in SUBSET FileOps
<1>1. /\ News("absent") = {"remove", "rename"} /\ News("file") = {"create", "write"}
      /\ News("dir") = {"create"}
  BY DEF News
<1> QED BY <1>1 DEF FileOps

LEMMA SameTracked ==
  ASSUME NEW p, SameSizes(p), size'[p] = size[p]
  PROVE  /\ Tracked(p) <=> Tracked(p)'
         /\ (sizes[EventName[p]] = NoEntry) <=> (sizes[EventName[p]] = NoEntry)'
BY DEF SameSizes, Tracked

\* An entry written under one name of r is none of another path's.
LEMMA OtherSizes ==
  ASSUME sizes \in [Names -> Sizes \cup {NoEntry}], NEW r \in Paths, NEW n \in {r, EventName[r]},
         NEW z, sizes' = [sizes EXCEPT ![n] = z]
  PROVE  /\ sizes'[n] = z
         /\ \A p \in Paths : p # r => SameSizes(p)
<1>1. n \in Names /\ \A p \in Paths : p \in Names /\ EventName[p] \in Names
  BY Spellings
<1>2. ASSUME NEW p \in Paths, p # r PROVE p # n /\ EventName[p] # n
  BY <1>2, SpellingAssumption
<1> QED BY <1>1, <1>2 DEF SameSizes

\* A step that does not concern p.
LEMMA AgreedKept ==
  ASSUME NEW p, Agreed(p), kind'[p] = kind[p],
         Coming(p, News(kind[p])) => Coming(p, News(kind[p]))',
         Unheard(p) /\ Dealt(p) => Unheard(p)' /\ Dealt(p)'
  PROVE  Agreed(p)'
BY DEF Agreed

\* Posting to the queue carries what is coming.
LEMMA LineKept ==
  ASSUME NEW p, NEW q, NEW r, NEW h, NEW ev, NEW K, NEW L, NEW B,
         Last(q, p, K) => Last(r, p, L), Silent(q, p) => Silent(r, p),
         Line(q, h, ev, p, K, B)
  PROVE  Line(r, h, ev, p, L, B)
BY DEF Line

LEMMA ComingCarried ==
  ASSUME NEW p, NEW ops, NEW b, Carries(Mailbox, b, p), kq' = b.q,
         UNCHANGED <<hand, events>>,
         Last(kq, p, Fresh(p, ops)) => Last(kq, p, Fresh(p, ops)')
  PROVE  /\ Coming(p, ops) => Coming(p, ops)'
         /\ Unheard(p) => Unheard(p)'
<1>1. Mailbox.q = kq
  BY DEF Mailbox
<1>2. Last(kq, p, Fresh(p, ops)) => Last(kq', p, Fresh(p, ops)')
  BY <1>1 DEF Carries
<1>3. Silent(kq, p) => Silent(kq', p)
  BY <1>1 DEF Carries
<1>4. Coming(p, ops) => Line(kq', hand, events, p, Fresh(p, ops)', Told(p, ops))
  BY <1>2, <1>3, LineKept DEF Coming
<1>5. Coming(p, ops)' = Line(kq', hand', events', p, Fresh(p, ops)', Told(p, ops))
  BY DEF Coming, Told
<1>6. Silent(kq, p)' = Silent(kq', p) /\ Silent(hand, p)' = Silent(hand', p)
      /\ Silent(events, p)' = Silent(events', p)
  BY DEF Silent
<1> QED BY <1>3, <1>4, <1>5, <1>6 DEF Unheard

LEMMA FreshSame ==
  ASSUME NEW p, NEW ops, UNCHANGED <<table, gen>> PROVE Fresh(p, ops)' = Fresh(p, ops)
BY DEF Fresh

LEMMA SelfCarries == ASSUME NEW b, NEW p PROVE Carries(b, b, p)
BY DEF Carries

LEMMA DealtKept ==
  ASSUME NEW p, UNCHANGED <<creating, phase, todo, listed>>,
         kind'[p] = kind[p], size'[p] = size[p], SameSizes(p),
         kind[p] = "dir" /\ p \in live \cup refused => p \in live' \cup refused',
         Dealt(p)
  PROVE  Dealt(p)'
<1>1. FileDealt(p) => FileDealt(p)'
  BY SameTracked DEF FileDealt, Below
<1>2. kind[p] = "dir" /\ DirDealt(p) => DirDealt(p)'
  BY DEF DirDealt, Below
<1>3. AbsentDealt(p) => AbsentDealt(p)'
  BY SameTracked DEF AbsentDealt
<1> QED BY <1>1, <1>2, <1>3 DEF Dealt

-----------------------------------------------------------------------------
(***************************************************************************)
(* Users.                                                                  *)
(***************************************************************************)
LEMMA UserOther ==
  ASSUME NEW p \in Paths, NEW k, NEW z, NEW b, UserChange(k, z, b), Carries(Mailbox, b, p),
         k[p] = kind[p], z[p] = size[p], kind[p] = "dir" /\ p \in live => p \in b.live, Agreed(p)
  PROVE  Agreed(p)'
<1>1. /\ kind' = k /\ size' = z /\ kq' = b.q /\ live' = b.live
      /\ UNCHANGED <<table, gen, hand, events, sizes, phase, todo, listed, creating, refused>>
  BY DEF UserChange, SetMailbox, pipe, startup, walk
<1>2. /\ Coming(p, News(kind[p])) => Coming(p, News(kind[p]))'
      /\ Unheard(p) => Unheard(p)'
  BY <1>1, FreshSame, ComingCarried
<1>3. Dealt(p) => Dealt(p)'
  BY <1>1, DealtKept DEF SameSizes
<1> QED BY <1>1, <1>2, <1>3, AgreedKept

LEMMA UserTold ==
  ASSUME WatchInv, NEW p \in Paths, NEW k, NEW z, NEW b, UserChange(k, z, b),
         NEW op \in News(k[p]),
         Parent[p] \in live,
         Last(b.q, p, {[path |-> p, op |-> op, gen |-> gen[Parent[p]]]})
  PROVE  Agreed(p)'
<1>1. /\ kind' = k /\ kq' = b.q /\ UNCHANGED <<table, gen, hand, events>>
  BY DEF UserChange, SetMailbox, pipe
<1>2. Parent[p] \in table
  BY DEF WatchInv, WatchTables
<1>3. {[path |-> p, op |-> op, gen |-> gen[Parent[p]]]} \subseteq Fresh(p, News(kind'[p]))
  BY <1>1, <1>2 DEF Fresh
<1>4. Last(kq', p, Fresh(p, News(kind'[p])))
  BY <1>1, <1>3, LastMono
<1>5. Fresh(p, News(kind[p]))' = Fresh(p, News(kind'[p]))
  BY <1>1 DEF Fresh
<1>6. Last(kq', p, Fresh(p, News(kind[p]))')
  BY <1>4, <1>5
<1> QED BY <1>6 DEF Agreed, Coming, Line

\* A user change agrees if its mailbox b carries on what is known of the
\* paths outside P, and tells of those in P.
LEMMA UserChangeAgree ==
  ASSUME TypeInv, WatchInv, AgreeInv, NEW P, UserMay(P), NEW k, NEW z, NEW b,
         UserChange(k, z, b),
         \A p \in Paths \ P : /\ Carries(Mailbox, b, p) /\ (p \in live => p \in b.live)
                              /\ k[p] = kind[p] /\ z[p] = size[p],
         \A p \in Paths \cap P :
            \/ p \in b.blind
            \/ \E op \in News(k[p]) :
                 /\ Parent[p] \in live
                 /\ Last(b.q, p, {[path |-> p, op |-> op, gen |-> gen[Parent[p]]]})
  PROVE  AgreeInv'
<1>1. Active /\ blind' = b.blind
  BY BoundAssumption DEF UserMay, Active, UserChange, SetMailbox
<1>2. SUFFICES ASSUME NEW p \in Paths, p \notin Ignored, p \notin b.blind PROVE Agreed(p)'
  BY <1>1 DEF AgreeInv
<1>3. CASE p \in P
  BY <1>2, <1>3, UserTold
<1>4. CASE p \notin P
  <2>1. Carries(Mailbox, b, p) /\ (p \in live => p \in b.live)
        /\ k[p] = kind[p] /\ z[p] = size[p]
    BY <1>4
  <2>2. p \notin blind
    BY <1>2, <2>1 DEF Carries, Mailbox
  <2>3. Agreed(p)
    BY <1>1, <1>2, <2>2 DEF AgreeInv
  <2> QED BY <2>1, <2>3, UserOther
<1> QED BY <1>3, <1>4

LEMMA UserAgree ==
  ASSUME TypeInv, WatchInv, AgreeInv, UserStep PROVE AgreeInv'
<1> USE DEF FileOps
<1>0. /\ BoxOK(Mailbox) /\ TypeOK /\ Mailbox.live = live /\ kind \in [Paths -> {"absent", "file", "dir"}]
      /\ size \in [Paths -> Sizes]
  BY MailboxOK DEF TypeInv, Mailbox, TypeOK
<1>1. SUFFICES ASSUME NEW r \in Paths,
                      \/ CreateFile(r) \/ Unlink(r) \/ Mkdir(r) \/ Rmdir(r)
                      \/ \E n \in Sizes : WriteFile(r, n)
                      \/ \E q \in Paths : RenameFile(r, q)
               PROVE  AgreeInv'
  BY DEF UserStep
<1>2. \A op \in FileOps :
        LET b == Announce(Mailbox, r, op)
        IN /\ \A p \in Paths \ {r} : Carries(Mailbox, b, p) /\ (p \in live => p \in b.live)
           /\ \/ r \in b.blind
              \/ Parent[r] \in live
                 /\ Last(b.q, r, {[path |-> r, op |-> op, gen |-> gen[Parent[r]]]})
  <2> SUFFICES
        ASSUME NEW op \in FileOps
        PROVE  LET b == Announce(Mailbox, r, op)
               IN /\ \A p \in Paths \ {r} : Carries(Mailbox, b, p) /\ (p \in live => p \in b.live)
                  /\ \/ r \in b.blind
                     \/ Parent[r] \in live
                        /\ Last(b.q, r, {[path |-> r, op |-> op, gen |-> gen[Parent[r]]]})
    OBVIOUS
  <2> DEFINE b == Announce(Mailbox, r, op)
  <2>1. ASSUME NEW p \in Paths \ {r} PROVE Carries(Mailbox, b, p) /\ (p \in live => p \in b.live)
    <3>0. p # r
      OBVIOUS
    <3>1. Carries(Mailbox, b, p)
      BY <1>0, <3>0, AnnounceCarries
    <3>2. b.live = Mailbox.live
      BY <1>0 DEF Announce, Overflowed, BoxOK
    <3> QED BY <1>0, <3>1, <3>2
  <2>2. \/ r \in b.blind
        \/ Parent[r] \in live
           /\ Last(b.q, r, {[path |-> r, op |-> op, gen |-> gen[Parent[r]]]})
    BY <1>0, AnnounceTells
  <2> QED BY <2>1, <2>2
<1>3. ASSUME NEW op \in FileOps, NEW k, NEW z, UserMay({r}),
             UserChange(k, z, Announce(Mailbox, r, op)), op \in News(k[r]),
             \A p \in Paths \ {r} : k[p] = kind[p] /\ z[p] = size[p]
      PROVE  AgreeInv'
  <2> DEFINE b == Announce(Mailbox, r, op)
  <2>1. /\ \A p \in Paths \ {r} : Carries(Mailbox, b, p) /\ (p \in live => p \in b.live)
        /\ \/ r \in b.blind
           \/ Parent[r] \in live
              /\ Last(b.q, r, {[path |-> r, op |-> op, gen |-> gen[Parent[r]]]})
    BY <1>2
  <2>2. UserChange(k, z, b)
    BY <1>3
  <2> HIDE DEF b
  <2>3. \A p \in Paths \cap {r} :
            \/ p \in b.blind
            \/ \E o \in News(k[p]) :
                 /\ Parent[p] \in live
                 /\ Last(b.q, p, {[path |-> p, op |-> o, gen |-> gen[Parent[p]]]})
    BY <2>1, <1>3
  <2>4. \A p \in Paths \ {r} : /\ Carries(Mailbox, b, p) /\ (p \in live => p \in b.live)
                               /\ k[p] = kind[p] /\ z[p] = size[p]
    BY <2>1, <1>3
  <2> QED BY <2>2, <2>3, <2>4, <1>3, UserChangeAgree
<1>4. CASE CreateFile(r)
  <2> DEFINE k == [kind EXCEPT ![r] = "file"]
             z == [size EXCEPT ![r] = 0]
  <2>1. "create" \in News(k[r]) /\ \A p \in Paths \ {r} : k[p] = kind[p] /\ z[p] = size[p]
    BY <1>0, NewsOps
  <2>2. UserMay({r}) /\ UserChange(k, z, Announce(Mailbox, r, "create"))
    BY <1>4 DEF CreateFile
  <2> HIDE DEF k, z
  <2> QED BY <2>1, <2>2, <1>3
<1>5. CASE Mkdir(r)
  <2> DEFINE k == [kind EXCEPT ![r] = "dir"]
  <2>1. "create" \in News(k[r]) /\ \A p \in Paths \ {r} : k[p] = kind[p]
    BY <1>0, NewsOps
  <2>2. UserMay({r}) /\ UserChange(k, size, Announce(Mailbox, r, "create"))
    BY <1>5 DEF Mkdir
  <2> HIDE DEF k
  <2> QED BY <2>1, <2>2, <1>3
<1>6. ASSUME NEW n \in Sizes, WriteFile(r, n) PROVE AgreeInv'
  <2> DEFINE z == [size EXCEPT ![r] = n]
  <2>1. "write" \in News(kind[r]) /\ \A p \in Paths \ {r} : z[p] = size[p]
    BY <1>0, <1>6, NewsOps DEF WriteFile
  <2>2. UserMay({r}) /\ UserChange(kind, z, Announce(Mailbox, r, "write"))
    BY <1>6 DEF WriteFile
  <2> HIDE DEF z
  <2> QED BY <2>1, <2>2, <1>3
\* r is gone, in either order of the two notes.
<1>7. ASSUME NEW b \in {Announce(AnnounceGone(Mailbox, r), r, "remove"),
                        AnnounceGone(Announce(Mailbox, r, "remove"), r)}
      PROVE  /\ \A p \in Paths \ {r} : Carries(Mailbox, b, p) /\ (p \in live => p \in b.live)
             /\ \/ r \in b.blind
                \/ Parent[r] \in live
                   /\ Last(b.q, r, {[path |-> r, op |-> "remove", gen |-> gen[Parent[r]]]})
  <2>1. CASE b = Announce(AnnounceGone(Mailbox, r), r, "remove")
    <3> DEFINE c == AnnounceGone(Mailbox, r)
    <3>1. BoxOK(c)
      BY <1>0, AnnounceGoneOK
    <3>2. \A p : Carries(Mailbox, c, p)
      BY <1>0, AnnounceGoneCarries
    <3>3. Parent[r] # r
      BY NotOwnParent
    <3> HIDE DEF c
    <3>4. \A p \in Paths \ {r} : Carries(c, b, p) /\ b.live = c.live
      BY <1>0, <2>1, <3>1, AnnounceCarries DEF c
    <3>5. \A p \in Paths \ {r} : Carries(Mailbox, b, p)
      BY <3>2, <3>4, CarriesTrans
    <3>6. \/ r \in b.blind
          \/ Parent[r] \in c.live
             /\ Last(b.q, r, {[path |-> r, op |-> "remove", gen |-> gen[Parent[r]]]})
      BY <1>0, <2>1, <3>1, AnnounceTells DEF c
    <3>7. Parent[r] \in c.live => Parent[r] \in live
      BY <1>0, <3>3, AnnounceGoneCarries DEF c
    <3>8. \A p \in Paths \ {r} : p \in live => p \in c.live
      BY <1>0, AnnounceGoneCarries DEF c
    <3> QED BY <3>4, <3>5, <3>6, <3>7, <3>8
  <2>2. CASE b = AnnounceGone(Announce(Mailbox, r, "remove"), r)
    <3> DEFINE c == Announce(Mailbox, r, "remove")
    <3>1. BoxOK(c)
      BY <1>0, AnnounceOK
    <3>2. /\ \A p \in Paths \ {r} : Carries(Mailbox, c, p) /\ (p \in live => p \in c.live)
          /\ \/ r \in c.blind
             \/ Parent[r] \in live
                /\ Last(c.q, r, {[path |-> r, op |-> "remove", gen |-> gen[Parent[r]]]})
      BY <1>2
    <3> HIDE DEF c
    <3>3. \A p : Carries(c, b, p)
      BY <1>0, <2>2, <3>1, AnnounceGoneCarries DEF c
    <3>4. \A p \in Paths \ {r} : p \in c.live => p \in b.live
      BY <1>0, <2>2, <3>1, AnnounceGoneCarries DEF c
    <3>5. \A p \in Paths \ {r} : Carries(Mailbox, b, p)
      BY <3>2, <3>3, CarriesTrans
    <3>6. /\ r \in c.blind => r \in b.blind
          /\ \A B : Last(c.q, r, B) => Last(b.q, r, B)
      BY <3>3 DEF Carries
    <3> QED BY <3>2, <3>4, <3>5, <3>6
  <2> QED BY <2>1, <2>2
<1>8. ASSUME Unlink(r) \/ Rmdir(r) PROVE AgreeInv'
  <2> DEFINE k == [kind EXCEPT ![r] = "absent"]
  <2>1. "remove" \in News(k[r]) /\ \A p \in Paths \ {r} : k[p] = kind[p]
    BY <1>0, NewsOps
  <2>2. PICK b \in {Announce(AnnounceGone(Mailbox, r), r, "remove"),
                    AnnounceGone(Announce(Mailbox, r, "remove"), r)} :
          UserMay({r}) /\ UserChange(k, size, b)
    BY <1>8 DEF Unlink, Rmdir
  <2> HIDE DEF k
  <2>3. /\ \A p \in Paths \ {r} : Carries(Mailbox, b, p) /\ (p \in live => p \in b.live)
        /\ \/ r \in b.blind
           \/ Parent[r] \in live
              /\ Last(b.q, r, {[path |-> r, op |-> "remove", gen |-> gen[Parent[r]]]})
    BY <1>7
  <2>4. \A p \in Paths \cap {r} :
            \/ p \in b.blind
            \/ \E o \in News(k[p]) :
                 /\ Parent[p] \in live
                 /\ Last(b.q, p, {[path |-> p, op |-> o, gen |-> gen[Parent[p]]]})
    BY <2>1, <2>3
  <2>5. \A p \in Paths \ {r} : /\ Carries(Mailbox, b, p) /\ (p \in live => p \in b.live)
                               /\ k[p] = kind[p] /\ size[p] = size[p]
    BY <2>1, <2>3
  <2> QED BY <2>2, <2>4, <2>5, UserChangeAgree
<1>9. ASSUME NEW q \in Paths, RenameFile(r, q) PROVE AgreeInv'
  <2> DEFINE b == Announce(Mailbox, r, "rename")
             c == Announce(b, q, "create")
             d == AnnounceGone(c, q)
             k == [kind EXCEPT ![r] = "absent", ![q] = "file"]
             z == [size EXCEPT ![q] = size[r]]
  <2>1. BoxOK(b) /\ b.live = live
    BY <1>0, AnnounceOK DEF Announce, Overflowed, BoxOK
  <2>2. BoxOK(c) /\ c.live = live
    <3> HIDE DEF b
    <3>1. BoxOK(c)
      BY <1>0, <2>1, AnnounceOK
    <3>2. c.live = b.live
      BY <2>1 DEF Announce, Overflowed, BoxOK
    <3> QED BY <2>1, <3>1, <3>2
  <2>3. /\ \A p \in Paths \ {r} : Carries(Mailbox, b, p)
        /\ \/ r \in b.blind
           \/ Parent[r] \in live
              /\ Last(b.q, r, {[path |-> r, op |-> "rename", gen |-> gen[Parent[r]]]})
    BY <1>2
  <2>4. \A p \in Paths \ {q} : Carries(b, c, p)
    <3> HIDE DEF b
    <3> QED BY <1>0, <2>1, AnnounceCarries
  <2>5. \/ q \in c.blind
        \/ Parent[q] \in live
           /\ Last(c.q, q, {[path |-> q, op |-> "create", gen |-> gen[Parent[q]]]})
    <3> HIDE DEF b
    <3> QED BY <1>0, <2>1, AnnounceTells
  <2>6. \A p : Carries(c, d, p) /\ (p # q => (p \in d.live <=> p \in live))
    <3> HIDE DEF b, c
    <3> QED BY <1>0, <2>2, AnnounceGoneCarries
  <2>7. /\ r # q /\ UserMay({r, q}) /\ UserChange(k, z, d)
    BY <1>9 DEF RenameFile
  <2>8. /\ "rename" \in News(k[r]) /\ "create" \in News(k[q])
        /\ \A p \in Paths \ {r, q} : k[p] = kind[p] /\ z[p] = size[p]
    <3>1. k[r] = "absent" /\ k[q] = "file"
          /\ \A p \in Paths \ {r, q} : k[p] = kind[p] /\ z[p] = size[p]
      BY <1>0, <2>7
    <3> HIDE DEF k, z
    <3> QED BY <3>1, NewsOps
  <2> HIDE DEF b, c, d, k, z
  <2>9. \A p \in Paths \ {r, q} : Carries(Mailbox, d, p) /\ (p \in live => p \in d.live)
    BY <2>3, <2>4, <2>6, CarriesTrans
  <2>10. \/ r \in d.blind
         \/ /\ Parent[r] \in live
            /\ Last(d.q, r, {[path |-> r, op |-> "rename", gen |-> gen[Parent[r]]]})
    BY <2>3, <2>4, <2>6, <2>7 DEF Carries
  <2>11. \/ q \in d.blind
         \/ /\ Parent[q] \in live
            /\ Last(d.q, q, {[path |-> q, op |-> "create", gen |-> gen[Parent[q]]]})
    BY <2>5, <2>6 DEF Carries
  <2>12. \A p \in Paths \cap {r, q} :
            \/ p \in d.blind
            \/ \E op \in News(k[p]) :
                 /\ Parent[p] \in live
                 /\ Last(d.q, p, {[path |-> p, op |-> op, gen |-> gen[Parent[p]]]})
    BY <2>8, <2>10, <2>11
  <2> QED BY <2>7, <2>8, <2>9, <2>12, UserChangeAgree
<1> QED BY <1>1, <1>4, <1>5, <1>6, <1>8, <1>9

-----------------------------------------------------------------------------
(***************************************************************************)
(* Startup.                                                                *)
(***************************************************************************)
\* Everything is below the root, nothing below nothing.
LEMMA BelowRoot == ASSUME NEW p \in Paths PROVE Below({Root}, p) /\ ~Below({}, p)
<1>1. ~Below({}, p)
  <2>1. {} \in SUBSET Dirs /\ p \notin {}
    OBVIOUS
  <2> QED BY <2>1 DEF Below
<1>2. ASSUME NEW S \in SUBSET Dirs, {Root} \subseteq S,
             \A q \in Paths : Parent[q] \in S => q \in S, p \notin S
      PROVE  FALSE
  <2>1. Paths \ S \in SUBSET Paths /\ Paths \ S # {}
    BY <1>2
  <2>2. PICK q \in Paths \ S : Parent[q] \notin Paths \ S
    BY <2>1, TreeAssumption
  <2>3. Parent[q] \in Dirs /\ Parent[q] \notin S
    BY <1>2, <2>2, TreeAssumption
  <2> QED BY <1>2, <2>2, <2>3 DEF Dirs
<1> QED BY <1>1, <1>2 DEF Below

\* A walk that visits d goes on to what is in it: nothing that is present and
\* not ignored is lost.
LEMMA BelowVisit ==
  ASSUME TypeInv, TreeInv, NEW T, NEW U, NEW d \in Dirs, NEW p \in Paths,
         Below(T, p), p # d, p \notin Ignored, kind[p] # "absent",
         T \ {d} \subseteq U, IsDir(d) /\ d \notin Ignored => ChildrenOf(d) \subseteq U
  PROVE  Below(U, p)
<1>1. SUFFICES ASSUME NEW S \in SUBSET Dirs, U \subseteq S,
                      \A q \in Paths : Parent[q] \in S => q \in S
               PROVE  p \in S
  BY DEF Below
<1> DEFINE W == S \cup {d} \cup {q \in Paths : kind[q] = "absent" \/ q \in Ignored}
<1>2. W \in SUBSET Dirs /\ T \subseteq W
  BY <1>1 DEF Dirs
<1>3. ASSUME NEW q \in Paths, Parent[q] \in W PROVE q \in W
  <2>1. CASE Parent[q] \in S
    BY <1>1, <2>1
  <2>2. CASE kind[q] = "absent" \/ q \in Ignored
    BY <2>2
  <2>3. CASE kind[q] # "absent" /\ q \notin Ignored
    <3>1. IsDir(Parent[q]) /\ Parent[q] \notin Ignored
      BY <2>3, ConfigAssumption DEF TreeInv
    <3>2. Parent[q] \in S \cup {d}
      BY <1>3, <3>1, TreeAssumption DEF IsDir
    <3>3. CASE Parent[q] = d
      BY <1>1, <2>3, <3>1, <3>3 DEF ChildrenOf
    <3> QED BY <2>1, <3>2, <3>3
  <2> QED BY <2>2, <2>3
<1>4. p \in W
  BY <1>2, <1>3 DEF Below
<1> QED BY <1>4

\* Adding a watch: what fsnotify no longer passes on is blind.
LEMMA AddPathAgree ==
  ASSUME TypeInv, NEW d \in Dirs, NEW name, AddPath(d, name), NEW p \in Paths, p \notin blind',
         NEW ops \in SUBSET FileOps, UNCHANGED <<kq, hand, events>>
  PROVE  /\ p \notin blind
         /\ Coming(p, ops) => Coming(p, ops)'
         /\ Unheard(p) => Unheard(p)'
         /\ p \in live \cup refused => p \in live' \cup refused'
         /\ p = d /\ kind[p] = "dir" => p \in live' \cup refused'
<1>1. Parent[p] \in Dirs /\ gen \in [Dirs -> Nat]
  BY TreeAssumption DEF TypeInv, TypeOK
<1>2. /\ p \notin blind /\ (p \in live \cup refused => p \in live' \cup refused')
  BY DEF AddPath, inotify
<1>3. p = d /\ kind[p] = "dir" => p \in live' \cup refused'
  BY DEF AddPath, IsPresent
<1>4. Last(kq, p, Fresh(p, ops)) => Last(kq, p, Fresh(p, ops)')
  <2>1. CASE table \subseteq table' /\ gen'[Parent[p]] = gen[Parent[p]]
    <3>1. Fresh(p, ops) \subseteq Fresh(p, ops)'
      BY <2>1 DEF Fresh
    <3> QED BY <3>1, LastMono
  <2>2. CASE ~(table \subseteq table' /\ gen'[Parent[p]] = gen[Parent[p]])
    <3>1. Parent[p] = d /\ blind' = blind \cup Dropped(d)
      BY <1>1, <2>2 DEF AddPath, inotify
    <3>2. SUFFICES ASSUME Last(kq, p, Fresh(p, ops)) PROVE FALSE
      OBVIOUS
    <3>3. PICK i \in DOMAIN kq : kq[i] \in Fresh(p, ops)
      BY <3>2 DEF Last
    <3>4. kq[i].path = p /\ kq[i].op \in FileOps /\ kq[i].gen = gen[d]
      BY <3>1, <3>3, FreshAbout DEF About
    <3>5. p \in Dropped(d)
      BY <3>1, <3>4 DEF Dropped
    <3> QED BY <3>1, <3>5
  <2> QED BY <2>1, <2>2
<1>5. Mailbox.q = kq
  BY DEF Mailbox
<1>6. /\ Coming(p, ops) => Coming(p, ops)'
      /\ Unheard(p) => Unheard(p)'
  BY <1>4, <1>5, SelfCarries, ComingCarried
<1> QED BY <1>2, <1>3, <1>6

LEMMA StartupAgree ==
  ASSUME TypeInv, TreeInv, StartInv, AgreeInv, StartupStep PROVE AgreeInv'
<1> USE DEF disk, inotify, pipe, startup, walk, history
<1>0. NoPath \notin Paths /\ Active /\ Mailbox.q = kq
  <2>1. phase \in {"scan", "watch"}
    BY DEF StartupStep, ScanVisit, WatchList, ScanDone, WatchAdd, WatchDone, ReadWalkFails
  <2> QED BY <2>1, TreeAssumption DEF Active, Dirs, Mailbox
<1>1. ASSUME NEW p \in Paths, UNCHANGED <<table, gen, kq, hand, events>>
      PROVE  /\ \A ops : Coming(p, ops) => Coming(p, ops)'
             /\ Unheard(p) => Unheard(p)'
  BY <1>0, <1>1, SelfCarries, FreshSame, ComingCarried
\* Enough: one path, what is left of the startup and the tables.
<1>2. ASSUME NEW p \in Paths, Agreed(p), UNCHANGED <<kind, table, gen, kq, hand, events>>,
             Dealt(p) => Dealt(p)'
      PROVE  Agreed(p)'
  BY <1>1, <1>2, AgreedKept
<1>3. ASSUME NEW d \in Dirs, ScanVisit(d) PROVE AgreeInv'
  <2>1. /\ phase = "scan" /\ phase' = "scan"
        /\ UNCHANGED <<kind, size, table, gen, kq, hand, events, creating>>
        /\ todo \ {d} \subseteq todo'
        /\ IsDir(d) /\ d \notin Ignored => ChildrenOf(d) \subseteq todo'
        /\ \/ /\ d \in Paths /\ kind[d] = "file" /\ d \notin Ignored
              /\ sizes' = [sizes EXCEPT ![d] = size[d]] /\ blind' = blind \ {d}
           \/ /\ ~(d \in Paths /\ kind[d] = "file" /\ d \notin Ignored)
              /\ UNCHANGED <<sizes, blind>>
    <3>1. d \in Paths <=> d # Root
      BY TreeAssumption DEF Dirs
    <3>2. /\ todo \ {d} \subseteq todo'
          /\ IsDir(d) /\ d \notin Ignored => ChildrenOf(d) \subseteq todo'
      BY <1>3 DEF ScanVisit, ShouldIgnore
    <3>3. /\ phase = "scan" /\ phase' = "scan"
          /\ UNCHANGED <<kind, size, table, gen, kq, hand, events, creating>>
      BY <1>3 DEF ScanVisit
    <3> QED BY <1>3, <3>1, <3>2, <3>3 DEF ScanVisit, ShouldIgnore
  <2>2. /\ kq = <<>> /\ hand = <<>> /\ events = <<>> /\ creating = NotCreating
    BY <2>1 DEF StartInv
  <2>3. SUFFICES ASSUME NEW p \in Paths, p \notin Ignored, p \notin blind' PROVE Agreed(p)'
    BY DEF AgreeInv
  <2>4. sizes \in [Names -> Sizes \cup {NoEntry}] /\ kind \in [Paths -> {"absent", "file", "dir"}]
    BY DEF TypeInv, TypeOK
  <2>5. CASE p = d /\ kind[p] = "file"
    <3>1. /\ sizes' = [sizes EXCEPT ![p] = size[p]] /\ kind'[p] = "file"
          /\ size'[p] = size[p] /\ p \in Names /\ EventName[p] \in Names
      BY <2>1, <2>3, <2>5, Spellings
    <3>2. creating'.path # p
      BY <1>0, <2>1, <2>2 DEF NotCreating
    <3>3. EventName[p] = p \/ sizes[EventName[p]] = NoEntry
      BY <2>1 DEF StartInv, ScanInv
    <3>4. Tracked(p)'
      BY <2>4, <3>1, <3>3 DEF Tracked
    <3>5. Dealt(p)'
      BY <3>1, <3>2, <3>4 DEF Dealt, FileDealt
    <3>6. Unheard(p)'
      BY <2>1, <2>2, EmptyLine DEF Unheard
    <3> QED BY <3>5, <3>6 DEF Agreed
  <2>6. CASE ~(p = d /\ kind[p] = "file")
    <3>1. p \notin blind /\ SameSizes(p) /\ size'[p] = size[p]
      <4>1. CASE UNCHANGED <<sizes, blind>>
        BY <2>1, <2>3, <4>1 DEF SameSizes
      <4>2. CASE /\ d \in Paths /\ kind[d] = "file" /\ p # d
                 /\ sizes' = [sizes EXCEPT ![d] = size[d]] /\ blind' = blind \ {d}
        BY <2>1, <2>3, <2>4, <4>2, OtherSizes
      <4> QED BY <2>1, <2>6, <4>1, <4>2
    <3>2. Agreed(p)
      BY <1>0, <2>3, <3>1 DEF AgreeInv
    <3>3. kind[p] = "file" /\ FileDealt(p) => FileDealt(p)'
      <4>1. kind[p] = "file" /\ Below(todo, p) => Below(todo', p)
        BY <2>1, <2>3, <2>6, BelowVisit
      <4>2. Below(todo', p) => Below(todo, p)'
        BY DEF Below
      <4> QED BY <2>1, <3>1, <4>1, <4>2, SameTracked DEF FileDealt
    <3>4. kind[p] = "dir" /\ DirDealt(p) => DirDealt(p)'
      BY <2>1 DEF DirDealt
    <3>5. AbsentDealt(p) => AbsentDealt(p)'
      BY <2>1, <3>1, SameTracked DEF AbsentDealt
    <3>6. Dealt(p) => Dealt(p)'
      BY <2>1, <3>3, <3>4, <3>5 DEF Dealt
    <3> QED BY <2>1, <3>2, <3>6, <1>2
  <2> QED BY <2>5, <2>6
<1>4. CASE ScanDone
  <2>1. /\ phase = "scan" /\ phase' = "watch" /\ todo = {} /\ todo' = {Root}
        /\ UNCHANGED <<kind, size, table, gen, kq, hand, events, creating, sizes, blind, live,
                       refused, listed>>
    BY <1>4 DEF ScanDone
  <2>2. SUFFICES ASSUME NEW p \in Paths, p \notin Ignored, p \notin blind' PROVE Agreed(p)'
    BY DEF AgreeInv
  <2>3. Agreed(p)
    BY <1>0, <2>1, <2>2 DEF AgreeInv
  <2>4. creating.path # p
    BY <1>0, <2>1 DEF StartInv, NotCreating
  <2>5. FileDealt(p) => FileDealt(p)'
    BY <2>1, BelowRoot DEF FileDealt, Tracked
  <2>6. DirDealt(p)'
    <3>1. Below({Root}, p)
      BY BelowRoot
    <3>2. Below({Root} \cup listed'.names, p)
      BY <3>1 DEF Below
    <3>3. Below(todo \cup listed.names, p)'
      BY <2>1, <3>2 DEF Below
    <3> QED BY <2>1, <2>4, <3>3 DEF DirDealt
  <2>7. AbsentDealt(p) => AbsentDealt(p)'
    BY <2>1 DEF AbsentDealt
  <2>8. Dealt(p) => Dealt(p)'
    BY <2>1, <2>5, <2>6, <2>7 DEF Dealt
  <2> QED BY <2>1, <2>3, <2>8, <1>2
<1>5. ASSUME NEW d \in Dirs, WatchList(d) PROVE AgreeInv'
  <2>1. /\ phase = "watch" /\ phase' = "watch" /\ listed = Unlisted
        /\ UNCHANGED <<kind, size, table, gen, kq, hand, events, creating, sizes, blind, live,
                       refused>>
        /\ todo' = todo \ {d}
        /\ IsDir(d) /\ d \notin Ignored => listed' = [dir |-> d, names |-> ChildrenOf(d)]
    BY <1>5 DEF WatchList, ShouldIgnore
  <2>2. SUFFICES ASSUME NEW p \in Paths, p \notin Ignored, p \notin blind' PROVE Agreed(p)'
    BY DEF AgreeInv
  <2>3. Agreed(p)
    BY <1>0, <2>1, <2>2 DEF AgreeInv
  <2>4. FileDealt(p) => FileDealt(p)'
    BY <2>1 DEF FileDealt, Tracked
  <2>5. AbsentDealt(p) => AbsentDealt(p)'
    BY <2>1 DEF AbsentDealt
  <2>6. kind[p] = "dir" /\ DirDealt(p) => DirDealt(p)'
    <3>1. CASE creating.path = p \/ p \in live \cup refused
      BY <2>1, <3>1 DEF DirDealt
    <3>2. CASE p = d /\ kind[p] = "dir"
      <4>1. listed'.dir = p
        BY <2>1, <2>2, <3>2 DEF IsDir
      <4>2. creating.path # p
        BY <1>0, <2>1 DEF StartInv, NotCreating
      <4> QED BY <2>1, <4>1, <4>2 DEF DirDealt
    <3>3. CASE creating.path # p /\ p # d /\ p \notin live \cup refused /\ kind[p] = "dir"
      <4>1. SUFFICES ASSUME DirDealt(p) PROVE DirDealt(p)'
        OBVIOUS
      <4>2. Below(todo, p)
        BY <1>0, <2>1, <3>3, <4>1 DEF DirDealt, Unlisted
      <4>3. Below(todo' \cup listed'.names, p)
        BY <2>1, <2>2, <3>3, <4>2, BelowVisit
      <4>4. Below(todo \cup listed.names, p)'
        BY <4>3 DEF Below
      <4> QED BY <2>1, <3>3, <4>4 DEF DirDealt
    <3> QED BY <3>1, <3>2, <3>3
  <2>7. Dealt(p) => Dealt(p)'
    BY <2>1, <2>4, <2>5, <2>6 DEF Dealt
  <2> QED BY <2>1, <2>3, <2>7, <1>2
<1>6. CASE WatchAdd
  <2>1. /\ phase = "watch" /\ phase' = "watch" /\ listed # Unlisted
        /\ UNCHANGED <<kind, size, kq, hand, events, creating, sizes>>
        /\ AddPath(listed.dir, listed.dir) /\ todo' = todo \cup listed.names /\ listed' = Unlisted
    BY <1>6 DEF WatchAdd
  <2>2. listed.dir \in Dirs
    BY <2>1 DEF TypeInv, TypeOK
  <2>3. SUFFICES ASSUME NEW p \in Paths, p \notin Ignored, p \notin blind' PROVE Agreed(p)'
    BY DEF AgreeInv
  <2>4. /\ p \notin blind
        /\ \A ops \in SUBSET FileOps : Coming(p, ops) => Coming(p, ops)'
        /\ Unheard(p) => Unheard(p)'
        /\ p \in live \cup refused => p \in live' \cup refused'
        /\ p = listed.dir /\ kind[p] = "dir" => p \in live' \cup refused'
    BY <2>1, <2>2, <2>3, AddPathAgree
  <2>5. Agreed(p) /\ kind[p] \in {"absent", "file", "dir"}
    BY <1>0, <2>3, <2>4 DEF AgreeInv, TypeInv, TypeOK
  <2>6. kind[p] = "dir" /\ DirDealt(p) => DirDealt(p)'
    <3>1. Below(todo \cup listed.names, p) => Below(todo \cup listed.names, p)'
      BY <2>1 DEF Below
    <3> QED BY <2>1, <2>4, <3>1 DEF DirDealt
  <2>7. FileDealt(p) => FileDealt(p)'
    BY <2>1 DEF FileDealt, Tracked
  <2>8. AbsentDealt(p) => AbsentDealt(p)'
    BY <2>1 DEF AbsentDealt
  <2>9. Dealt(p) => Dealt(p)'
    BY <2>1, <2>6, <2>7, <2>8 DEF Dealt
  <2>10. News(kind[p]) \in SUBSET FileOps
    BY <2>5, NewsOps
  <2>11. Coming(p, News(kind[p])) => Coming(p, News(kind[p]))'
    BY <2>1, <2>4, <2>10
  <2> QED BY <2>1, <2>4, <2>5, <2>9, <2>11, AgreedKept
<1>7. CASE WatchDone
  <2>1. /\ phase = "watch" /\ phase' = "run" /\ listed = Unlisted /\ todo = {}
        /\ UNCHANGED <<kind, size, table, gen, kq, hand, events, creating, sizes, blind, live,
                       refused>>
    BY <1>7 DEF WatchDone
  <2>2. SUFFICES ASSUME NEW p \in Paths, p \notin Ignored, p \notin blind' PROVE Agreed(p)'
    BY DEF AgreeInv
  <2>3. Agreed(p)
    BY <1>0, <2>1, <2>2 DEF AgreeInv
  <2>4. ~Below(todo \cup listed.names, p) /\ p # listed.dir
    BY <1>0, <2>1, BelowRoot DEF Unlisted
  <2>5. /\ FileDealt(p) => FileDealt(p)'
        /\ DirDealt(p) => DirDealt(p)'
        /\ AbsentDealt(p) => AbsentDealt(p)'
    BY <2>1, <2>4 DEF FileDealt, DirDealt, AbsentDealt, Tracked
  <2>6. Dealt(p) => Dealt(p)'
    BY <2>1, <2>5 DEF Dealt
  <2> QED BY <2>1, <2>3, <2>6, <1>2
<1>8. CASE ReadWalkFails
  BY <1>8 DEF ReadWalkFails, AgreeInv, Active
<1> QED BY <1>3, <1>4, <1>5, <1>6, <1>7, <1>8 DEF StartupStep

-----------------------------------------------------------------------------
(***************************************************************************)
(* Run: items move down the line in order.                                 *)
(***************************************************************************)
\* Taking a note from the queue without passing it on.
LEMMA LineDiscard ==
  ASSUME NEW p, NEW q \in Seq(Notes), q # <<>>, NEW ev, NEW K, NEW L, NEW B,
         Head(q) \notin K, K \subseteq L \/ ~Last(Tail(q), p, K),
         Line(q, <<>>, ev, p, K, B)
  PROVE  Line(Tail(q), <<>>, ev, p, L, B)
<1>1. CASE Last(q, p, K)
  <2>1. Last(Tail(q), p, K)
    BY <1>1, LastTail
  <2>2. Last(Tail(q), p, L)
    BY <2>1, LastMono
  <2> QED BY <2>2 DEF Line
<1>2. CASE ~Last(q, p, K)
  <2>1. Silent(q, p)
    BY <1>2 DEF Line
  <2>2. Silent(Tail(q), p)
    BY <2>1, SilentTail
  <2> QED BY <1>2, <2>2 DEF Line
<1> QED BY <1>1, <1>2

\* Passing it on as x.
LEMMA LineTake ==
  ASSUME NEW p, NEW q \in Seq(Notes), q # <<>>, NEW ev, NEW K, NEW B, NEW x,
         Head(q) \in K => x \in B, About(x, p) => About(Head(q), p),
         Line(q, <<>>, ev, p, K, B)
  PROVE  Line(Tail(q), <<x>>, ev, p, K, B)
<1>1. CASE Last(q, p, K)
  <2>1. Last(Tail(q), p, K) \/ (Head(q) \in K /\ Silent(Tail(q), p))
    BY <1>1, LastTail
  <2>2. Head(q) \in K => Last(<<x>>, p, B)
    BY SingleLine
  <2> QED BY <2>1, <2>2 DEF Line
<1>2. CASE ~Last(q, p, K)
  <2>1. Silent(q, p) /\ Last(ev, p, B)
    BY <1>2, EmptyLine DEF Line
  <2>2. Silent(Tail(q), p) /\ ~About(Head(q), p)
    BY <2>1, SilentTail
  <2>3. Silent(<<x>>, p)
    BY <2>2, SingleLine
  <2> QED BY <2>1, <2>2, <2>3 DEF Line
<1> QED BY <1>1, <1>2

\* Putting it into the channel.
LEMMA LinePut ==
  ASSUME NEW p, NEW q, NEW S, NEW ev \in Seq(S), NEW K, NEW B, NEW x \in S,
         Line(q, <<x>>, ev, p, K, B)
  PROVE  Line(q, <<>>, Append(ev, x), p, K, B)
<1>1. Last(<<x>>, p, B) => Last(Append(ev, x), p, B)
  BY SingleLine, LastAppend
<1>2. Silent(<<x>>, p) /\ Last(ev, p, B) => Last(Append(ev, x), p, B)
  BY SingleLine, LastAppend
<1>3. Silent(<<>>, p)
  BY EmptyLine
<1> QED BY <1>1, <1>2, <1>3 DEF Line

\* What a step of Run has to show of a path.
LEMMA RunKept ==
  ASSUME NEW p, Agreed(p),
         UNCHANGED <<kind, size, creating, phase, todo, listed, sizes, live, refused>>,
         Coming(p, News(kind[p])) => Coming(p, News(kind[p]))',
         Unheard(p) => Unheard(p)'
  PROVE  Agreed(p)'
<1>1. Dealt(p) => Dealt(p)'
  BY DealtKept DEF SameSizes
<1> QED BY <1>1, AgreedKept

LEMMA RunAgree ==
  ASSUME TypeInv, WatchInv, OrderInv, AgreeInv, RunStep PROVE AgreeInv'
<1> USE DEF disk, inotify, pipe, startup, walk, history
<1> DEFINE Events == [path : Paths, op : FileOps]
<1>0. /\ kq \in Seq(Notes) /\ hand \in Seq(Items) /\ Len(hand) <= 1 /\ events \in Seq(Events)
      /\ kind \in [Paths -> {"absent", "file", "dir"}]
  BY DEF TypeInv, TypeOK, QueueOK, Items
<1>1. phase = "run" /\ Active
      /\ UNCHANGED <<kind, size, creating, phase, todo, listed, sizes, live, refused, gen>>
  BY DEF RunStep, FsnotifyDiscard, FsnotifySelf, RunTake, RunPutEvent, RunPutError, Idle, Active
<1>2. blind \subseteq blind'
  BY DEF RunStep, FsnotifyDiscard, FsnotifySelf, RunTake, RunPutEvent, RunPutError
<1>3. SUFFICES ASSUME NEW p \in Paths, p \notin Ignored, p \notin blind' PROVE Agreed(p)'
  BY DEF AgreeInv
<1> DEFINE ops == News(kind[p])
           K == Fresh(p, ops)
           B == Told(p, ops)
<1>4. Agreed(p) /\ ops \in SUBSET FileOps
  BY <1>0, <1>1, <1>2, <1>3, NewsOps DEF AgreeInv
<1>5. /\ \A e \in K : /\ About(e, p) /\ e.op \in ops /\ Known(e)
                      /\ e.gen = gen[Parent[p]] /\ Parent[p] \in table
      /\ \A x \in B : About(x, p) /\ x.op \in ops
  BY <1>4, FreshAbout
\* Enough: the line and its silence.
<1>6. ASSUME table' = table, Line(kq, hand, events, p, K, B) => Line(kq', hand', events', p, K, B),
             Unheard(p) => Silent(kq', p) /\ Silent(hand', p) /\ Silent(events', p)
      PROVE  Agreed(p)'
  <2>1. Coming(p, News(kind[p])) => Coming(p, News(kind[p]))'
    <3>1. Fresh(p, News(kind[p]))' = K /\ Told(p, News(kind[p]))' = B
      BY <1>1, <1>6 DEF Fresh, Told
    <3> QED BY <1>6, <3>1 DEF Coming
  <2>2. Unheard(p) => Unheard(p)'
    BY <1>6 DEF Unheard, Silent
  <2> QED BY <1>1, <1>4, <2>1, <2>2, RunKept
<1> HIDE DEF K, B
<1>7. CASE FsnotifyDiscard
  <2>1. /\ kq # <<>> /\ hand = <<>> /\ ~Known(Head(kq)) /\ kq' = Tail(kq)
        /\ UNCHANGED <<table, hand, events>>
    BY <1>7 DEF FsnotifyDiscard, Idle
  <2>2. Head(kq) \notin K
    BY <1>5, <2>1
  <2>3. Line(kq, hand, events, p, K, B) => Line(kq', hand', events', p, K, B)
    BY <1>0, <2>1, <2>2, LineDiscard
  <2>4. Unheard(p) => Silent(kq', p) /\ Silent(hand', p) /\ Silent(events', p)
    BY <1>0, <2>1, SilentTail DEF Unheard
  <2> QED BY <1>6, <2>1, <2>3, <2>4
<1>8. CASE RunTake
  <2> DEFINE x == [path |-> Head(kq).path, op |-> Head(kq).op]
  <2>1. /\ kq # <<>> /\ hand = <<>> /\ kq' = Tail(kq) /\ hand' = <<x>>
        /\ UNCHANGED <<table, events>>
    BY <1>8 DEF RunTake, Idle
  <2>2. About(x, p) <=> About(Head(kq), p)
    BY DEF About
  <2>3. Head(kq) \in K => x \in B
    BY <1>5 DEF About, B, Told
  <2> HIDE DEF x
  <2>4. Line(kq, hand, events, p, K, B) => Line(kq', hand', events', p, K, B)
    BY <1>0, <2>1, <2>2, <2>3, LineTake
  <2>5. Unheard(p) => Silent(kq', p) /\ Silent(hand', p) /\ Silent(events', p)
    <3>1. Silent(kq, p) => Silent(kq', p) /\ ~About(Head(kq), p)
      BY <1>0, <2>1, SilentTail
    <3>2. Silent(kq, p) => Silent(hand', p)
      BY <2>1, <2>2, <3>1, SingleLine
    <3> QED BY <2>1, <3>1, <3>2 DEF Unheard
  <2> QED BY <1>6, <2>1, <2>4, <2>5
<1>9. ASSUME hand # <<>> PROVE hand = <<hand[1]>> /\ hand[1] \in Items
  BY <1>0, <1>9, OnlyItem
<1>10. CASE RunPutEvent
  <2>1. /\ hand = <<hand[1]>> /\ hand[1] \in Events
        /\ hand' = <<>> /\ events' = Append(events, hand[1])
        /\ UNCHANGED <<table, kq>>
    BY <1>9, <1>10 DEF RunPutEvent, Items
  <2> DEFINE x == hand[1]
  <2>2. hand = <<x>> /\ x \in Events
    BY <2>1
  <2> HIDE DEF x, Events
  <2>3. Line(kq, <<x>>, events, p, K, B) => Line(kq, <<>>, Append(events, x), p, K, B)
    BY <1>0, <2>2, LinePut
  <2>4. Silent(<<x>>, p) /\ Silent(events, p) => Silent(<<>>, p) /\ Silent(Append(events, x), p)
    BY <1>0, <2>2, SingleLine, EmptyLine, SilentAppend
  <2>5. hand' = <<>> /\ events' = Append(events, x) /\ kq' = kq /\ table' = table
    BY <2>1 DEF x
  <2> QED BY <1>6, <2>2, <2>3, <2>4, <2>5 DEF Unheard
<1>11. CASE RunPutError
  <2>1. /\ hand = <<hand[1]>> /\ hand[1].op = "overflow" /\ hand' = <<>>
        /\ UNCHANGED <<table, kq, events>>
    BY <1>9, <1>11 DEF RunPutError
  <2> DEFINE x == hand[1]
  <2>2. hand = <<x>> /\ ~About(x, p)
    BY <2>1 DEF About, FileOps
  <2> HIDE DEF x
  <2>3. Silent(hand, p) /\ ~Last(hand, p, B) /\ Silent(<<>>, p)
    BY <1>5, <2>2, SingleLine, EmptyLine
  <2>4. Line(kq, hand, events, p, K, B) => Line(kq', hand', events', p, K, B)
    BY <2>1, <2>3 DEF Line
  <2>5. Unheard(p) => Silent(kq', p) /\ Silent(hand', p) /\ Silent(events', p)
    BY <2>1, <2>3 DEF Unheard
  <2> QED BY <1>6, <2>1, <2>4, <2>5
<1>12. CASE FsnotifySelf
  <2> DEFINE d == Head(kq).path
             x == [path |-> d, op |-> "remove"]
             L == Fresh(p, ops)'
  <2>1. /\ kq # <<>> /\ hand = <<>> /\ Head(kq).op = "self" /\ Known(Head(kq))
        /\ kq' = Tail(kq) /\ table' = table \ {d} /\ UNCHANGED <<gen, events>>
    BY <1>12 DEF FsnotifySelf, Idle
  <2>2. Head(kq) \notin K /\ ~About(Head(kq), p)
    BY <1>5, <2>1 DEF About, FileOps
  <2>3. K \subseteq L \/ ~Last(Tail(kq), p, K)
    <3>1. CASE Parent[p] # d
      <4>1. K \subseteq L
        BY <1>1, <2>1, <3>1 DEF K, Fresh
      <4> QED BY <4>1
    <3>2. CASE Parent[p] = d
      <4>1. SUFFICES ASSUME Last(Tail(kq), p, K) PROVE FALSE
        OBVIOUS
      <4>2. PICK i \in DOMAIN Tail(kq) : Tail(kq)[i] \in K
        BY <4>1 DEF Last
      <4>3. /\ DOMAIN Tail(kq) = 1 .. Len(kq) - 1 /\ DOMAIN kq = 1 .. Len(kq)
            /\ Len(kq) \in Nat /\ Len(kq) # 0 /\ Head(kq) = kq[1]
            /\ \A n \in 1 .. Len(kq) - 1 : Tail(kq)[n] = kq[n + 1]
        BY <1>0, <2>1
      <4>4. /\ i + 1 \in DOMAIN kq /\ 1 \in DOMAIN kq /\ 1 < i + 1
            /\ kq[i + 1] \in K /\ kq[1] = Head(kq)
        BY <4>2, <4>3
      <4>5. /\ kq[i + 1].path = p /\ kq[i + 1].op \in FileOps /\ kq[i + 1].gen = gen[d]
        BY <1>5, <3>2, <4>4 DEF About
      <4>6. kq[1].op = "self" /\ kq[1].path = d /\ kq[1].gen = gen[d]
        BY <2>1, <4>4 DEF Known
      <4> QED BY <3>2, <4>4, <4>5, <4>6 DEF OrderInv, Ordered
    <3> QED BY <3>1, <3>2
  <2>4. Told(p, News(kind[p]))' = B
    BY <1>1 DEF Told, B
  <2>5. Silent(Tail(kq), p) <=> Silent(kq, p)
    BY <1>0, <2>1, <2>2, SilentTail
  <2>6. CASE Parent[d] \in table \/ d # p
    <3>1. hand' = <<>> \/ (hand' = <<x>> /\ d # p)
      BY <1>12, <2>6 DEF FsnotifySelf
    <3>2. Line(kq, <<>>, events, p, K, B) => Line(Tail(kq), <<>>, events, p, L, B)
      <4> HIDE DEF L
      <4> QED BY <1>0, <2>1, <2>2, <2>3, LineDiscard
    <3>3. Silent(hand', p) /\ ~Last(<<>>, p, B) /\ Silent(<<>>, p)
      <4>1. d # p => ~About(x, p)
        BY DEF About
      <4> QED BY <3>1, <4>1, SingleLine, EmptyLine
    <3>4. Line(Tail(kq), <<>>, events, p, L, B) => Line(Tail(kq), hand', events, p, L, B)
      <4> HIDE DEF L
      <4> QED BY <3>3 DEF Line
    <3>5. Coming(p, News(kind[p])) => Coming(p, News(kind[p]))'
      BY <2>1, <2>4, <3>2, <3>4 DEF Coming, K, B
    <3>6. Unheard(p) => Unheard(p)'
      BY <2>1, <2>5, <3>3 DEF Unheard, Silent
    <3> QED BY <1>1, <1>4, <3>5, <3>6, RunKept
  \* fsnotify's own report: it overtakes nothing, p is absent.
  <2>7. CASE Parent[d] \notin table /\ d = p
    <3>1. hand' = <<x>> /\ kind[p] = "absent"
      BY <1>3, <1>12, <2>7 DEF FsnotifySelf
    <3>2. Silent(kq, p)
      <4>1. ~Last(kq, p, K)
        <5>1. K = {}
          BY <2>7 DEF K, Fresh
        <5> QED BY <5>1 DEF Last
      <4> QED BY <1>4, <4>1 DEF Agreed, Coming, Line, Unheard, K
    <3>3. x \in Told(p, News("absent"))
      BY <2>7, NewsOps DEF Told
    <3>4. kind' = kind /\ News(kind'[p]) = News("absent")
      BY <1>1, <3>1
    <3>5. Last(hand', p, Told(p, News("absent")))
      <4> HIDE DEF x
      <4> QED BY <3>1, <3>3, SingleLine
    <3>6. Silent(kq', p)
      BY <2>1, <2>5, <3>2
    <3>7. Coming(p, News(kind[p]))'
      <4>1. Told(p, News(kind[p]))' = Told(p, News("absent"))
        BY <3>4 DEF Told
      <4> QED BY <3>5, <3>6, <4>1 DEF Coming, Line, Silent
    <3> QED BY <3>7 DEF Agreed
  <2> QED BY <2>6, <2>7
<1> QED BY <1>7, <1>8, <1>10, <1>11, <1>12 DEF RunStep

-----------------------------------------------------------------------------
(***************************************************************************)
(* The service loop.                                                       *)
(***************************************************************************)
\* What the loop receives was the last in line about p, or it was not.
LEMMA LineReceive ==
  ASSUME NEW p, NEW q, NEW h, NEW S, NEW ev \in Seq(S), ev # <<>>, NEW K, NEW B,
         Line(q, h, ev, p, K, B)
  PROVE  \/ Line(q, h, Tail(ev), p, K, B)
         \/ Silent(q, p) /\ Silent(h, p) /\ Silent(Tail(ev), p) /\ Head(ev) \in B
<1>1. Last(ev, p, B) => Last(Tail(ev), p, B) \/ (Head(ev) \in B /\ Silent(Tail(ev), p))
  BY LastTail
<1> QED BY <1>1 DEF Line

LEMMA ReceiveComing ==
  ASSUME TypeInv, NEW p, NEW ops \in SUBSET FileOps, events # <<>>, events' = Tail(events),
         hand' = hand,
         \A B : Last(kq, p, B) => Last(kq', p, B), Silent(kq, p) => Silent(kq', p),
         Last(kq, p, Fresh(p, ops)) => Last(kq, p, Fresh(p, ops)')
  PROVE  /\ Coming(p, ops) => \/ Coming(p, ops)'
                              \/ Unheard(p)' /\ Head(events) \in Told(p, ops)
         /\ Unheard(p) => Unheard(p)' /\ ~About(Head(events), p)
<1> DEFINE S == [path : Paths, op : FileOps]
           L == Fresh(p, ops)'
           B == Told(p, ops)
<1>1. events \in Seq(S)
  BY DEF TypeInv, TypeOK
<1>2. Last(kq, p, Fresh(p, ops)) => Last(kq', p, L)
  OBVIOUS
<1>3. /\ Coming(p, ops)' <=> Line(kq', hand, Tail(events), p, L, B)
      /\ Unheard(p)' <=> Silent(kq', p) /\ Silent(hand, p) /\ Silent(Tail(events), p)
  BY DEF Coming, Told, Unheard, Silent
<1> HIDE DEF S, L
<1>4. Coming(p, ops) => Line(kq', hand, events, p, L, B)
  BY <1>2, LineKept DEF Coming
<1> HIDE DEF B
<1>5. Line(kq', hand, events, p, L, B)
        => \/ Line(kq', hand, Tail(events), p, L, B)
           \/ Silent(kq', p) /\ Silent(hand, p) /\ Silent(Tail(events), p) /\ Head(events) \in B
  BY <1>1, LineReceive
<1>6. Silent(events, p) => Silent(Tail(events), p) /\ ~About(Head(events), p)
  BY <1>1, SilentTail
<1>7. Coming(p, ops) => \/ Coming(p, ops)'
                        \/ Unheard(p)' /\ Head(events) \in B
  BY <1>3, <1>4, <1>5
<1>8. Unheard(p) => Unheard(p)' /\ ~About(Head(events), p)
  BY <1>3, <1>6 DEF Unheard
<1> QED BY <1>7, <1>8 DEF B

\* Removing a watch: what fsnotify no longer passes on is blind.
LEMMA RemoveFresh ==
  ASSUME TypeInv, NEW d, NEW p \in Paths, p \notin MailboxAfterRemove(d).blind,
         table' = TableAfterRemove(d), gen' = gen, NEW ops \in SUBSET FileOps
  PROVE  Last(kq, p, Fresh(p, ops)) => Last(kq, p, Fresh(p, ops)')
<1>1. CASE Parent[p] \in table => Parent[p] \in table'
  <2>1. Fresh(p, ops) \subseteq Fresh(p, ops)'
    BY <1>1 DEF Fresh
  <2> QED BY <2>1, LastMono
<1>2. CASE Parent[p] \in table /\ Parent[p] \notin table'
  <2>1. Parent[p] = d /\ IsWatched(EventName[d]) /\ d \in table
    BY <1>2 DEF TableAfterRemove
  <2>2. p \notin Dropped(d)
    BY <2>1 DEF MailboxAfterRemove, Mailbox
  <2>3. SUFFICES ASSUME Last(kq, p, Fresh(p, ops)) PROVE FALSE
    OBVIOUS
  <2>4. PICK i \in DOMAIN kq : kq[i] \in Fresh(p, ops)
    BY <2>3 DEF Last
  <2>5. kq[i].path = p /\ kq[i].op \in FileOps /\ kq[i].gen = gen[d]
    BY <2>1, <2>4, FreshAbout DEF About
  <2> QED BY <2>1, <2>2, <2>5 DEF Dropped
<1> QED BY <1>1, <1>2

\* A log line concerns the log file only, and of that a note tells.
LEMMA LogPosts ==
  ASSUME TypeInv, TreeInv, NEW b, BoxOK(b), b.live \subseteq table',
         WriteLog(b) \/ (SetMailbox(b) /\ size' = size), gen' = gen, kind' = kind,
         NEW p \in Paths, p \notin blind'
  PROVE  \/ /\ \A B : Last(b.q, p, B) => Last(kq', p, B)
            /\ Silent(b.q, p) => Silent(kq', p)
            /\ p \notin b.blind /\ size'[p] = size[p] /\ live' = b.live
         \/ Agreed(p)'
<1>1. CASE SetMailbox(b) /\ size' = size
  BY <1>1 DEF SetMailbox
<1>2. CASE WriteLog(b) /\ LogFile # NoPath
  <2> DEFINE c == Announce(b, LogFile, "write")
  <2>1. LogFile \in Paths /\ "write" \in FileOps /\ TypeOK
    BY <1>2, ConfigAssumption DEF FileOps, TypeInv
  <2>2. /\ kq' = c.q /\ live' = c.live /\ blind' = c.blind
        /\ \E n \in Sizes \ {0} : size' = [size EXCEPT ![LogFile] = n]
    BY <1>2 DEF WriteLog, WriteLine, SetMailbox
  <2>3. CASE p # LogFile
    <3>1. Carries(b, c, p)
      BY <2>1, <2>3, AnnounceCarries
    <3>2. c.live = b.live
      BY DEF Announce, Overflowed, BoxOK
    <3>3. size'[p] = size[p]
      BY <2>1, <2>2, <2>3 DEF TypeOK
    <3> HIDE DEF c
    <3> QED BY <2>2, <3>1, <3>2, <3>3 DEF Carries
  <2>4. CASE p = LogFile
    <3> DEFINE e == [path |-> p, op |-> "write", gen |-> gen[Parent[p]]]
    <3>1. Parent[p] \in b.live /\ Last(c.q, p, {e})
      BY <2>1, <2>2, <2>4, AnnounceTells
    <3>2. News(kind'[p]) = {"create", "write"}
      BY <1>2, <2>4, NewsOps DEF TreeInv
    <3>3. {e} \subseteq Fresh(p, News(kind[p]))'
      BY <3>1, <3>2 DEF Fresh
    <3>4. Last(kq', p, Fresh(p, News(kind[p]))')
      <4> HIDE DEF e, c
      <4> QED BY <2>2, <3>1, <3>3, LastMono
    <3> QED BY <3>4 DEF Agreed, Coming, Line
  <2> QED BY <2>3, <2>4
<1> QED BY <1>1, <1>2 DEF WriteLog, WriteLine, SetMailbox

\* The handlers: what happens to p, if r is the path they handle.
LEMMA HandlerAgree ==
  ASSUME TypeInv, WatchInv, TreeInv, AgreeInv, phase = "run", phase' = "run",
         creating = NotCreating,
         events # <<>>, events' = Tail(events),
         UNCHANGED <<kind, gen, hand, refused>>,
         NEW b, BoxOK(b), b.q = kq, b.live \subseteq table',
         WriteLog(b) \/ (SetMailbox(b) /\ size' = size),
         NEW p \in Paths, p \notin Ignored, p \notin blind',
         p \notin b.blind => /\ p \notin blind
                             /\ \A ops \in SUBSET FileOps :
                                  Last(kq, p, Fresh(p, ops)) => Last(kq, p, Fresh(p, ops)'),
         Head(events).path # p =>
            SameSizes(p) /\ creating'.path # p /\ (p \in live => p \in b.live),
         Head(events).path = p /\ Head(events).op \in News(kind[p]) /\ size'[p] = size[p] => Dealt(p)'
  PROVE  Agreed(p)'
<1>0. kind[p] \in {"absent", "file", "dir"} /\ creating.path # p
  BY TreeAssumption DEF TypeInv, TypeOK, NotCreating, Dirs
<1>1. PICK ops \in SUBSET FileOps : ops = News(kind[p]) /\ ops = News(kind'[p])
  BY <1>0, NewsOps
<1>2. SUFFICES ASSUME \A B : Last(b.q, p, B) => Last(kq', p, B), Silent(b.q, p) => Silent(kq', p),
                      p \notin b.blind, size'[p] = size[p], live' = b.live
               PROVE  Agreed(p)'
  BY LogPosts
<1>3. p \notin blind /\ Agreed(p)
  BY <1>2 DEF AgreeInv, Active
<1>4. /\ Coming(p, ops) => \/ Coming(p, ops)'
                           \/ Unheard(p)' /\ Head(events) \in Told(p, ops)
      /\ Unheard(p) => Unheard(p)' /\ ~About(Head(events), p)
  <2>1. Last(kq, p, Fresh(p, ops)) => Last(kq, p, Fresh(p, ops)')
    BY <1>1, <1>2
  <2> QED BY <1>2, <2>1, ReceiveComing
<1>5. Coming(p, ops)' => Agreed(p)'
  BY <1>1 DEF Agreed
<1>6. CASE Coming(p, ops) /\ ~Coming(p, ops)'
  <2>1. Unheard(p)' /\ Head(events).path = p /\ Head(events).op \in ops
    <3>1. Unheard(p)' /\ Head(events) \in Told(p, ops)
      BY <1>4, <1>6
    <3>2. About(Head(events), p) /\ Head(events).op \in ops
      BY <3>1, FreshAbout
    <3> QED BY <3>1, <3>2 DEF About
  <2> QED BY <1>1, <1>2, <2>1 DEF Agreed
<1>7. CASE ~Coming(p, ops)
  <2>1. Unheard(p)' /\ ~About(Head(events), p) /\ Dealt(p)
    BY <1>1, <1>3, <1>4, <1>7 DEF Agreed
  <2>2. Head(events).op \in FileOps
    <3>1. events \in Seq([path : Paths, op : FileOps])
      BY DEF TypeInv, TypeOK
    <3> DEFINE S == [path : Paths, op : FileOps]
    <3>2. Head(events) \in S
      <4> HIDE DEF S
      <4>1. events \in Seq(S) /\ events # <<>>
        BY <3>1 DEF S
      <4> QED BY <4>1
    <3> QED BY <3>2
  <2>3. Head(events).path # p
    BY <2>1, <2>2 DEF About
  <2>4. SameSizes(p) /\ creating'.path # p /\ (p \in live => p \in live')
    BY <1>2, <2>3
  <2>5. /\ FileDealt(p) => FileDealt(p)'
        /\ DirDealt(p) => DirDealt(p)'
        /\ AbsentDealt(p) => AbsentDealt(p)'
    BY <1>0, <1>2, <2>4, SameTracked DEF FileDealt, DirDealt, AbsentDealt
  <2>6. Dealt(p)'
    BY <2>1, <2>5 DEF Dealt
  <2> QED BY <2>1, <2>6 DEF Agreed
<1> QED BY <1>5, <1>6, <1>7

LEMMA HandleAgree ==
  ASSUME TypeInv, WatchInv, TreeInv, AgreeInv, HandleEvent PROVE AgreeInv'
<1> USE DEF disk, inotify, pipe, startup, walk, history
<1> DEFINE r == Head(events).path
           o == Head(events).op
<1>0. /\ phase = "run" /\ creating = NotCreating /\ events # <<>> /\ events' = Tail(events)
      /\ UNCHANGED <<kind, gen, hand, refused>> /\ phase' \in {"run", "crashed"}
  BY DEF HandleEvent, HandleIgnored, HandleWrite, HandleGone, HandleCreate, Receive, Selecting,
         printRecord, WriteLog
<1>1. SUFFICES ASSUME NEW p \in Paths, p \notin Ignored, p \notin blind', phase' = "run"
               PROVE  Agreed(p)'
  BY <1>0 DEF AgreeInv, Active
<1>2. /\ BoxOK(Mailbox) /\ BoxOK(MailboxAfterRemove(r))
      /\ Mailbox.q = kq /\ Mailbox.live = live /\ Mailbox.blind = blind
      /\ MailboxAfterRemove(r).q = kq
      /\ MailboxAfterRemove(r).live \subseteq TableAfterRemove(r)
      /\ p \notin MailboxAfterRemove(r).blind => p \notin blind
      /\ r # p /\ p \in live => p \in MailboxAfterRemove(r).live
      /\ live \subseteq table /\ r \in Paths
  <2>0. r \in Paths
    <3>1. Receive(FileOps)
      BY DEF HandleEvent, HandleIgnored, HandleWrite, HandleGone, HandleCreate, Receive, FileOps
    <3> QED BY <3>1, ReceiveType DEF TypeInv
  <2>1. MailboxAfterRemove(r).q = kq
        /\ (p \notin MailboxAfterRemove(r).blind => p \notin blind)
        /\ (r # p /\ p \in live => p \in MailboxAfterRemove(r).live)
    BY DEF MailboxAfterRemove, Mailbox
  <2> QED BY <2>0, <2>1, MailboxOK, MailboxAfterRemoveOK, RemoveGone
          DEF Mailbox, WatchInv, WatchTables
<1>3. \A ops : UNCHANGED <<table, gen>> => Fresh(p, ops)' = Fresh(p, ops)
  BY FreshSame
<1>4. /\ sizes \in [Names -> Sizes \cup {NoEntry}] /\ kind[p] \in {"absent", "file", "dir"}
      /\ creating.path # p
  BY <1>0, TreeAssumption DEF TypeInv, TypeOK, NotCreating, Dirs
<1>5. /\ o \in News(kind[p]) /\ o = "write" => kind[p] = "file"
      /\ o \in News(kind[p]) /\ o = "create" => kind[p] \in {"file", "dir"}
      /\ o \in News(kind[p]) /\ o \in {"remove", "rename"} => kind[p] = "absent"
  BY <1>4, NewsOps
<1>6. CASE HandleIgnored
  <2>1. r # p /\ UNCHANGED <<size, sizes, creating>> /\ SameSizes(p)
    BY <1>1, <1>6 DEF HandleIgnored, ShouldIgnore, SameSizes
  <2>2. CASE o \in {"remove", "rename"}
    <3>1. SetMailbox(MailboxAfterRemove(r)) /\ table' = TableAfterRemove(r)
      BY <1>6, <2>2 DEF HandleIgnored
    <3>2. p \notin MailboxAfterRemove(r).blind =>
             \A ops \in SUBSET FileOps : Last(kq, p, Fresh(p, ops)) => Last(kq, p, Fresh(p, ops)')
      BY <1>0, <3>1, RemoveFresh
    <3> HIDE DEF r, o
    <3> QED BY <1>0, <1>1, <1>2, <1>4, <2>1, <3>1, <3>2, HandlerAgree DEF r
  <2>3. CASE o \notin {"remove", "rename"}
    <3>1. SetMailbox(Mailbox) /\ table' = table
      BY <1>6, <2>3 DEF HandleIgnored
    <3> HIDE DEF o
    <3> QED BY <1>0, <1>1, <1>2, <1>3, <1>4, <2>1, <3>1, HandlerAgree
  <2> QED BY <2>2, <2>3
<1>7. CASE HandleWrite
  <2>1. /\ WriteLog(Mailbox) \/ (SetMailbox(Mailbox) /\ size' = size)
        /\ table' = table /\ creating' = creating
        /\ sizes' = [sizes EXCEPT ![EventName[r]] = getFileSize(r)] /\ o = "write"
    BY <1>7 DEF HandleWrite, printRecord, Receive
  <2>2. r = p /\ o \in News(kind[p]) /\ size'[p] = size[p] => Dealt(p)'
    <3>1. SUFFICES ASSUME r = p, kind[p] = "file", size'[p] = size[p] PROVE Dealt(p)'
      BY <1>5, <2>1
    <3>2. sizes'[EventName[p]] = size'[p]
      BY <1>4, <2>1, <3>1, Spellings DEF getFileSize
    <3> QED BY <1>0, <1>4, <2>1, <3>1, <3>2 DEF Dealt, FileDealt, Tracked
  <2>3. r # p => SameSizes(p) /\ creating'.path # p /\ (p \in live => p \in Mailbox.live)
    BY <1>2, <1>4, <2>1, OtherSizes
  <2> HIDE DEF o
  <2> QED BY <1>0, <1>1, <1>2, <1>3, <2>1, <2>2, <2>3, HandlerAgree DEF o
<1>8. CASE HandleGone
  <2> DEFINE b == MailboxAfterRemove(r)
  <2>1. /\ WriteLog(b) \/ (SetMailbox(b) /\ size' = size)
        /\ table' = TableAfterRemove(r) /\ creating' = creating
        /\ sizes' = [sizes EXCEPT ![EventName[r]] = NoEntry] /\ o \in {"remove", "rename"}
    BY <1>8 DEF HandleGone, printRecord, Receive, SizesWithout
  <2>2. r = p /\ o \in News(kind[p]) /\ size'[p] = size[p] => Dealt(p)'
    <3>1. SUFFICES ASSUME r = p, kind[p] = "absent" PROVE Dealt(p)'
      BY <1>5, <2>1
    <3>2. sizes'[EventName[p]] = NoEntry
      BY <1>4, <2>1, <3>1, Spellings
    <3> QED BY <1>0, <1>4, <2>1, <3>1, <3>2 DEF Dealt, AbsentDealt
  <2>3. r # p => SameSizes(p) /\ creating'.path # p /\ (p \in live => p \in b.live)
    BY <1>2, <1>4, <2>1, OtherSizes
  <2>4. p \notin b.blind =>
           \A ops \in SUBSET FileOps : Last(kq, p, Fresh(p, ops)) => Last(kq, p, Fresh(p, ops)')
    BY <1>0, <2>1, RemoveFresh
  <2>5. BoxOK(b) /\ b.q = kq /\ b.live \subseteq table' /\ (p \notin b.blind => p \notin blind)
    BY <1>2, <2>1
  <2> HIDE DEF o, b
  <2> QED BY <1>0, <1>1, <2>1, <2>2, <2>3, <2>4, <2>5, HandlerAgree DEF o
<1>9. CASE HandleCreate
  <2>1. /\ UNCHANGED <<size, kq, live, blind, overflow, table, sizes>> /\ o = "create"
        /\ creating' = [path |-> r, isDir |-> kind[r] = "dir"]
    BY <1>9 DEF HandleCreate, Receive
  <2>2. SetMailbox(Mailbox)
    BY <2>1 DEF SetMailbox, Mailbox
  <2>3. r = p /\ o \in News(kind[p]) /\ size'[p] = size[p] => Dealt(p)'
    <3>1. SUFFICES ASSUME r = p, kind[p] \in {"file", "dir"} PROVE Dealt(p)'
      BY <1>5, <2>1
    <3>2. creating'.path = p /\ (creating'.isDir <=> kind[p] = "dir")
      BY <2>1, <3>1
    <3> QED BY <1>0, <3>1, <3>2 DEF Dealt, FileDealt, DirDealt
  <2>4. r # p => SameSizes(p) /\ creating'.path # p /\ (p \in live => p \in Mailbox.live)
    BY <1>2, <2>1 DEF SameSizes
  <2> HIDE DEF o
  <2> QED BY <1>0, <1>1, <1>2, <1>3, <2>1, <2>2, <2>3, <2>4, HandlerAgree DEF o
<1> QED BY <1>6, <1>7, <1>8, <1>9 DEF HandleEvent

LEMMA FinishAgree ==
  ASSUME TypeInv, WatchInv, TreeInv, AgreeInv, FinishCreate \/ HandleError PROVE AgreeInv'
<1> USE DEF disk, inotify, pipe, startup, walk, history
<1>0. /\ phase = "run" /\ UNCHANGED <<kind, hand, events>> /\ phase' \in {"run", "crashed"}
  BY DEF FinishCreate, FinishCreateDir, FinishCreateFile, HandleError, Selecting, printRecord,
         WriteLog
<1>1. SUFFICES ASSUME NEW p \in Paths, p \notin Ignored, p \notin blind', phase' = "run"
               PROVE  Agreed(p)'
  BY <1>0 DEF AgreeInv, Active
<1>2. kind[p] \in {"absent", "file", "dir"} /\ NoPath # p /\ NoPath \notin Dirs
      /\ sizes \in [Names -> Sizes \cup {NoEntry}] /\ live \subseteq table
  BY TreeAssumption DEF TypeInv, TypeOK, Dirs, WatchInv, WatchTables
<1>3. PICK ops \in SUBSET FileOps : ops = News(kind[p]) /\ ops = News(kind'[p])
  BY <1>0, <1>2, NewsOps
<1>4. Coming(p, ops)' => Agreed(p)'
  BY <1>3 DEF Agreed
<1>5. CASE FinishCreateDir
  <2>1. /\ creating # NotCreating /\ creating.isDir
        /\ AddPath(creating.path, EventName[creating.path])
        /\ creating' = NotCreating /\ UNCHANGED <<size, kq, sizes>>
    BY <1>5 DEF FinishCreateDir
  <2>2. creating.path \in Dirs
    BY <2>1 DEF TypeInv, TypeOK, Dirs
  <2>3. /\ p \notin blind
        /\ Coming(p, ops) => Coming(p, ops)'
        /\ Unheard(p) => Unheard(p)'
        /\ p \in live \cup refused => p \in live' \cup refused'
        /\ p = creating.path /\ kind[p] = "dir" => p \in live' \cup refused'
    BY <1>0, <1>1, <2>1, <2>2, AddPathAgree
  <2>4. Agreed(p)
    BY <1>0, <1>1, <2>3 DEF AgreeInv, Active
  <2>5. creating'.path # p
    BY <1>2, <2>1 DEF NotCreating
  <2>6. /\ FileDealt(p) => FileDealt(p)'
        /\ kind[p] = "dir" /\ DirDealt(p) => DirDealt(p)'
        /\ AbsentDealt(p) => AbsentDealt(p)'
    BY <1>0, <2>1, <2>3, <2>5 DEF FileDealt, DirDealt, AbsentDealt, Tracked
  <2>7. Dealt(p) => Dealt(p)'
    BY <1>0, <2>6 DEF Dealt
  <2> QED BY <1>3, <1>4, <2>3, <2>4, <2>7 DEF Agreed
\* With a log line, from a mailbox that differs from what there is in
\* overflow only.
<1>6. ASSUME NEW b, BoxOK(b), b.q = kq, b.live = live, b.blind = blind, UNCHANGED <<table, gen>>,
             WriteLog(b) \/ (SetMailbox(b) /\ size' = size), UNCHANGED refused,
             size'[p] = size[p] /\ Dealt(p) => Dealt(p)' \/ live' # live
      PROVE  Agreed(p)'
  <2>1. SUFFICES ASSUME \A B : Last(kq, p, B) => Last(kq', p, B), Silent(kq, p) => Silent(kq', p),
                        p \notin blind, size'[p] = size[p], live' = live
                 PROVE  Agreed(p)'
    BY <1>0, <1>1, <1>2, <1>6, LogPosts
  <2>2. Agreed(p)
    BY <1>0, <1>1, <2>1 DEF AgreeInv, Active
  <2>3. Coming(p, ops) => Coming(p, ops)'
    <3>1. Last(kq, p, Fresh(p, ops)) => Last(kq', p, Fresh(p, ops)')
      BY <1>6, <2>1, FreshSame
    <3>2. Coming(p, ops) => Line(kq', hand, events, p, Fresh(p, ops)', Told(p, ops))
      BY <2>1, <3>1, LineKept DEF Coming
    <3> QED BY <1>0, <3>2 DEF Coming, Told
  <2>4. Unheard(p) => Unheard(p)'
    BY <1>0, <2>1 DEF Unheard, Silent
  <2> QED BY <1>3, <1>4, <1>6, <2>1, <2>2, <2>3, <2>4 DEF Agreed
<1>7. BoxOK(Mailbox) /\ Mailbox.q = kq /\ Mailbox.live = live /\ Mailbox.blind = blind
  BY MailboxOK DEF Mailbox
<1>8. CASE FinishCreateFile
  <2>1. /\ creating # NotCreating /\ ~creating.isDir /\ creating' = NotCreating
        /\ sizes' = [sizes EXCEPT ![EventName[creating.path]] = getFileSize(creating.path)]
        /\ WriteLog(Mailbox) \/ (SetMailbox(Mailbox) /\ size' = size)
        /\ UNCHANGED <<table, gen, refused>>
    BY <1>8 DEF FinishCreateFile, printRecord
  <2>2. creating'.path # p /\ creating.path \in Paths
    BY <1>2, <2>1 DEF NotCreating, TypeInv, TypeOK
  <2>4. /\ sizes'[EventName[creating.path]] = getFileSize(creating.path)
        /\ creating.path # p => SameSizes(p)
    BY <1>2, <2>1, <2>2, OtherSizes
  <2>3. ASSUME size'[p] = size[p], live' = live, Dealt(p) PROVE Dealt(p)'
    <3>1. kind[p] = "file" => FileDealt(p)'
      <4>1. CASE creating.path = p
        BY <2>2, <2>3, <2>4, <4>1 DEF FileDealt, Tracked, getFileSize
      <4>2. CASE creating.path # p
        BY <1>0, <2>2, <2>3, <2>4, <4>2, SameTracked DEF Dealt, FileDealt
      <4> QED BY <4>1, <4>2
    <3>2. kind[p] = "dir" => DirDealt(p)'
      BY <1>0, <2>1, <2>2, <2>3 DEF Dealt, DirDealt
    <3>3. kind[p] = "absent" => AbsentDealt(p)'
      BY <2>2, <2>3, <2>4, SameTracked DEF Dealt, AbsentDealt
    <3> QED BY <1>0, <3>1, <3>2, <3>3 DEF Dealt
  <2> QED BY <1>6, <1>7, <2>1, <2>3
<1>9. CASE HandleError
  <2> DEFINE b == [Mailbox EXCEPT !.overflow = IF LastError THEN "told" ELSE @]
  <2>1. BoxOK(b) /\ b.q = kq /\ b.live = live /\ b.blind = blind
    BY <1>7 DEF BoxOK
  <2>2. WriteLog(b) /\ UNCHANGED <<table, gen, refused, sizes, creating>>
    BY <1>9 DEF HandleError
  <2>3. ASSUME size'[p] = size[p], live' = live, Dealt(p) PROVE Dealt(p)'
    <3>1. /\ FileDealt(p) => FileDealt(p)'
          /\ DirDealt(p) => DirDealt(p)'
          /\ AbsentDealt(p) => AbsentDealt(p)'
      BY <1>0, <1>1, <2>2, <2>3 DEF FileDealt, DirDealt, AbsentDealt, Tracked
    <3> QED BY <1>0, <2>3, <3>1 DEF Dealt
  <2> HIDE DEF b
  <2> QED BY <1>6, <2>1, <2>2, <2>3
<1> QED BY <1>5, <1>8, <1>9 DEF FinishCreate

-----------------------------------------------------------------------------
LEMMA NextAgree ==
  TypeInv /\ WatchInv /\ TreeInv /\ StartInv /\ OrderInv /\ AgreeInv /\ [Next]_vars => AgreeInv'
<1> SUFFICES ASSUME TypeInv, WatchInv, TreeInv, StartInv, OrderInv, AgreeInv, [Next]_vars
             PROVE  AgreeInv'
  OBVIOUS
<1>1. ASSUME phase' \in {phase, "stopped"},
             UNCHANGED <<kind, size, live, table, gen, kq, hand, events, sizes, todo, listed,
                         creating, blind, refused>>
      PROVE  AgreeInv'
  <2>1. CASE phase' = "stopped"
    BY <2>1 DEF AgreeInv, Active
  <2>2. CASE phase' = phase
    <3>1. \A p : Agreed(p) => Agreed(p)'
      BY <1>1, <2>2 DEF Agreed, Coming, Unheard, Fresh, Told, Silent, Dealt, FileDealt, DirDealt,
                        AbsentDealt, Tracked, Below
    <3> QED BY <1>1, <2>2, <3>1 DEF AgreeInv, Active
  <2> QED BY <1>1, <2>1, <2>2
<1>2. CASE Signal \/ HandleSignal \/ UNCHANGED vars
  BY <1>1, <1>2 DEF Signal, HandleSignal, vars, disk, inotify, pipe, startup, walk, history
<1> QED BY <1>2, UserAgree, StartupAgree, RunAgree, HandleAgree, FinishAgree DEF Next, Terminated

LEMMA InitAgree == Init => TreeInv /\ StartInv /\ OrderInv /\ AgreeInv
<1> SUFFICES ASSUME Init PROVE TreeInv /\ StartInv /\ OrderInv /\ AgreeInv
  OBVIOUS
<1>1. TreeInv /\ StartInv
  BY TreeAssumption, Spellings DEF Init, TreeInv, StartInv, ScanInv, IsDir, Dirs
<1>2. OrderInv
  BY DEF Init, OrderInv, Ordered
<1>3. ASSUME NEW p \in Paths PROVE Agreed(p)
  <2>1. Unheard(p)
    BY EmptyLine DEF Init, Unheard
  <2>2. creating.path # p /\ phase = "scan" /\ sizes[EventName[p]] = NoEntry
    BY TreeAssumption, Spellings DEF Init, NotCreating, Dirs
  <2>3. Below(todo, p)
    BY BelowRoot DEF Init
  <2> QED BY <2>1, <2>2, <2>3 DEF Agreed, Dealt, FileDealt, DirDealt, AbsentDealt
<1> QED BY <1>1, <1>2, <1>3 DEF AgreeInv

\* Whoever is settled has been dealt with.
LEMMA SettledDealt ==
  ASSUME TypeInv, AgreeInv, NEW p \in Paths, Settled(p)
  PROVE  Dealt(p) /\ creating.path # p /\ phase = "run"
<1>1. phase = "run" /\ p \notin Ignored \cup blind /\ ~Pending(p)
  BY DEF Settled
<1>2. Agreed(p) /\ kind[p] \in {"absent", "file", "dir"}
  BY <1>1 DEF AgreeInv, Active, TypeInv, TypeOK
<1>3. Unheard(p) /\ creating.path # p
  BY <1>1 DEF Pending, Unheard, Silent, About
<1>4. ~Coming(p, News(kind[p]))
  <2>1. News(kind[p]) \in SUBSET FileOps
    BY <1>2, NewsOps
  <2>2. /\ ~Last(kq, p, Fresh(p, News(kind[p])))
        /\ ~Last(hand, p, Told(p, News(kind[p])))
        /\ ~Last(events, p, Told(p, News(kind[p])))
    BY <1>3, <2>1, FreshAbout, LastNotSilent DEF Unheard
  <2> QED BY <2>2 DEF Coming, Line
<1> QED BY <1>1, <1>2, <1>3, <1>4 DEF Agreed

\* SettledSizes: once all that is queued about a path has been handled, the
\* size table holds, under the name the events give it, the size of the file
\* there (or nothing yet, and the scan's entry is right), or nothing if nothing
\* is there, for any tree and spelling of it, any queue sizes and any
\* interleaving of users and handlers.
THEOREM SettledSizes == Spec => []SizesAgree
<1>1. TypeInv /\ AgreeInv => SizesAgree
  BY SettledDealt DEF SizesAgree, Dealt, FileDealt, AbsentDealt, Tracked
<1>2. Init => WatchInv
  BY DEF Init, WatchInv, SelfGone, WatchTables, Elems
<1> QED BY <1>1, <1>2, InitType, NextType, NextWatch, InitAgree, NextTree, NextStart, NextOrder,
           NextAgree, PTL DEF Spec

\* SettledWatches: a directory of which all has been handled is watched unless
\* the kernel refused the watch, whatever was created, removed and created
\* again between os.Stat and AddPath.
THEOREM SettledWatches == Spec => []WatchesAgree
<1>1. TypeInv /\ AgreeInv => WatchesAgree
  BY SettledDealt DEF WatchesAgree, Dealt, DirDealt
<1>2. Init => WatchInv
  BY DEF Init, WatchInv, SelfGone, WatchTables, Elems
<1> QED BY <1>1, <1>2, InitType, NextType, NextWatch, InitAgree, NextTree, NextStart, NextOrder,
           NextAgree, PTL DEF Spec

=============================================================================
