---------------------------- MODULE DedupProofs -----------------------------
(***************************************************************************)
(* What printRecord and a new process do to the statistics and their file, *)
(* for all operations and keys.  ProgramProofs has the theorems: Program   *)
(* is the specification that says when a record is printed.                *)
(***************************************************************************)
EXTENDS DedupLog, SequenceLemmas, FiniteSetTheorems, TLAPS

\* The list and the map of the statistics know the same keys, those that have
\* come up, and the file is as good as the last write.
DedupInv ==
  /\ groups \in [Ops -> Seq(Keys)] /\ records \in Seq(Ops \X Keys)
  /\ Len(records) <= MaxRecords /\ written \in BOOLEAN
  /\ file \in [Ops -> Seq(Keys)] \cup {NoFile}
  /\ pos = {x \in Ops \X Keys : \E i \in DOMAIN records : records[i] = x}
  /\ MostRecentLast /\ FileCurrent

-----------------------------------------------------------------------------
\* The last time of what has come up is the greatest of its times.
LEMMA LastTimeIs ==
  ASSUME records \in Seq(Ops \X Keys), NEW op \in Ops, NEW k \in Keys, Times(op, k) # {}
  PROVE  /\ LastTime(op, k) \in Times(op, k)
         /\ \A j \in Times(op, k) : j <= LastTime(op, k)
<1>1. Len(records) \in Nat /\ Times(op, k) \subseteq 1 .. Len(records)
  BY DEF Times
<1>2. \E i \in Times(op, k) : \A j \in Times(op, k) : j <= i
  BY <1>1, Greatest
<1> QED BY <1>2 DEF LastTime

\* A record changes the last time of its own key only.
LEMMA RecordTimes ==
  ASSUME records \in Seq(Ops \X Keys), NEW o \in Ops, NEW k \in Keys,
         records' = Append(records, <<o, k>>)
  PROVE  /\ Times(o, k)' # {} /\ LastTime(o, k)' = Len(records) + 1
         /\ \A p \in Ops, l \in Keys : p # o \/ l # k => /\ Times(p, l)' = Times(p, l)
                                                         /\ LastTime(p, l)' = LastTime(p, l)
<1> DEFINE n == Len(records) + 1
<1>1. /\ n \in Nat /\ DOMAIN records = 1 .. n - 1 /\ DOMAIN records' = DOMAIN records \cup {n}
      /\ records'[n] = <<o, k>> /\ \A i \in DOMAIN records : records'[i] = records[i]
      /\ <<o, k>> \in Ops \X Keys
  BY PutLast
<1>2. Times(o, k)' = Times(o, k) \cup {n} /\ Times(o, k) \subseteq 1 .. n - 1
  BY <1>1 DEF Times
<1>3. \A p \in Ops, l \in Keys : p # o \/ l # k => Times(p, l)' = Times(p, l)
  BY <1>1 DEF Times
<1>4. \A p \in Ops, l \in Keys : p # o \/ l # k => LastTime(p, l)' = LastTime(p, l)
  BY <1>3 DEF LastTime
<1>5. n \in Times(o, k)' /\ \A j \in Times(o, k)' : j <= n
  BY <1>1, <1>2
<1>6. LastTime(o, k)' = n
  <2>1. \A i \in Times(o, k)' : (\A j \in Times(o, k)' : j <= i) => i = n
    BY <1>1, <1>2
  <2> HIDE DEF n
  <2> QED BY <1>5, <2>1 DEF LastTime
<1> QED BY <1>3, <1>4, <1>5, <1>6

\* What comes last goes last.
LEMMA LastGoesLast ==
  ASSUME records \in Seq(Ops \X Keys), NEW o \in Ops, NEW k \in Keys,
         records' = Append(records, <<o, k>>),
         NEW t \in Seq(Keys), ToSet(t) = {l \in Keys : Times(o, l) # {}} \ {k},
         \A i, j \in DOMAIN t : i < j => LastTime(o, t[i]) < LastTime(o, t[j])
  PROVE  Ordered(Append(t, k), o)'
<1> DEFINE n == Len(t) + 1
           g == Append(t, k)
<1>1. /\ n \in Nat /\ DOMAIN t = 1 .. n - 1 /\ DOMAIN g = 1 .. n /\ g[n] = k /\ n \in 1 .. n
      /\ \A i \in DOMAIN t : g[i] = t[i] /\ t[i] \in Keys /\ t[i] \in ToSet(t)
  BY PutLast DEF ToSet
<1> HIDE DEF n, g
<1>2. ToSet(g) = ToSet(t) \cup {k}
  <2>1. \A i \in DOMAIN g : g[i] \in ToSet(t) \cup {k}
    BY <1>1
  <2>2. \A i \in DOMAIN t : \E j \in DOMAIN g : g[j] = t[i]
    BY <1>1
  <2>3. \E j \in DOMAIN g : g[j] = k
    BY <1>1
  <2> QED BY <2>1, <2>2, <2>3 DEF ToSet
<1>3. ToSet(g) = {l \in Keys : Times(o, l)' # {}}
  BY <1>2, RecordTimes
<1>4. ASSUME NEW i \in 1 .. n - 1 PROVE LastTime(o, g[i])' = LastTime(o, t[i]) /\ t[i] # k
  <2>1. PICK l \in Keys : l = t[i] /\ l = g[i] /\ l # k
    BY <1>1
  <2>2. LastTime(o, l)' = LastTime(o, l)
    BY <2>1, RecordTimes
  <2> QED BY <2>1, <2>2
<1>5. ASSUME NEW i \in 1 .. n - 1 PROVE LastTime(o, t[i]) < LastTime(o, k)'
  <2>1. PICK l \in Keys : l = t[i] /\ Times(o, l) # {}
    BY <1>1
  <2>2. LastTime(o, l) \in Times(o, l)
    BY <2>1, LastTimeIs
  <2>3. LastTime(o, l) \in 1 .. Len(records) /\ Len(records) \in Nat
    BY <2>2 DEF Times
  <2> QED BY <2>1, <2>3, RecordTimes
<1>6. \A i, j \in DOMAIN g : i < j => LastTime(o, g[i])' < LastTime(o, g[j])'
  <2> SUFFICES ASSUME NEW i \in DOMAIN g, NEW j \in DOMAIN g, i < j
               PROVE  LastTime(o, g[i])' < LastTime(o, g[j])'
    OBVIOUS
  <2>1. i \in 1 .. n - 1
    BY <1>1
  <2>2. CASE j = n
    BY <1>1, <1>4, <1>5, <2>1, <2>2
  <2>3. CASE j # n
    <3>1. j \in 1 .. n - 1
      BY <1>1, <2>3
    <3> QED BY <1>1, <1>4, <2>1, <3>1
  <2> QED BY <2>2, <2>3
<1> QED BY <1>3, <1>6 DEF Ordered, g

\* A sequence without its element at n.
LEMMA WithoutOne ==
  ASSUME NEW S, NEW s \in Seq(S), NEW n \in DOMAIN s
  PROVE  LET t == RemoveAt(s, n)
         IN /\ t \in Seq(S) /\ Len(t) = Len(s) - 1 /\ Len(s) \in Nat
            /\ \A i \in DOMAIN t : t[i] = s[IF i < n THEN i ELSE i + 1]
            /\ DOMAIN t = 1 .. Len(s) - 1 /\ DOMAIN s = 1 .. Len(s)
<1> DEFINE u == SubSeq(s, 1, n - 1)
           v == SubSeq(s, n + 1, Len(s))
<1>1. Len(s) \in Nat /\ n \in 1 .. Len(s) /\ DOMAIN s = 1 .. Len(s)
  OBVIOUS
<1>2. u \in Seq(S) /\ Len(u) = n - 1 /\ \A i \in 1 .. n - 1 : u[i] = s[i]
  BY <1>1, SubSeqProperties
<1>3. v \in Seq(S) /\ Len(v) = Len(s) - n /\ \A i \in 1 .. Len(s) - n : v[i] = s[n + i]
  <2>1. n = Len(s) => v = <<>>
    BY <1>1
  <2>2. \A i \in n + 1 .. Len(s) : s[i] \in S
    BY <1>1
  <2> QED BY <1>1, <2>1, <2>2, SubSeqProperties
<1>4. RemoveAt(s, n) = u \o v
  BY DEF RemoveAt
<1> HIDE DEF u, v
<1>5. /\ u \o v \in Seq(S) /\ Len(u \o v) = Len(s) - 1
      /\ DOMAIN (u \o v) = 1 .. Len(s) - 1
      /\ \A i \in 1 .. Len(s) - 1 : (u \o v)[i] = IF i <= n - 1 THEN u[i] ELSE v[i - (n - 1)]
  <2>1. Len(u) + Len(v) = Len(s) - 1
    BY <1>1, <1>2, <1>3
  <2>2. /\ u \o v \in Seq(S) /\ Len(u \o v) = Len(u) + Len(v)
        /\ \A i \in 1 .. Len(u) + Len(v) : (u \o v)[i] = IF i <= Len(u) THEN u[i] ELSE v[i - Len(u)]
    BY <1>2, <1>3, ConcatProperties
  <2>3. DOMAIN (u \o v) = 1 .. Len(u \o v)
    BY <2>2
  <2> QED BY <1>2, <2>1, <2>2, <2>3
<1>6. \A i \in 1 .. Len(s) - 1 : (u \o v)[i] = s[IF i < n THEN i ELSE i + 1]
  <2> TAKE i \in 1 .. Len(s) - 1
  <2>0. PICK w : w = u \o v
    OBVIOUS
  <2>1. CASE i < n
    <3>1. i <= n - 1 /\ i \in 1 .. n - 1
      BY <1>1, <2>1
    <3>2. w[i] = u[i] /\ u[i] = s[i]
      BY <1>2, <1>5, <2>0, <3>1
    <3> QED BY <2>0, <2>1, <3>2
  <2>2. CASE ~(i < n)
    <3>1. ~(i <= n - 1) /\ i - (n - 1) \in 1 .. Len(s) - n /\ n + (i - (n - 1)) = i + 1
      BY <1>1, <2>2
    <3>2. v[i - (n - 1)] = s[n + (i - (n - 1))]
      BY <1>3, <3>1
    <3>3. w[i] = v[i - (n - 1)]
      BY <1>5, <2>0, <3>1
    <3> QED BY <2>0, <2>2, <3>1, <3>2, <3>3
  <2> QED BY <2>1, <2>2
<1> QED BY <1>1, <1>4, <1>5, <1>6

\* Moved to the back, a key that has come up again is at its place.
LEMMA MovedOrdered ==
  ASSUME records \in Seq(Ops \X Keys), NEW o \in Ops, NEW k \in Keys,
         records' = Append(records, <<o, k>>),
         NEW s \in Seq(Keys), Ordered(s, o), k \in ToSet(s)
  PROVE  MoveToBack(s, k) \in Seq(Keys) /\ Ordered(MoveToBack(s, k), o)'
<1> DEFINE n == CHOOSE m \in DOMAIN s : s[m] = k
           t == RemoveAt(s, n)
           old(i) == IF i < n THEN i ELSE i + 1
<1>1. n \in DOMAIN s /\ s[n] = k /\ MoveToBack(s, k) = Append(t, k)
  BY DEF ToSet, MoveToBack
<1> HIDE DEF n
<1>2. /\ t \in Seq(Keys) /\ Len(s) \in Nat
      /\ DOMAIN t = 1 .. Len(s) - 1 /\ DOMAIN s = 1 .. Len(s)
      /\ \A i \in DOMAIN t : t[i] = s[old(i)]
  BY <1>1, WithoutOne
<1> HIDE DEF t
<1>3. \A i \in DOMAIN t : old(i) \in DOMAIN s /\ old(i) # n
  BY <1>1, <1>2
<1>4. \A i, j \in DOMAIN t : i < j => old(i) < old(j)
  BY <1>1, <1>2
<1>5. \A i, j \in DOMAIN s : i < j => LastTime(o, s[i]) < LastTime(o, s[j])
  BY DEF Ordered
<1>6. \A i \in DOMAIN s : LastTime(o, s[i]) \in Nat
  <2> TAKE i \in DOMAIN s
  <2>1. PICK l \in Keys : l = s[i] /\ Times(o, l) # {}
    BY DEF Ordered, ToSet
  <2>2. LastTime(o, l) \in Times(o, l)
    BY <2>1, LastTimeIs
  <2>3. Times(o, l) \subseteq Nat
    BY DEF Times
  <2> QED BY <2>1, <2>2, <2>3
<1>7. \A i \in DOMAIN s : i # n => s[i] # k
  <2> SUFFICES ASSUME NEW i \in DOMAIN s, i # n PROVE s[i] # k
    OBVIOUS
  <2>1. i < n \/ n < i
    BY <1>1, <1>2
  <2>2. LastTime(o, s[i]) # LastTime(o, s[n])
    BY <1>1, <1>5, <1>6, <2>1
  <2> QED BY <1>1, <2>2
<1>8. ToSet(t) = ToSet(s) \ {k}
  <2>1. \A i \in DOMAIN t : t[i] \in ToSet(s) \ {k}
    BY <1>2, <1>3, <1>7 DEF ToSet
  <2>2. \A i \in DOMAIN s : s[i] # k => \E j \in DOMAIN t : t[j] = s[i]
    <3> SUFFICES ASSUME NEW i \in DOMAIN s, s[i] # k PROVE \E j \in DOMAIN t : t[j] = s[i]
      OBVIOUS
    <3>1. CASE i < n
      <4>1. i \in DOMAIN t /\ old(i) = i
        BY <1>1, <1>2, <3>1
      <4> QED BY <1>2, <4>1
    <3>2. CASE n < i
      <4>1. i - 1 \in DOMAIN t /\ old(i - 1) = i
        BY <1>1, <1>2, <3>2
      <4> QED BY <1>2, <4>1
    <3>3. i # n
      BY <1>1
    <3> QED BY <1>1, <1>2, <3>1, <3>2, <3>3
  <2> QED BY <2>1, <2>2 DEF ToSet
<1>9. \A i, j \in DOMAIN t : i < j => LastTime(o, t[i]) < LastTime(o, t[j])
  BY <1>2, <1>3, <1>4, <1>5
<1>10. ToSet(t) = {l \in Keys : Times(o, l) # {}} \ {k}
  BY <1>8 DEF Ordered
<1>11. Ordered(Append(t, k), o)'
  BY <1>2, <1>9, <1>10, LastGoesLast
<1>12. Append(t, k) \in Seq(Keys)
  BY <1>2
<1> QED BY <1>1, <1>11, <1>12

\* The other groups stay in order.
LEMMA OthersOrdered ==
  ASSUME records \in Seq(Ops \X Keys), NEW o \in Ops, NEW k \in Keys,
         records' = Append(records, <<o, k>>),
         NEW p \in Ops, p # o, NEW s \in Seq(Keys), Ordered(s, p)
  PROVE  Ordered(s, p)'
<1>1. \A l \in Keys : Times(p, l)' = Times(p, l) /\ LastTime(p, l)' = LastTime(p, l)
  BY RecordTimes
<1>2. \A i \in DOMAIN s : s[i] \in Keys
  OBVIOUS
<1> QED BY <1>1, <1>2 DEF Ordered

\* Add keeps every group in order.
LEMMA AddOrdered ==
  ASSUME DedupInv, NEW o \in Ops, NEW k \in Keys, groups' = Add(o, k),
         records' = Append(records, <<o, k>>)
  PROVE  groups' \in [Ops -> Seq(Keys)] /\ MostRecentLast'
<1>1. PICK s \in Seq(Keys) : s = groups[o]
  BY DEF DedupInv
<1>2. records \in Seq(Ops \X Keys) /\ Ordered(s, o)
  BY <1>1 DEF DedupInv, MostRecentLast
<1>3. <<o, k>> \in pos <=> Times(o, k) # {}
  BY DEF DedupInv, Times
<1>4. k \in ToSet(s) <=> Times(o, k) # {}
  BY <1>2 DEF Ordered
<1>5. PICK g \in Seq(Keys) : groups' = [groups EXCEPT ![o] = g] /\ Ordered(g, o)'
  <2>1. CASE <<o, k>> \in pos
    <3>1. MoveToBack(s, k) \in Seq(Keys) /\ Ordered(MoveToBack(s, k), o)'
      BY <1>2, <1>3, <1>4, <2>1, MovedOrdered
    <3> QED BY <1>1, <2>1, <3>1 DEF Add
  <2>2. CASE <<o, k>> \notin pos
    <3>1. ToSet(s) = {l \in Keys : Times(o, l) # {}} \ {k}
      BY <1>2, <1>3, <1>4, <2>2 DEF Ordered
    <3>2. \A i, j \in DOMAIN s : i < j => LastTime(o, s[i]) < LastTime(o, s[j])
      BY <1>2 DEF Ordered
    <3>3. Ordered(Append(s, k), o)'
      BY <1>2, <3>1, <3>2, LastGoesLast
    <3>4. Append(s, k) \in Seq(Keys)
      OBVIOUS
    <3> QED BY <1>1, <2>2, <3>3, <3>4 DEF Add
  <2> QED BY <2>1, <2>2
<1>6. groups \in [Ops -> Seq(Keys)]
  BY DEF DedupInv
<1>7. groups' \in [Ops -> Seq(Keys)]
  BY <1>5, <1>6
<1>8. ASSUME NEW p \in Ops PROVE Ordered(groups[p], p)'
  <2>1. CASE p = o
    BY <1>5, <1>6, <2>1
  <2>2. CASE p # o
    <3>1. PICK u \in Seq(Keys) : u = groups[p] /\ u = groups'[p]
      BY <1>5, <1>6, <2>2
    <3>2. Ordered(u, p)
      BY <3>1 DEF DedupInv, MostRecentLast
    <3>3. Ordered(u, p)'
      BY <1>2, <2>2, <3>2, OthersOrdered
    <3> QED BY <3>1, <3>3
  <2> QED BY <2>1, <2>2
<1> QED BY <1>7, <1>8 DEF MostRecentLast

-----------------------------------------------------------------------------
(***************************************************************************)
(* The invariant.                                                          *)
(***************************************************************************)
\* Without a record every group is empty.
LEMMA NothingOrdered ==
  ASSUME groups = Empty, records = <<>>
  PROVE  groups \in [Ops -> Seq(Keys)] /\ MostRecentLast
<1>1. \A op \in Ops, k \in Keys : Times(op, k) = {}
  BY DEF Times
<1>2. <<>> \in Seq(Keys) /\ ToSet(<<>>) = {} /\ DOMAIN <<>> = {}
  BY DEF ToSet
<1> QED BY <1>1, <1>2 DEF MostRecentLast, Ordered, Empty

LEMMA DedupStarts == DedupInit => DedupInv
<1> SUFFICES ASSUME DedupInit PROVE DedupInv
  OBVIOUS
<1>1. groups \in [Ops -> Seq(Keys)] /\ MostRecentLast
  BY NothingOrdered DEF DedupInit
<1>2. <<>> \in Seq(Ops \X Keys) /\ Len(<<>>) = 0 /\ MaxRecords \in Nat
  BY BoundAssumption
<1>3. pos = {x \in Ops \X Keys : \E i \in DOMAIN records : records[i] = x}
  BY DEF DedupInit
<1>4. FileCurrent
  BY DEF DedupInit, FileCurrent
<1>5. records \in Seq(Ops \X Keys) /\ Len(records) <= MaxRecords /\ written \in BOOLEAN
  <2>1. records = <<>> /\ written = FALSE
    BY DEF DedupInit
  <2>2. Len(records) = 0
    BY <2>1
  <2>3. records \in Seq(Ops \X Keys) /\ Len(records) <= MaxRecords
    BY <1>2, <2>1, <2>2
  <2> QED BY <2>1, <2>3
<1> QED BY <1>1, <1>3, <1>4, <1>5 DEF DedupInit, DedupInv

\* A new process keeps nothing but the file.
LEMMA NewDedup ==
  ASSUME DedupInv, NewStats, UNCHANGED file
  PROVE  DedupInv'
<1>1. (groups \in [Ops -> Seq(Keys)])' /\ MostRecentLast'
  <2>1. groups' = Empty' /\ records' = <<>>
    BY DEF NewStats, Empty
  <2>2. \A op \in Ops, k \in Keys : Times(op, k)' = {}
    BY <2>1 DEF Times
  <2>3. <<>> \in Seq(Keys) /\ ToSet(<<>>) = {} /\ DOMAIN <<>> = {}
    BY DEF ToSet
  <2> QED BY <2>1, <2>2, <2>3 DEF MostRecentLast, Ordered, Empty
<1>2. <<>> \in Seq(Ops \X Keys) /\ Len(<<>>) = 0 /\ MaxRecords \in Nat
  BY BoundAssumption
<1>3. pos' = {x \in Ops \X Keys : \E i \in DOMAIN records' : records'[i] = x}
  BY DEF NewStats
<1>4. FileCurrent'
  BY DEF NewStats, FileCurrent
<1>5. records' \in Seq(Ops \X Keys) /\ Len(records') <= MaxRecords /\ written' \in BOOLEAN
  <2>1. records' = <<>> /\ written' = FALSE
    BY DEF NewStats
  <2>2. Len(records') = 0
    BY <2>1
  <2>3. records' \in Seq(Ops \X Keys) /\ Len(records') <= MaxRecords
    BY <1>2, <2>1, <2>2
  <2> QED BY <2>1, <2>3
<1>6. file' \in [Ops -> Seq(Keys)] \cup {NoFile}
  BY DEF DedupInv
<1> QED BY <1>1, <1>3, <1>4, <1>5, <1>6 DEF DedupInv

\* A record that is printed, and whatever comes of the write.
LEMMA PrintDedup ==
  ASSUME DedupInv, NEW o \in Ops, NEW k \in Keys, printRecord(o, k)
  PROVE  DedupInv'
<1> DEFINE g == Add(o, k)
<1>1. /\ Len(records) < MaxRecords /\ groups' = g /\ pos' = pos \cup {<<o, k>>}
      /\ records' = Append(records, <<o, k>>)
      /\ \/ file' = Format(g) /\ written' = TRUE
         \/ file' \in PartsOf(Format(g)) \cup {file} /\ written' = FALSE
  BY DEF printRecord, Writes
<1>2. groups' \in [Ops -> Seq(Keys)] /\ MostRecentLast'
  BY <1>1, AddOrdered
<1>3. /\ records' \in Seq(Ops \X Keys) /\ Len(records') <= MaxRecords
      /\ pos' = {x \in Ops \X Keys : \E i \in DOMAIN records' : records'[i] = x}
  <2> DEFINE n == Len(records) + 1
  <2>1. <<o, k>> \in Ops \X Keys /\ records \in Seq(Ops \X Keys) /\ MaxRecords \in Nat
    BY BoundAssumption DEF DedupInv
  <2>2. /\ records' \in Seq(Ops \X Keys) /\ Len(records') = n /\ Len(records) \in Nat
        /\ DOMAIN records' = DOMAIN records \cup {n} /\ records'[n] = <<o, k>>
        /\ \A i \in DOMAIN records : records'[i] = records[i]
    BY <1>1, <2>1, PutLast
  <2>3. pos = {x \in Ops \X Keys : \E i \in DOMAIN records : records[i] = x}
    BY DEF DedupInv
  <2> HIDE DEF n
  <2>4. pos' = {x \in Ops \X Keys : \E i \in DOMAIN records' : records'[i] = x}
    BY <1>1, <2>1, <2>2, <2>3
  <2> QED BY <1>1, <2>1, <2>2, <2>4 DEF n
<1> HIDE DEF g
<1>4. Format(g) \in [Ops -> Seq(Keys)] /\ \A op \in Ops \cap FormattedOps : Format(g)[op] = groups'[op]
  BY <1>1, <1>2 DEF Format
<1>5. \A f \in [Ops -> Seq(Keys)] : PartsOf(f) \subseteq [Ops -> Seq(Keys)]
  <2>1. <<>> \in Seq(Keys)
    OBVIOUS
  <2> QED BY <2>1 DEF PartsOf
<1>6. file' \in [Ops -> Seq(Keys)] \cup {NoFile} /\ written' \in BOOLEAN
  BY <1>1, <1>4, <1>5 DEF DedupInv
<1>7. FileCurrent'
  <2> SUFFICES ASSUME written', NEW op \in Ops \cap FormattedOps PROVE Ordered(file[op], op)'
    BY DEF FileCurrent
  <2>1. file' = Format(g)
    BY <1>1
  <2>2. PICK s : s = file'[op] /\ s = groups'[op]
    BY <1>4, <2>1
  <2>3. Ordered(s, op)'
    BY <1>2, <2>2 DEF MostRecentLast
  <2> QED BY <2>2, <2>3
<1> QED BY <1>2, <1>3, <1>6, <1>7 DEF DedupInv

LEMMA DedupKept ==
  ASSUME DedupInv, UNCHANGED dedupVars
  PROVE  DedupInv'
<1>1. UNCHANGED <<groups, pos, file, records, written>>
  BY DEF dedupVars, memory
<1>2. \A op, k : Times(op, k)' = Times(op, k)
  BY <1>1 DEF Times
<1>3. \A op, k : LastTime(op, k)' = LastTime(op, k)
  BY <1>2 DEF LastTime
<1>4. \A g, op : Ordered(g, op)' <=> Ordered(g, op)
  BY <1>2, <1>3 DEF Ordered
<1> QED BY <1>1, <1>4 DEF DedupInv, MostRecentLast, FileCurrent

\* A group is as long as there are keys of it, since each is in it once.
LEMMA DedupTyped == DedupInv => DedupTypeOK
<1> SUFFICES ASSUME DedupInv, NEW op \in Ops
             PROVE  Len(groups[op]) = Cardinality({k \in Keys : <<op, k>> \in pos})
  BY DEF DedupInv, DedupTypeOK
<1> DEFINE s == groups[op]
           row == {k \in Keys : <<op, k>> \in pos}
<1>1. s \in Seq(Keys) /\ Ordered(s, op)
  BY DEF DedupInv, MostRecentLast
<1>2. ToSet(s) = row
  BY <1>1 DEF DedupInv, Ordered, Times
<1>3. \A i \in DOMAIN s : LastTime(op, s[i]) \in Nat
  <2> TAKE i \in DOMAIN s
  <2>1. PICK l \in Keys : l = s[i] /\ Times(op, l) # {}
    BY <1>1 DEF Ordered, ToSet
  <2>2. LastTime(op, l) \in Times(op, l)
    BY <2>1, LastTimeIs DEF DedupInv
  <2>3. Times(op, l) \subseteq Nat
    BY DEF DedupInv, Times
  <2> QED BY <2>1, <2>2, <2>3
<1> HIDE DEF s, row
<1>4. Len(s) \in Nat /\ DOMAIN s = 1 .. Len(s)
  BY <1>1
<1>5. \A i, j \in DOMAIN s : i # j => s[i] # s[j]
  <2> SUFFICES ASSUME NEW i \in DOMAIN s, NEW j \in DOMAIN s, i # j PROVE s[i] # s[j]
    OBVIOUS
  <2>1. i < j \/ j < i
    BY <1>4
  <2>2. LastTime(op, s[i]) # LastTime(op, s[j])
    BY <1>1, <1>3, <2>1 DEF Ordered
  <2> QED BY <2>2
<1>6. s \in Bijection(1 .. Len(s), row)
  <2>1. s \in [1 .. Len(s) -> row]
    BY <1>1, <1>2, <1>4 DEF ToSet
  <2>2. \A k \in row : \E i \in 1 .. Len(s) : s[i] = k
    BY <1>2, <1>4 DEF ToSet
  <2> QED BY <1>4, <1>5, <2>1, <2>2 DEF Bijection, Injection, IsInjective, Surjection
<1>7. Cardinality(row) = Len(s)
  BY <1>4, <1>6, FS_CountingElements DEF ExistsBijection
<1> QED BY <1>7 DEF s, row
=============================================================================
