--------------------------- MODULE SequenceLemmas ---------------------------
(***************************************************************************)
(* Facts about sequences that the proofs about the pollers rest on.        *)
(***************************************************************************)
EXTENDS Integers, Sequences, SequencesExt, SequenceTheorems, WellFoundedInduction, TLAPS

\* The head and the rest of a sequence.
LEMMA TakeHead ==
  ASSUME NEW S, NEW s \in Seq(S), s # <<>>
  PROVE  /\ Head(s) \in S /\ Tail(s) \in Seq(S) /\ Len(Tail(s)) = Len(s) - 1 /\ Len(s) \in Nat
         /\ \A n \in DOMAIN Tail(s) : n + 1 \in DOMAIN s /\ Tail(s)[n] = s[n + 1]
OBVIOUS

\* A sequence with one element more.
LEMMA PutLast ==
  ASSUME NEW S, NEW s \in Seq(S), NEW x \in S
  PROVE  /\ Append(s, x) \in Seq(S) /\ Len(Append(s, x)) = Len(s) + 1 /\ Len(s) \in Nat
         /\ DOMAIN Append(s, x) = DOMAIN s \cup {Len(s) + 1}
         /\ \A n \in DOMAIN s : Append(s, x)[n] = s[n]
         /\ Append(s, x)[Len(s) + 1] = x
OBVIOUS

\* What is in it was there or is the new one.
LEMMA OldOrNew ==
  ASSUME NEW S, NEW s \in Seq(S), NEW x \in S, NEW n \in DOMAIN Append(s, x)
  PROVE  Append(s, x)[n] = x \/ (n \in DOMAIN s /\ Append(s, x)[n] = s[n])
OBVIOUS

\* The least-number principle for a set.
LEMMA Least ==
  ASSUME NEW T, T \subseteq Nat, T # {}
  PROVE  \E n \in T : \A m \in T : n <= m
<1>1. \E n \in T : \A m \in T : ~(<<m, n>> \in OpToRel(<, Nat))
  BY NatLessThanWellFounded, WFMin
<1>2. PICK n \in T : \A m \in T : ~(<<m, n>> \in OpToRel(<, Nat))
  BY <1>1
<1>3. \A m \in T : ~(m < n)
  BY <1>2 DEF OpToRel
<1> QED BY <1>3

\* The function that FlattenSeq chooses, up to n.
Flattens(g, seqs, n) ==
  g = [i \in 1 .. n |-> IF i = 1 THEN seqs[i] ELSE g[i - 1] \o seqs[i]]

\* There is such a function for every n.
LEMMA FlattenExists ==
  ASSUME NEW seqs, NEW n \in Nat
  PROVE  \E g : Flattens(g, seqs, n)
<1> DEFINE T == {m \in Nat : ~ \E g : Flattens(g, seqs, m)}
<1> SUFFICES T = {}
  OBVIOUS
<1> SUFFICES ASSUME T # {} PROVE FALSE
  OBVIOUS
<1>1. PICK m \in T : \A k \in T : m <= k
  BY Least
<1> HIDE DEF T
<1>2. m \in Nat /\ ~ \E g : Flattens(g, seqs, m)
  BY DEF T
<1>3. m # 0
  <2>1. Flattens([i \in 1 .. 0 |-> 0], seqs, 0)
    BY DEF Flattens
  <2> QED BY <2>1, <1>2
<1>4. m - 1 \in Nat /\ m - 1 \notin T
  BY <1>1, <1>2, <1>3
<1>5. PICK g : Flattens(g, seqs, m - 1)
  BY <1>4 DEF T
<1> DEFINE h == [i \in 1 .. m |-> IF i = 1 THEN seqs[i] ELSE g[i - 1] \o seqs[i]]
<1>6. \A i \in 1 .. m - 1 : h[i] = g[i]
  <2> TAKE i \in 1 .. m - 1
  <2>1. i \in 1 .. m
    BY <1>2
  <2>2. g[i] = IF i = 1 THEN seqs[i] ELSE g[i - 1] \o seqs[i]
    BY <1>5 DEF Flattens
  <2> QED BY <2>1, <2>2
<1>7. Flattens(h, seqs, m)
  <2>1. \A i \in 1 .. m : h[i] = IF i = 1 THEN seqs[i] ELSE h[i - 1] \o seqs[i]
    <3> TAKE i \in 1 .. m
    <3>1. CASE i = 1
      BY <3>1
    <3>2. CASE i # 1
      <4>1. i - 1 \in 1 .. m - 1
        BY <3>2, <1>2
      <4>2. h[i - 1] = g[i - 1]
        BY <4>1, <1>6
      <4>3. h[i] = g[i - 1] \o seqs[i]
        BY <3>2
      <4> QED BY <3>2, <4>2, <4>3
    <3> QED BY <3>1, <3>2
  <2>2. h = [i \in 1 .. m |-> h[i]]
    OBVIOUS
  <2> HIDE DEF h
  <2> QED BY <2>1, <2>2 DEF Flattens
<1> QED BY <1>2, <1>7

\* The sequences up to each, put one after the other.
LEMMA FlattenSteps ==
  ASSUME NEW S, NEW seqs \in Seq(Seq(S)), Len(seqs) # 0
  PROVE  \E f : /\ \A i \in 1 .. Len(seqs) : f[i] \in Seq(S)
                /\ f[1] = seqs[1] /\ f[Len(seqs)] = FlattenSeq(seqs)
                /\ \A i \in 2 .. Len(seqs) : f[i] = f[i - 1] \o seqs[i]
<1> DEFINE n == Len(seqs)
           f == CHOOSE g : Flattens(g, seqs, n)
           T == {m \in 1 .. n : f[m] \notin Seq(S)}
<1>1. n \in Nat /\ n # 0 /\ \A i \in 1 .. n : seqs[i] \in Seq(S)
  OBVIOUS
<1>2. FlattenSeq(seqs) = f[n]
  BY DEF FlattenSeq, Flattens
<1>3. Flattens(f, seqs, n)
  BY <1>1, FlattenExists
<1> HIDE DEF f, n
<1>4. \A i \in 1 .. n : f[i] = IF i = 1 THEN seqs[i] ELSE f[i - 1] \o seqs[i]
  BY <1>3 DEF Flattens
<1>5. T = {}
  <2> SUFFICES ASSUME T # {} PROVE FALSE
    OBVIOUS
  <2>0. T \subseteq Nat
    BY <1>1
  <2>1. PICK m \in T : \A k \in T : m <= k
    BY <2>0, Least
  <2>2. m \in 1 .. n /\ f[m] \notin Seq(S)
    OBVIOUS
  <2>3. m # 1
    BY <1>1, <1>4, <2>2
  <2>4. m - 1 \in 1 .. n /\ f[m - 1] \in Seq(S)
    BY <1>1, <2>1, <2>2, <2>3
  <2>5. f[m] = f[m - 1] \o seqs[m] /\ seqs[m] \in Seq(S)
    BY <1>1, <1>4, <2>2, <2>3
  <2> QED BY <2>2, <2>4, <2>5
<1>6. f[1] = seqs[1] /\ \A i \in 2 .. n : f[i] = f[i - 1] \o seqs[i]
  <2>1. 1 \in 1 .. n /\ \A i \in 2 .. n : i \in 1 .. n /\ i # 1
    BY <1>1
  <2> QED BY <1>4, <2>1
<1>7. \A i \in 1 .. n : f[i] \in Seq(S)
  BY <1>5
<1> QED BY <1>2, <1>6, <1>7 DEF n

\* Sequences put one after the other are a sequence.
LEMMA FlattenSeqType ==
  ASSUME NEW S, NEW seqs \in Seq(Seq(S))
  PROVE  FlattenSeq(seqs) \in Seq(S)
<1>1. CASE Len(seqs) = 0
  BY <1>1 DEF FlattenSeq
<1>2. CASE Len(seqs) # 0
  <2>1. Len(seqs) \in 1 .. Len(seqs)
    BY <1>2
  <2> QED BY <1>2, <2>1, FlattenSteps
<1> QED BY <1>1, <1>2

-----------------------------------------------------------------------------
(***************************************************************************)
(* A relation of values through events, and where a sequence of events     *)
(* leads.                                                                  *)
(***************************************************************************)
\* The events of s lead from v to w: R tells what each of them leads to.
Trail(R, s, v, w) ==
  \E g : /\ g[0] = v /\ g[Len(s)] = w
         /\ \A n \in 1 .. Len(s) : <<g[n - 1], s[n], g[n]>> \in R

\* No event leads nowhere.
LEMMA TrailEmpty ==
  ASSUME NEW R, NEW v, NEW w
  PROVE  Trail(R, <<>>, v, w) <=> v = w
<1>1. Len(<<>>) = 0 /\ 1 .. 0 = {}
  OBVIOUS
<1>2. Trail(R, <<>>, v, w) => v = w
  BY <1>1 DEF Trail
<1>3. ASSUME v = w PROVE Trail(R, <<>>, v, w)
  <2>1. [n \in {0} |-> v][0] = v
    OBVIOUS
  <2> QED BY <1>1, <1>3, <2>1 DEF Trail
<1> QED BY <1>2, <1>3

\* One event leads as far as R says.
LEMMA TrailOne ==
  ASSUME NEW R, NEW e, NEW v, NEW w, <<v, e, w>> \in R
  PROVE  Trail(R, <<e>>, v, w)
<1> DEFINE g == [n \in {0, 1} |-> IF n = 0 THEN v ELSE w]
<1>1. g[0] = v /\ g[1] = w
  OBVIOUS
<1> HIDE DEF g
<1>2. Len(<<e>>) = 1 /\ <<e>>[1] = e /\ \A n \in 1 .. 1 : n = 1 /\ n - 1 = 0
  OBVIOUS
<1> QED BY <1>1, <1>2 DEF Trail

\* Events that lead from v to v.
LEMMA TrailStays ==
  ASSUME NEW S, NEW R, NEW s \in Seq(S), NEW v, \A n \in DOMAIN s : <<v, s[n], v>> \in R
  PROVE  Trail(R, s, v, v)
<1> DEFINE k == Len(s)
           g == [n \in 0 .. k |-> v]
<1>1. k \in Nat /\ DOMAIN s = 1 .. k
  OBVIOUS
<1>2. g[0] = v /\ g[k] = v /\ \A n \in 1 .. k : g[n - 1] = v /\ g[n] = v
  BY <1>1
<1> HIDE DEF g
<1> QED BY <1>1, <1>2 DEF Trail

\* An event leads on from where those before it led.
LEMMA TrailAppend ==
  ASSUME NEW S, NEW R, NEW s \in Seq(S), NEW e \in S, NEW v, NEW u, NEW w,
         Trail(R, s, v, u), <<u, e, w>> \in R
  PROVE  Trail(R, Append(s, e), v, w)
<1>1. PICK g : /\ g[0] = v /\ g[Len(s)] = u
               /\ \A n \in 1 .. Len(s) : <<g[n - 1], s[n], g[n]>> \in R
  BY DEF Trail
<1> DEFINE k == Len(s)
           t == Append(s, e)
           h == [n \in 0 .. k + 1 |-> IF n <= k THEN g[n] ELSE w]
<1>2. k \in Nat /\ Len(t) = k + 1 /\ t[k + 1] = e /\ \A n \in 1 .. k : t[n] = s[n]
  OBVIOUS
<1>3. h[k + 1] = w /\ \A n \in 0 .. k : h[n] = g[n]
  BY <1>2
<1> HIDE DEF h, t, k
<1>4. \A n \in 1 .. k + 1 : <<h[n - 1], t[n], h[n]>> \in R
  <2> TAKE n \in 1 .. k + 1
  <2>1. CASE n = k + 1
    <3>1. n - 1 = k /\ k \in 0 .. k
      BY <1>2, <2>1
    <3>2. h[n - 1] = u /\ t[n] = e /\ h[n] = w
      BY <1>1, <1>2, <1>3, <2>1, <3>1 DEF k
    <3> QED BY <3>2
  <2>2. CASE n # k + 1
    <3>1. n \in 1 .. k /\ n - 1 \in 0 .. k /\ n \in 0 .. k
      BY <1>2, <2>2
    <3> QED BY <1>1, <1>2, <1>3, <3>1 DEF k
  <2> QED BY <2>1, <2>2
<1>5. h[0] = v
  BY <1>1, <1>2, <1>3
<1>6. Trail(R, t, v, w)
  BY <1>2, <1>3, <1>4, <1>5 DEF Trail
<1> QED BY <1>6 DEF t

\* The first event leads to where the others begin.
LEMMA TrailHead ==
  ASSUME NEW S, NEW R, NEW s \in Seq(S), s # <<>>, NEW v, NEW w, Trail(R, s, v, w)
  PROVE  \E u : <<v, Head(s), u>> \in R /\ Trail(R, Tail(s), u, w)
<1>1. PICK g : /\ g[0] = v /\ g[Len(s)] = w
               /\ \A n \in 1 .. Len(s) : <<g[n - 1], s[n], g[n]>> \in R
  BY DEF Trail
<1> DEFINE k == Len(s)
           t == Tail(s)
           h == [n \in 0 .. k - 1 |-> g[n + 1]]
<1>2. k \in Nat /\ k # 0 /\ Len(t) = k - 1 /\ Head(s) = s[1] /\ \A n \in 1 .. k - 1 : t[n] = s[n + 1]
  OBVIOUS
<1>3. \A n \in 0 .. k - 1 : h[n] = g[n + 1]
  OBVIOUS
<1> HIDE DEF h, t, k
<1>4. \A n \in 1 .. k - 1 : <<h[n - 1], t[n], h[n]>> \in R
  <2> TAKE n \in 1 .. k - 1
  <2>1. n + 1 \in 1 .. k /\ n - 1 \in 0 .. k - 1 /\ n \in 0 .. k - 1 /\ n - 1 + 1 = n /\ n + 1 - 1 = n
    BY <1>2
  <2>2. h[n - 1] = g[n] /\ h[n] = g[n + 1] /\ t[n] = s[n + 1]
    BY <1>2, <1>3, <2>1
  <2>3. <<g[n + 1 - 1], s[n + 1], g[n + 1]>> \in R
    BY <1>1, <2>1 DEF k
  <2> QED BY <2>1, <2>2, <2>3
<1>5. h[0] = g[1] /\ h[k - 1] = w
  <2>1. 0 \in 0 .. k - 1 /\ k - 1 \in 0 .. k - 1 /\ k - 1 + 1 = k
    BY <1>2
  <2>2. h[0] = g[0 + 1] /\ h[k - 1] = g[k - 1 + 1]
    BY <1>3, <2>1
  <2> QED BY <1>1, <2>1, <2>2 DEF k
<1>6. Trail(R, t, g[1], w)
  BY <1>2, <1>4, <1>5 DEF Trail
<1>7. <<v, Head(s), g[1]>> \in R
  <2>1. 1 \in 1 .. k /\ 1 - 1 = 0
    BY <1>2
  <2> QED BY <1>1, <1>2, <2>1 DEF k
<1> QED BY <1>6, <1>7 DEF t

\* The head of one sequence may go to the end of the one before.
LEMMA TrailMove ==
  ASSUME NEW S, NEW R, NEW s \in Seq(S), NEW t \in Seq(S), t # <<>>, NEW v, NEW u, NEW w,
         Trail(R, s, v, u), Trail(R, t, u, w)
  PROVE  \E x : Trail(R, Append(s, Head(t)), v, x) /\ Trail(R, Tail(t), x, w)
<1>1. PICK x : <<u, Head(t), x>> \in R /\ Trail(R, Tail(t), x, w)
  BY TrailHead
<1>2. Head(t) \in S
  BY TakeHead
<1>3. Trail(R, Append(s, Head(t)), v, x)
  BY <1>1, <1>2, TrailAppend
<1> QED BY <1>1, <1>3

\* One sequence after the other leads as far as both.
LEMMA TrailConcat ==
  ASSUME NEW S, NEW R, NEW s \in Seq(S), NEW t \in Seq(S), NEW v, NEW u, NEW w,
         Trail(R, s, v, u), Trail(R, t, u, w)
  PROVE  Trail(R, s \o t, v, w)
<1>1. PICK g : /\ g[0] = v /\ g[Len(s)] = u
               /\ \A n \in 1 .. Len(s) : <<g[n - 1], s[n], g[n]>> \in R
  BY DEF Trail
<1>2. PICK f : /\ f[0] = u /\ f[Len(t)] = w
               /\ \A n \in 1 .. Len(t) : <<f[n - 1], t[n], f[n]>> \in R
  BY DEF Trail
<1> DEFINE k == Len(s)
           l == Len(t)
           b == s \o t
           h == [n \in 0 .. k + l |-> IF n <= k THEN g[n] ELSE f[n - k]]
<1>3. /\ k \in Nat /\ l \in Nat /\ Len(b) = k + l
      /\ \A n \in 1 .. k : b[n] = s[n]
      /\ \A n \in k + 1 .. k + l : b[n] = t[n - k]
  OBVIOUS
<1>4. /\ \A n \in 0 .. k : h[n] = g[n]
      /\ \A n \in k + 1 .. k + l : h[n] = f[n - k]
  BY <1>3
<1> HIDE DEF h, b
<1>5. \A n \in k .. k + l : h[n] = f[n - k]
  <2> TAKE n \in k .. k + l
  <2>1. CASE n = k
    <3>1. n \in 0 .. k /\ n - k = 0
      BY <1>3, <2>1
    <3> QED BY <1>1, <1>2, <1>4, <2>1, <3>1
  <2>2. CASE n # k
    BY <1>3, <1>4, <2>2
  <2> QED BY <2>1, <2>2
<1> HIDE DEF k, l
<1>6. \A n \in 1 .. k + l : <<h[n - 1], b[n], h[n]>> \in R
  <2> TAKE n \in 1 .. k + l
  <2>1. CASE n <= k
    <3>1. n \in 1 .. k /\ n - 1 \in 0 .. k /\ n \in 0 .. k
      BY <1>3, <2>1
    <3> QED BY <1>1, <1>3, <1>4, <3>1 DEF k
  <2>2. CASE ~(n <= k)
    <3>1. n - k \in 1 .. l /\ n - 1 \in k .. k + l /\ n \in k .. k + l /\ n \in k + 1 .. k + l
      BY <1>3, <2>2
    <3>2. h[n - 1] = f[n - 1 - k] /\ h[n] = f[n - k] /\ b[n] = t[n - k] /\ n - 1 - k = n - k - 1
      BY <1>3, <1>5, <3>1
    <3>3. <<f[n - k - 1], t[n - k], f[n - k]>> \in R
      BY <1>2, <3>1 DEF l
    <3> QED BY <3>2, <3>3
  <2> QED BY <2>1, <2>2
<1>7. h[0] = v /\ h[k + l] = w
  <2>1. 0 \in 0 .. k /\ k + l \in k .. k + l /\ k + l - k = l
    BY <1>3
  <2>2. h[0] = g[0]
    BY <1>4, <2>1
  <2>3. PICK z \in k .. k + l : z = k + l /\ z - k = l
    BY <1>3, <2>1
  <2>4. h[k + l] = f[l]
    BY <1>5, <2>3
  <2> QED BY <1>1, <1>2, <2>2, <2>4 DEF l
<1>8. Trail(R, b, v, w)
  BY <1>3, <1>6, <1>7 DEF Trail
<1> QED BY <1>8 DEF b
\* Sequences put one after the other lead as far as all of them.
LEMMA TrailFlatten ==
  ASSUME NEW S, NEW R, NEW seqs \in Seq(Seq(S)), NEW h,
         \A i \in 1 .. Len(seqs) : Trail(R, seqs[i], h[i - 1], h[i])
  PROVE  Trail(R, FlattenSeq(seqs), h[0], h[Len(seqs)])
<1>1. CASE Len(seqs) = 0
  BY <1>1, TrailEmpty DEF FlattenSeq
<1>2. CASE Len(seqs) # 0
  <2> DEFINE n == Len(seqs)
  <2>1. n \in Nat /\ n # 0 /\ \A i \in 1 .. n : seqs[i] \in Seq(S)
    BY <1>2
  <2>2. PICK f : /\ \A i \in 1 .. n : f[i] \in Seq(S)
                 /\ f[1] = seqs[1] /\ f[n] = FlattenSeq(seqs)
                 /\ \A i \in 2 .. n : f[i] = f[i - 1] \o seqs[i]
    BY <1>2, FlattenSteps
  <2>3. \A i \in 1 .. n : Trail(R, seqs[i], h[i - 1], h[i])
    OBVIOUS
  <2> HIDE DEF n
  <2> DEFINE T == {m \in 1 .. n : ~Trail(R, f[m], h[0], h[m])}
  <2>4. T = {}
    <3> SUFFICES ASSUME T # {} PROVE FALSE
      OBVIOUS
    <3>0. T \subseteq Nat
      BY <2>1
    <3>1. PICK m \in T : \A k \in T : m <= k
      BY <3>0, Least
    <3>2. m \in 1 .. n /\ ~Trail(R, f[m], h[0], h[m])
      OBVIOUS
    <3>3. m # 1
      <4>1. 1 \in 1 .. n /\ 1 - 1 = 0
        BY <2>1
      <4>2. Trail(R, seqs[1], h[0], h[1])
        BY <2>3, <4>1
      <4> QED BY <2>2, <3>2, <4>2
    <3>4. m - 1 \in 1 .. n /\ m \in 2 .. n /\ ~(m <= m - 1)
      BY <2>1, <3>2, <3>3
    <3>5. Trail(R, f[m - 1], h[0], h[m - 1])
      BY <3>1, <3>4
    <3>6. f[m] = f[m - 1] \o seqs[m] /\ seqs[m] \in Seq(S) /\ f[m - 1] \in Seq(S)
      BY <2>1, <2>2, <3>4
    <3>7. Trail(R, seqs[m], h[m - 1], h[m])
      BY <2>3, <3>2
    <3>8. Trail(R, f[m - 1] \o seqs[m], h[0], h[m])
      BY <3>5, <3>6, <3>7, TrailConcat
    <3> QED BY <3>2, <3>6, <3>8
  <2>5. n \in 1 .. n
    BY <2>1
  <2>6. Trail(R, f[n], h[0], h[n])
    BY <2>4, <2>5
  <2> QED BY <2>2, <2>6 DEF n
<1> QED BY <1>1, <1>2

\* What does not change from step to step does not change.
LEMMA Unchanging ==
  ASSUME NEW g, NEW k \in Nat, NEW m \in 0 .. k, \A n \in m + 1 .. k : g[n] = g[n - 1]
  PROVE  g[k] = g[m]
<1> DEFINE T == {n \in m .. k : g[n] # g[m]}
<1>1. T = {}
  <2> SUFFICES ASSUME T # {} PROVE FALSE
    OBVIOUS
  <2>0. T \subseteq Nat
    OBVIOUS
  <2>1. PICK n \in T : \A i \in T : n <= i
    BY <2>0, Least
  <2>2. n \in m .. k /\ g[n] # g[m] /\ n # m
    OBVIOUS
  <2>3. n \in m + 1 .. k /\ n - 1 \in m .. k /\ ~(n <= n - 1)
    BY <2>2
  <2>4. g[n - 1] = g[m]
    BY <2>1, <2>3
  <2> QED BY <2>2, <2>3, <2>4
<1>2. k \in m .. k
  OBVIOUS
<1> QED BY <1>1, <1>2

\* The greatest number of a set.
LEMMA Greatest ==
  ASSUME NEW k \in Nat, NEW T, T \subseteq 1 .. k, T # {}
  PROVE  Max(T) \in T /\ \A n \in T : n <= Max(T)
<1> DEFINE U == {n \in 0 .. k : k - n \in T}
<1>1. U \subseteq Nat /\ U # {}
  <2>1. PICK n \in T : TRUE
    OBVIOUS
  <2>2. k - n \in 0 .. k /\ k - (k - n) = n
    BY <2>1
  <2>3. k - n \in U
    BY <2>1, <2>2
  <2>4. U \subseteq Nat
    OBVIOUS
  <2> QED BY <2>3, <2>4
<1>2. PICK u \in U : \A n \in U : u <= n
  BY <1>1, Least
<1>3. \A n \in T : k - u >= n
  <2> TAKE n \in T
  <2>1. n \in 1 .. k /\ k - n \in 0 .. k /\ k - (k - n) = n
    OBVIOUS
  <2>2. u <= k - n
    BY <1>2, <2>1
  <2> QED BY <1>2, <2>1, <2>2
<1>4. Max(T) \in T /\ \A n \in T : Max(T) >= n
  BY <1>2, <1>3 DEF Max
<1> QED BY <1>4

\* What is true of the first and of each after the one before is true of the last.
LEMMA Upward ==
  ASSUME NEW k \in Nat, NEW T, 0 \in T, \A i \in 1 .. k : i - 1 \in T => i \in T
  PROVE  k \in T
<1> DEFINE U == {i \in 0 .. k : i \notin T}
<1>1. U = {}
  <2> SUFFICES ASSUME U # {} PROVE FALSE
    OBVIOUS
  <2>0. U \subseteq Nat
    OBVIOUS
  <2>1. PICK n \in U : \A i \in U : n <= i
    BY <2>0, Least
  <2>2. n \in 1 .. k /\ n - 1 \in 0 .. k /\ ~(n <= n - 1)
    OBVIOUS
  <2>3. n - 1 \in T
    BY <2>1, <2>2
  <2> QED BY <2>1, <2>2, <2>3
<1>2. k \in 0 .. k
  OBVIOUS
<1> QED BY <1>1, <1>2
=============================================================================
