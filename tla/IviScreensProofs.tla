--------------------------- MODULE IviScreensProofs ---------------------------
(***************************************************************************)
(* Theorems about IviScreens and IviScreenshots for any clients, outputs,  *)
(* layers, modes, ids and bounds.  They share one inductive invariant,     *)
(* Base: the types, and what the compositor knows of each client.  Upon it *)
(* stand InPlace (where each screenshot is), DirectedAll (which screen a   *)
(* request means) and DescribedAll (what a client knows, or is about to be *)
(* told, of each output), and Listings (which sync and answer each call    *)
(* waits for, and how much of a list of layers has come).                  *)
(* A step is first reduced to what it means to one client (StepCases): it  *)
(* passes the client by, tells it of an output, answers its request, ends  *)
(* its connection, or is the client's own.                                 *)
(***************************************************************************)
EXTENDS IviScreenshots, SequenceTheorems, FiniteSetTheorems, TLAPS

-----------------------------------------------------------------------------
(* Sequences as lists and mailboxes.                                       *)

LEMMA LeastNatural ==
    ASSUME NEW S, S \subseteq Nat, S # {}
    PROVE  \E m \in S : \A k \in S : m <= k
<1>1. IsWellFoundedOn(StrictSubsetOrdering(Nat), FiniteSubsetsOf(Nat))
  BY FS_StrictSubsetOrderingWellFounded
<1> DEFINE T == {0 .. n : n \in S}
<1>2. T \subseteq FiniteSubsetsOf(Nat)
  <2> SUFFICES ASSUME NEW n \in S PROVE 0 .. n \in FiniteSubsetsOf(Nat)
    OBVIOUS
  <2>1. IsFiniteSet(0 .. n)
    BY FS_Interval
  <2>2. 0 .. n \subseteq Nat
    OBVIOUS
  <2> QED BY <2>1, <2>2 DEF FiniteSubsetsOf
<1>3. T # {}
  OBVIOUS
<1>4. PICK U \in T : \A V \in T : <<V, U>> \notin StrictSubsetOrdering(Nat)
  <2> HIDE DEF T
  <2> QED BY <1>1, <1>2, <1>3, WFMin
<1>5. PICK m \in S : U = 0 .. m
  BY <1>4
<1>6. ASSUME NEW k \in S, ~(m <= k) PROVE FALSE
  <2>1. 0 .. k \in T
    OBVIOUS
  <2>2. <<0 .. k, 0 .. m>> \notin StrictSubsetOrdering(Nat)
    BY <1>4, <1>5, <2>1
  <2>3. 0 .. k \subseteq 0 .. m /\ m \in 0 .. m /\ m \notin 0 .. k
    BY <1>6
  <2> QED BY <2>2, <2>3, <1>2, <1>5 DEF StrictSubsetOrdering
<1> QED BY <1>6

UpTo(q, T, n, f) ==
    f = [i \in 0 .. n |-> IF i = 0 THEN <<>>
                          ELSE IF q[i] \in T THEN Append(f[i - 1], q[i]) ELSE f[i - 1]]

LEMMA UpToExists ==
    ASSUME NEW q, NEW T, NEW n \in Nat
    PROVE  \E f : UpTo(q, T, n, f)
<1> DEFINE Bad == {k \in Nat : ~\E f : UpTo(q, T, k, f)}
<1>1. SUFFICES ASSUME Bad # {} PROVE FALSE
  OBVIOUS
<1>2. PICK m \in Bad : \A k \in Bad : m <= k
  BY <1>1, LeastNatural
<1>3. m # 0
  <2>1. UpTo(q, T, 0, [i \in 0 .. 0 |-> <<>>])
    BY DEF UpTo
  <2> QED BY <2>1, <1>2
<1>4. PICK f : UpTo(q, T, m - 1, f)
  BY <1>2, <1>3
<1> DEFINE last == IF q[m] \in T THEN Append(f[m - 1], q[m]) ELSE f[m - 1]
           g == [i \in 0 .. m |-> IF i = m THEN last ELSE f[i]]
<1>5. UpTo(q, T, m, g)
  <2>1. m \in Nat /\ m > 0
    BY <1>2, <1>3
  <2>2. f = [i \in 0 .. m - 1 |-> IF i = 0 THEN <<>>
                          ELSE IF q[i] \in T THEN Append(f[i - 1], q[i]) ELSE f[i - 1]]
    BY <1>4 DEF UpTo
  <2> SUFFICES ASSUME NEW i \in 0 .. m
               PROVE  g[i] = (IF i = 0 THEN <<>>
                              ELSE IF q[i] \in T THEN Append(g[i - 1], q[i]) ELSE g[i - 1])
    BY DEF UpTo
  <2>3. CASE i = m
    <3>1. g[i] = last /\ i # 0 /\ g[i - 1] = f[m - 1]
      BY <2>1, <2>3
    <3> QED BY <3>1, <2>3
  <2>4. CASE i = 0
    BY <2>1, <2>2, <2>4
  <2>5. CASE i # m /\ i # 0
    <3>1. i \in 0 .. m - 1 /\ i - 1 \in 0 .. m - 1 /\ i - 1 # m
      BY <2>1, <2>5
    <3>2. g[i] = f[i] /\ g[i - 1] = f[i - 1]
      BY <3>1, <2>1, <2>5
    <3> HIDE DEF g, last
    <3> QED BY <2>2, <2>5, <3>1, <3>2
  <2> QED BY <2>3, <2>4, <2>5
<1> QED BY <1>2, <1>5

\* Where an element of Only(q, T) comes from.
Embeds(q, T, n, r, h) ==
    /\ h \in [1 .. Len(r) -> 1 .. n]
    /\ \A k \in 1 .. Len(r) : q[h[k]] \in T /\ r[k] = q[h[k]]
    /\ \A j, k \in 1 .. Len(r) : j < k => h[j] < h[k]
    /\ \A i \in 1 .. n : q[i] \in T => \E k \in 1 .. Len(r) : h[k] = i

LEMMA OnlyEmbeds ==
    ASSUME NEW E, NEW q \in Seq(E), NEW T
    PROVE  /\ Only(q, T) \in Seq(E)
           /\ \E h : Embeds(q, T, Len(q), Only(q, T), h)
<1> DEFINE f == CHOOSE f : UpTo(q, T, Len(q), f)
<1>1. Only(q, T) = f[Len(q)]
  BY DEF Only, UpTo
<1>2. UpTo(q, T, Len(q), f)
  <2>1. Len(q) \in Nat
    OBVIOUS
  <2> QED BY <2>1, UpToExists
<1> HIDE DEF f
<1> DEFINE Good(n) == f[n] \in Seq(E) /\ \E h : Embeds(q, T, n, f[n], h)
           Bad == {n \in 0 .. Len(q) : ~Good(n)}
<1>3. Bad = {}
  <2>1. SUFFICES ASSUME Bad # {} PROVE FALSE
    OBVIOUS
  <2>2. PICK m \in Bad : \A k \in Bad : m <= k
    <3>1. Bad \subseteq Nat
      OBVIOUS
    <3> HIDE DEF Bad
    <3> QED BY <2>1, <3>1, LeastNatural
  <2>3. m \in 0 .. Len(q) /\ ~Good(m) /\ Len(q) \in Nat
    BY <2>2
  <2>4. ASSUME m = 0 PROVE FALSE
    <3>1. f[0] = <<>>
      BY <1>2, <2>3 DEF UpTo
    <3>2. Embeds(q, T, 0, <<>>, <<>>)
      BY DEF Embeds
    <3>3. <<>> \in Seq(E)
      OBVIOUS
    <3> QED BY <2>3, <2>4, <3>1, <3>2, <3>3
  <2>5. m - 1 \in 0 .. Len(q) /\ m \in 1 .. Len(q)
    BY <2>3, <2>4
  <2>6. Good(m - 1)
    BY <2>2, <2>5
  <2> DEFINE r == f[m - 1]
  <2>7. r \in Seq(E) /\ \E h : Embeds(q, T, m - 1, r, h)
    BY <2>6
  <2>8. PICK h : Embeds(q, T, m - 1, r, h)
    BY <2>7
  <2>9. f[m] = IF q[m] \in T THEN Append(r, q[m]) ELSE r
    <3>1. m \in 0 .. Len(q) /\ m # 0
      BY <2>3, <2>4
    <3>2. f = [i \in 0 .. Len(q) |-> IF i = 0 THEN <<>>
                          ELSE IF q[i] \in T THEN Append(f[i - 1], q[i]) ELSE f[i - 1]]
      BY <1>2 DEF UpTo
    <3> QED BY <3>1, <3>2
  <2> HIDE DEF r
  <2>10. CASE q[m] \in T
    <3> DEFINE g == [k \in 1 .. Len(r) + 1 |-> IF k = Len(r) + 1 THEN m ELSE h[k]]
               s == Append(r, q[m])
    <3>1. s \in Seq(E) /\ Len(s) = Len(r) + 1 /\ Len(r) \in Nat
      BY <2>5, <2>7
    <3>2. /\ s[Len(r) + 1] = q[m]
          /\ \A k \in 1 .. Len(r) : s[k] = r[k]
      BY <2>5, <2>7
    <3>4. Embeds(q, T, m, s, g)
      <4>1. g \in [1 .. Len(s) -> 1 .. m]
        BY <3>1, <2>5, <2>8 DEF Embeds
      <4>2. ASSUME NEW k \in 1 .. Len(s)
            PROVE  q[g[k]] \in T /\ s[k] = q[g[k]]
        BY <3>1, <3>2, <2>5, <2>8, <2>10 DEF Embeds
      <4>3. ASSUME NEW j \in 1 .. Len(s), NEW k \in 1 .. Len(s), j < k
            PROVE  g[j] < g[k]
        <5>1. j \in 1 .. Len(r) /\ g[j] = h[j] /\ h[j] \in 1 .. m - 1
          BY <4>3, <3>1, <2>8 DEF Embeds
        <5>2. CASE k = Len(r) + 1
          BY <5>1, <5>2, <3>1, <2>5
        <5>3. CASE k # Len(r) + 1
          <6>1. k \in 1 .. Len(r) /\ g[k] = h[k]
            BY <5>3, <3>1
          <6> HIDE DEF g
          <6> QED BY <6>1, <5>1, <4>3, <2>8 DEF Embeds
        <5> QED BY <5>2, <5>3
      <4>4. ASSUME NEW i \in 1 .. m, q[i] \in T
            PROVE  \E k \in 1 .. Len(s) : g[k] = i
        <5>1. CASE i = m
          <6>1. Len(r) + 1 \in 1 .. Len(s) /\ g[Len(r) + 1] = m
            BY <3>1
          <6> QED BY <5>1, <6>1
        <5>2. CASE i # m
          <6>1. i \in 1 .. m - 1
            BY <2>5, <5>2
          <6>2. PICK k \in 1 .. Len(r) : h[k] = i
            BY <4>4, <6>1, <2>8 DEF Embeds
          <6>3. k \in 1 .. Len(s) /\ g[k] = h[k]
            BY <3>1
          <6> QED BY <6>2, <6>3
        <5> QED BY <5>1, <5>2
      <4> HIDE DEF g, s
      <4> QED BY <4>1, <4>2, <4>3, <4>4 DEF Embeds
    <3> QED BY <2>3, <2>9, <2>10, <3>1, <3>4
  <2>11. CASE q[m] \notin T
    <3>1. Embeds(q, T, m, r, h)
      BY <2>5, <2>7, <2>8, <2>11 DEF Embeds
    <3> QED BY <2>3, <2>7, <2>9, <2>11, <3>1
  <2> QED BY <2>10, <2>11
<1>4. Good(Len(q))
  <2>1. Len(q) \in 0 .. Len(q)
    OBVIOUS
  <2> QED BY <1>3, <2>1
<1> QED BY <1>1, <1>4

LEMMA MinIn ==
    ASSUME NEW S, S \subseteq Nat, S # {}
    PROVE  Min(S) \in S /\ \A y \in S : Min(S) <= y
BY LeastNatural DEF Min

Joined(s, t, u) ==
    /\ Len(u) = Len(s) + Len(t) /\ Len(s) \in Nat /\ Len(t) \in Nat
    /\ \A i \in 1 .. Len(s) : i \in 1 .. Len(u) /\ u[i] = s[i]
    /\ \A i \in 1 .. Len(t) : Len(s) + i \in 1 .. Len(u) /\ u[Len(s) + i] = t[i]
    /\ \A i \in 1 .. Len(u) : i \in 1 .. Len(s) \/ \E k \in 1 .. Len(t) : i = Len(s) + k

LEMMA JoinIs ==
    ASSUME NEW E, NEW s \in Seq(E), NEW t \in Seq(E), NEW u, u = s \o t
    PROVE  u \in Seq(E) /\ Joined(s, t, u)
<1>1. u \in Seq(E) /\ Len(u) = Len(s) + Len(t) /\ Len(s) \in Nat /\ Len(t) \in Nat
  OBVIOUS
<1>2. \A i \in 1 .. Len(s) : i \in 1 .. Len(u) /\ u[i] = s[i]
  BY <1>1
<1>3. \A i \in 1 .. Len(t) : Len(s) + i \in 1 .. Len(u) /\ u[Len(s) + i] = t[i]
  BY <1>1
<1>4. ASSUME NEW i \in 1 .. Len(u), i \notin 1 .. Len(s)
      PROVE  \E k \in 1 .. Len(t) : i = Len(s) + k
  <2>1. i - Len(s) \in 1 .. Len(t) /\ i = Len(s) + (i - Len(s))
    BY <1>1, <1>4
  <2> QED BY <2>1
<1> QED BY <1>1, <1>2, <1>3, <1>4 DEF Joined

\* What a sequence consists of.
LEMMA SetOf ==
    ASSUME NEW E, NEW q \in Seq(E)
    PROVE  /\ \A i \in 1 .. Len(q) : q[i] \in ToSet(q)
           /\ \A x \in ToSet(q) : \E i \in 1 .. Len(q) : x = q[i]
           /\ ToSet(q) \subseteq E
<1>1. DOMAIN q = 1 .. Len(q) /\ \A i \in 1 .. Len(q) : q[i] \in E
  OBVIOUS
<1> QED BY <1>1 DEF ToSet

LEMMA SetOfNone == ToSet(<<>>) = {}
BY DEF ToSet

LEMMA SetOfOne ==
    ASSUME NEW e
    PROVE  ToSet(<<e>>) = {e}
<1>1. DOMAIN <<e>> = {1} /\ <<e>>[1] = e
  OBVIOUS
<1> QED BY <1>1 DEF ToSet

LEMMA SetOfTwo ==
    ASSUME NEW d, NEW e
    PROVE  ToSet(<<d, e>>) = {d, e}
<1>1. DOMAIN <<d, e>> = {1, 2} /\ <<d, e>>[1] = d /\ <<d, e>>[2] = e
  OBVIOUS
<1> QED BY <1>1 DEF ToSet

LEMMA TailAt ==
    ASSUME NEW E, NEW q \in Seq(E), q # <<>>, NEW t, t = Tail(q), NEW e, e = Head(q)
    PROVE  /\ t \in Seq(E) /\ e \in E /\ e = q[1] /\ Len(q) \in Nat \ {0} /\ Len(t) = Len(q) - 1
           /\ \A i \in 1 .. Len(t) : t[i] = q[i + 1] /\ i + 1 \in 1 .. Len(q)
           /\ \A j \in 1 .. Len(q) : j = 1 \/ \E i \in 1 .. Len(t) : j = i + 1
           /\ 1 \in 1 .. Len(q)
<1>1. /\ t \in Seq(E) /\ e \in E /\ Len(q) \in Nat \ {0} /\ Len(t) = Len(q) - 1
      /\ e = q[1] /\ \A i \in 1 .. Len(q) - 1 : t[i] = q[i + 1]
  BY HeadTailProperties
<1>2. ASSUME NEW j \in 1 .. Len(q), j # 1 PROVE \E i \in 1 .. Len(t) : j = i + 1
  <2>1. j - 1 \in 1 .. Len(t) /\ j = j - 1 + 1
    BY <1>1, <1>2
  <2> QED BY <2>1
<1>3. \A i \in 1 .. Len(t) : i + 1 \in 1 .. Len(q)
  BY <1>1
<1> QED BY <1>1, <1>2, <1>3

\* q is e and then t.
Cuts(q, e, t) == q # <<>> /\ e = Head(q) /\ t = Tail(q)

LEMMA CutAt ==
    ASSUME NEW E, NEW q \in Seq(E), NEW e, NEW t, Cuts(q, e, t)
    PROVE  /\ t \in Seq(E) /\ e \in E /\ e = q[1] /\ Len(q) \in Nat \ {0} /\ Len(t) = Len(q) - 1
           /\ \A i \in 1 .. Len(t) : t[i] = q[i + 1] /\ i + 1 \in 1 .. Len(q)
           /\ \A j \in 1 .. Len(q) : j = 1 \/ \E i \in 1 .. Len(t) : j = i + 1
           /\ 1 \in 1 .. Len(q)
<1>1. q # <<>> /\ t = Tail(q) /\ e = Head(q)
  BY DEF Cuts
<1> QED BY <1>1, TailAt

LEMMA SetOfTail ==
    ASSUME NEW E, NEW q \in Seq(E), NEW e, NEW t, Cuts(q, e, t)
    PROVE  ToSet(q) = {e} \cup ToSet(t) /\ e \in E /\ t \in Seq(E)
<1>1. /\ \A i \in 1 .. Len(q) : q[i] \in ToSet(q)
      /\ \A x \in ToSet(q) : \E i \in 1 .. Len(q) : x = q[i]
  BY SetOf
<1>2. t \in Seq(E) /\ e \in E
  BY CutAt
<1>3. /\ \A i \in 1 .. Len(t) : t[i] \in ToSet(t)
      /\ \A x \in ToSet(t) : \E i \in 1 .. Len(t) : x = t[i]
  BY <1>2, SetOf
<1>4. ToSet(t) \subseteq ToSet(q) /\ e \in ToSet(q)
  <2>1. ASSUME NEW x \in ToSet(t) PROVE x \in ToSet(q)
    <3>1. PICK i \in 1 .. Len(t) : x = t[i]
      BY <1>3
    <3>2. t[i] = q[i + 1] /\ i + 1 \in 1 .. Len(q)
      BY CutAt
    <3> QED BY <3>1, <3>2, <1>1
  <2>2. e = q[1] /\ 1 \in 1 .. Len(q)
    BY CutAt
  <2> QED BY <2>1, <2>2, <1>1
<1>5. ASSUME NEW j \in 1 .. Len(q) PROVE q[j] \in {e} \cup ToSet(t)
  <2>1. CASE j = 1
    BY <2>1, CutAt
  <2>2. CASE \E i \in 1 .. Len(t) : j = i + 1
    <3>1. PICK i \in 1 .. Len(t) : j = i + 1
      BY <2>2
    <3>2. q[j] = t[i]
      BY <3>1, CutAt
    <3> QED BY <3>2, <1>3
  <2> QED BY <2>1, <2>2, CutAt
<1> QED BY <1>1, <1>2, <1>4, <1>5

LEMMA SetOfJoin ==
    ASSUME NEW E, NEW s \in Seq(E), NEW t \in Seq(E)
    PROVE  s \o t \in Seq(E) /\ ToSet(s \o t) = ToSet(s) \cup ToSet(t)
<1>0. PICK u : u = s \o t
  OBVIOUS
<1>1. u \in Seq(E) /\ Joined(s, t, u)
  BY <1>0, JoinIs
<1>2. /\ \A i \in 1 .. Len(u) : u[i] \in ToSet(u)
      /\ \A x \in ToSet(u) : \E i \in 1 .. Len(u) : x = u[i]
      /\ \A i \in 1 .. Len(s) : s[i] \in ToSet(s)
      /\ \A x \in ToSet(s) : \E i \in 1 .. Len(s) : x = s[i]
      /\ \A i \in 1 .. Len(t) : t[i] \in ToSet(t)
      /\ \A x \in ToSet(t) : \E i \in 1 .. Len(t) : x = t[i]
  <2>1. /\ \A i \in 1 .. Len(u) : u[i] \in ToSet(u)
        /\ \A x \in ToSet(u) : \E i \in 1 .. Len(u) : x = u[i]
    BY <1>1, SetOf
  <2>2. /\ \A i \in 1 .. Len(s) : s[i] \in ToSet(s)
        /\ \A x \in ToSet(s) : \E i \in 1 .. Len(s) : x = s[i]
    BY SetOf
  <2>3. /\ \A i \in 1 .. Len(t) : t[i] \in ToSet(t)
        /\ \A x \in ToSet(t) : \E i \in 1 .. Len(t) : x = t[i]
    BY SetOf
  <2> QED BY <2>1, <2>2, <2>3
<1>3. ASSUME NEW i \in 1 .. Len(s) PROVE s[i] \in ToSet(u)
  <2>1. i \in 1 .. Len(u) /\ u[i] = s[i]
    BY <1>1 DEF Joined
  <2> QED BY <2>1, <1>2
<1>4. ASSUME NEW i \in 1 .. Len(t) PROVE t[i] \in ToSet(u)
  <2>1. Len(s) + i \in 1 .. Len(u) /\ u[Len(s) + i] = t[i]
    BY <1>1 DEF Joined
  <2> QED BY <2>1, <1>2
<1>5. ASSUME NEW i \in 1 .. Len(u) PROVE u[i] \in ToSet(s) \cup ToSet(t)
  <2>1. CASE i \in 1 .. Len(s)
    <3>1. u[i] = s[i]
      BY <1>1, <2>1 DEF Joined
    <3> QED BY <3>1, <2>1, <1>2
  <2>2. CASE \E k \in 1 .. Len(t) : i = Len(s) + k
    <3>1. PICK k \in 1 .. Len(t) : i = Len(s) + k
      BY <2>2
    <3>2. u[i] = t[k]
      BY <1>1, <3>1 DEF Joined
    <3> QED BY <3>2, <1>2
  <2> QED BY <1>1, <2>1, <2>2 DEF Joined
<1>6. ToSet(s) \subseteq ToSet(u) /\ ToSet(t) \subseteq ToSet(u)
  BY <1>2, <1>3, <1>4
<1>7. ToSet(u) \subseteq ToSet(s) \cup ToSet(t)
  BY <1>2, <1>5
<1>8. ToSet(u) = ToSet(s) \cup ToSet(t)
  BY <1>6, <1>7, Zenon
<1> QED BY <1>0, <1>1, <1>8, Zenon

LEMMA SetOfOnly ==
    ASSUME NEW E, NEW q \in Seq(E), NEW T, NEW r, r = Only(q, T)
    PROVE  r \in Seq(E) /\ ToSet(r) = ToSet(q) \cap T
<1>0. r \in Seq(E)
  BY OnlyEmbeds
<1>1. \E h : Embeds(q, T, Len(q), r, h)
  BY OnlyEmbeds
<1>2. PICK h : Embeds(q, T, Len(q), r, h)
  BY <1>1
<1>3. /\ \A i \in 1 .. Len(r) : r[i] \in ToSet(r)
      /\ \A x \in ToSet(r) : \E i \in 1 .. Len(r) : x = r[i]
      /\ \A i \in 1 .. Len(q) : q[i] \in ToSet(q)
      /\ \A x \in ToSet(q) : \E i \in 1 .. Len(q) : x = q[i]
  <2>1. /\ \A i \in 1 .. Len(r) : r[i] \in ToSet(r)
        /\ \A x \in ToSet(r) : \E i \in 1 .. Len(r) : x = r[i]
    BY <1>0, SetOf
  <2>2. /\ \A i \in 1 .. Len(q) : q[i] \in ToSet(q)
        /\ \A x \in ToSet(q) : \E i \in 1 .. Len(q) : x = q[i]
    BY SetOf
  <2> QED BY <2>1, <2>2
<1>4. ASSUME NEW k \in 1 .. Len(r) PROVE r[k] \in ToSet(q) \cap T
  <2>1. h[k] \in 1 .. Len(q) /\ q[h[k]] \in T /\ r[k] = q[h[k]]
    BY <1>2 DEF Embeds
  <2> QED BY <2>1, <1>3
<1>5. ASSUME NEW i \in 1 .. Len(q), q[i] \in T PROVE q[i] \in ToSet(r)
  <2>1. PICK k \in 1 .. Len(r) : h[k] = i
    BY <1>2, <1>5 DEF Embeds
  <2>2. r[k] = q[i]
    BY <2>1, <1>2 DEF Embeds
  <2> QED BY <2>2, <1>3
<1> QED BY <1>0, <1>3, <1>4, <1>5
\* At most one element of q is in X.
Once(q, X) == \A i, j \in 1 .. Len(q) : q[i] \in X /\ q[j] \in X => i = j

LEMMA OnceNone == \A X : Once(<<>>, X)
BY DEF Once

LEMMA OnceApart ==
    ASSUME NEW E, NEW q \in Seq(E), NEW X, ToSet(q) \cap X = {}
    PROVE  Once(q, X)
<1>1. \A i \in 1 .. Len(q) : q[i] \notin X
  BY SetOf
<1> QED BY <1>1 DEF Once

LEMMA OnceOne ==
    ASSUME NEW e, NEW X
    PROVE  Once(<<e>>, X)
<1>1. Len(<<e>>) = 1
  OBVIOUS
<1> QED BY <1>1 DEF Once

LEMMA OnceTail ==
    ASSUME NEW E, NEW q \in Seq(E), NEW X, Once(q, X), NEW e, NEW t, Cuts(q, e, t)
    PROVE  Once(t, X) /\ (e \in X => ToSet(t) \cap X = {})
<1>1. ASSUME NEW i \in 1 .. Len(t), NEW j \in 1 .. Len(t), t[i] \in X, t[j] \in X
      PROVE  i = j
  <2>1. /\ t[i] = q[i + 1] /\ i + 1 \in 1 .. Len(q)
        /\ t[j] = q[j + 1] /\ j + 1 \in 1 .. Len(q)
    BY CutAt
  <2>2. i + 1 = j + 1
    BY <2>1, <1>1 DEF Once
  <2> QED BY <2>2
<1>2. ASSUME e \in X, NEW x \in ToSet(t), x \in X
      PROVE  FALSE
  <2>1. t \in Seq(E)
    BY CutAt
  <2>2. PICK i \in 1 .. Len(t) : x = t[i]
    BY <2>1, SetOf
  <2>3. t[i] = q[i + 1] /\ i + 1 \in 1 .. Len(q) /\ e = q[1] /\ 1 \in 1 .. Len(q)
    BY CutAt
  <2>4. i + 1 = 1
    BY <2>2, <2>3, <1>2 DEF Once
  <2> QED BY <2>4
<1>3. Once(t, X)
  BY <1>1 DEF Once
<1> QED BY <1>2, <1>3

LEMMA OnceJoined ==
    ASSUME NEW E, NEW s \in Seq(E), NEW t \in Seq(E), NEW u \in Seq(E), Joined(s, t, u), NEW X,
           Once(s, X), Once(t, X), ToSet(s) \cap X = {} \/ ToSet(t) \cap X = {}
    PROVE  Once(u, X)
<1>1. ASSUME NEW i \in 1 .. Len(u), u[i] \in X
      PROVE  \/ i \in 1 .. Len(s) /\ s[i] \in X
             \/ \E k \in 1 .. Len(t) : i = Len(s) + k /\ t[k] \in X
  <2>1. CASE i \in 1 .. Len(s)
    <3>1. u[i] = s[i]
      BY <2>1 DEF Joined
    <3> QED BY ONLY <2>1, <3>1, <1>1
  <2>2. CASE \E k \in 1 .. Len(t) : i = Len(s) + k
    <3>1. PICK k \in 1 .. Len(t) : i = Len(s) + k
      BY <2>2
    <3>2. u[i] = t[k]
      BY <3>1 DEF Joined
    <3>3. t[k] \in X
      BY <1>1, <3>2, Zenon
    <3>4. \E j \in 1 .. Len(t) : i = Len(s) + j /\ t[j] \in X
      BY ONLY k \in 1 .. Len(t), <3>1, <3>3
    <3> QED BY <3>4, Zenon
  <2>3. i \in 1 .. Len(s) \/ \E k \in 1 .. Len(t) : i = Len(s) + k
    BY DEF Joined
  <2> QED BY <2>1, <2>2, <2>3, Zenon
<1>2. (\A i \in 1 .. Len(s) : s[i] \in ToSet(s)) /\ (\A i \in 1 .. Len(t) : t[i] \in ToSet(t))
  <2>1. \A i \in 1 .. Len(s) : s[i] \in ToSet(s)
    BY SetOf
  <2>2. \A i \in 1 .. Len(t) : t[i] \in ToSet(t)
    BY SetOf
  <2> QED BY <2>1, <2>2
<1>3. ASSUME NEW i \in 1 .. Len(u), NEW j \in 1 .. Len(u), u[i] \in X, u[j] \in X
      PROVE  i = j
  <2>1. CASE i \in 1 .. Len(s) /\ s[i] \in X
    <3>1. j \in 1 .. Len(s) /\ s[j] \in X
      <4>1. ~\E k \in 1 .. Len(t) : t[k] \in X
        BY <2>1, <1>2
      <4> QED BY <4>1, <1>1, <1>3
    <3> QED BY <2>1, <3>1 DEF Once
  <2>2. CASE \E k \in 1 .. Len(t) : i = Len(s) + k /\ t[k] \in X
    <3>1. PICK k \in 1 .. Len(t) : i = Len(s) + k /\ t[k] \in X
      BY <2>2
    <3>2. ~\E l \in 1 .. Len(s) : s[l] \in X
      BY <3>1, <1>2
    <3>3. PICK l \in 1 .. Len(t) : j = Len(s) + l /\ t[l] \in X
      BY <3>2, <1>1, <1>3
    <3>4. k = l
      BY <3>1, <3>3 DEF Once
    <3> QED BY <3>1, <3>3, <3>4
  <2> QED BY <2>1, <2>2, <1>1, <1>3
<1> QED BY <1>3 DEF Once

LEMMA OnceJoin ==
    ASSUME NEW E, NEW s \in Seq(E), NEW t \in Seq(E), NEW u, u = s \o t, NEW X,
           Once(s, X), Once(t, X), ToSet(s) \cap X = {} \/ ToSet(t) \cap X = {}
    PROVE  Once(u, X)
BY JoinIs, OnceJoined

LEMMA OnceOnly ==
    ASSUME NEW E, NEW q \in Seq(E), NEW T, NEW r, r = Only(q, T), NEW X, Once(q, X)
    PROVE  Once(r, X)
<1>0. r \in Seq(E) /\ Len(r) \in Nat
  BY OnlyEmbeds
<1>1. \E h : Embeds(q, T, Len(q), r, h)
  BY OnlyEmbeds
<1>2. PICK h : Embeds(q, T, Len(q), r, h)
  BY <1>1
<1>3. ASSUME NEW i \in 1 .. Len(r), NEW j \in 1 .. Len(r), r[i] \in X, r[j] \in X
      PROVE  i = j
  <2>1. /\ h[i] \in 1 .. Len(q) /\ q[h[i]] \in X
        /\ h[j] \in 1 .. Len(q) /\ q[h[j]] \in X
    BY <1>2, <1>3 DEF Embeds
  <2>2. h[i] = h[j]
    BY <2>1 DEF Once
  <2>3. ~(i < j) /\ ~(j < i)
    BY <2>1, <2>2, <1>2 DEF Embeds
  <2> QED BY <2>3, <1>0
<1> QED BY <1>3 DEF Once

\* An element of X is followed by one of Y.
Followed(q, X, Y) ==
    \A i \in 1 .. Len(q) : q[i] \in X => \E k \in 1 .. Len(q) : i <= k /\ q[k] \in Y

LEMMA FollowedApart ==
    ASSUME NEW E, NEW q \in Seq(E), NEW X, NEW Y, ToSet(q) \cap X = {}
    PROVE  Followed(q, X, Y)
<1>1. \A i \in 1 .. Len(q) : q[i] \notin X
  BY SetOf
<1> QED BY <1>1 DEF Followed

LEMMA FollowedTail ==
    ASSUME NEW E, NEW q \in Seq(E), NEW X, NEW Y, X \cap Y = {}, Followed(q, X, Y),
           NEW e, NEW t, Cuts(q, e, t)
    PROVE  Followed(t, X, Y) /\ (e \in X => \E y \in ToSet(t) : y \in Y)
<1>1. ASSUME NEW i \in 1 .. Len(t), t[i] \in X
      PROVE  \E k \in 1 .. Len(t) : i <= k /\ t[k] \in Y
  <2>1. t[i] = q[i + 1] /\ i + 1 \in 1 .. Len(q)
    BY CutAt
  <2>2. PICK j \in 1 .. Len(q) : i + 1 <= j /\ q[j] \in Y
    BY <1>1, <2>1 DEF Followed
  <2>3. PICK k \in 1 .. Len(t) : j = k + 1
    BY <2>2, CutAt
  <2>4. t[k] = q[j] /\ i <= k
    BY <2>2, <2>3, CutAt
  <2> QED BY <2>2, <2>4
<1>2. ASSUME e \in X
      PROVE  \E y \in ToSet(t) : y \in Y
  <2>1. e = q[1] /\ 1 \in 1 .. Len(q) /\ t \in Seq(E)
    BY CutAt
  <2>2. PICK j \in 1 .. Len(q) : q[j] \in Y
    BY <1>2, <2>1 DEF Followed
  <2>3. j # 1
    BY <1>2, <2>1, <2>2
  <2>4. PICK k \in 1 .. Len(t) : j = k + 1
    BY <2>3, CutAt
  <2>5. t[k] = q[j]
    BY <2>4, CutAt
  <2>6. t[k] \in ToSet(t)
    BY <2>1, SetOf
  <2> QED BY <2>2, <2>5, <2>6
<1>3. Followed(t, X, Y)
  BY <1>1 DEF Followed
<1> QED BY <1>2, <1>3

LEMMA FollowedJoined ==
    ASSUME NEW E, NEW s \in Seq(E), NEW t \in Seq(E), NEW u \in Seq(E), Joined(s, t, u), NEW X, NEW Y,
           ToSet(t) \cap X = {}, Followed(s, X, Y) \/ \E y \in ToSet(t) : y \in Y
    PROVE  Followed(u, X, Y)
<1>1. \A k \in 1 .. Len(t) : t[k] \notin X
  BY SetOf
<1>2. ASSUME NEW i \in 1 .. Len(u), u[i] \in X
      PROVE  \E k \in 1 .. Len(u) : i <= k /\ u[k] \in Y
  <2>1. i \in 1 .. Len(s) /\ u[i] = s[i]
    <3>1. CASE i \in 1 .. Len(s)
      BY <3>1 DEF Joined
    <3>2. CASE \E k \in 1 .. Len(t) : i = Len(s) + k
      <4>1. PICK k \in 1 .. Len(t) : i = Len(s) + k
        BY <3>2
      <4>2. u[i] = t[k]
        BY <4>1 DEF Joined
      <4> QED BY <4>2, <1>1, <1>2
    <3> QED BY <3>1, <3>2 DEF Joined
  <2>2. CASE Followed(s, X, Y)
    <3>1. PICK k \in 1 .. Len(s) : i <= k /\ s[k] \in Y
      BY <2>1, <2>2, <1>2 DEF Followed
    <3>2. k \in 1 .. Len(u) /\ u[k] = s[k]
      BY DEF Joined
    <3> QED BY <3>1, <3>2
  <2>3. CASE \E y \in ToSet(t) : y \in Y
    <3>1. PICK k \in 1 .. Len(t) : t[k] \in Y
      BY <2>3, SetOf
    <3>2. Len(s) + k \in 1 .. Len(u) /\ u[Len(s) + k] = t[k] /\ Len(s) \in Nat
      BY DEF Joined
    <3>3. i <= Len(s) + k
      BY <2>1, <3>2
    <3> QED BY <3>1, <3>2, <3>3
  <2> QED BY <2>2, <2>3
<1> QED BY <1>2 DEF Followed

LEMMA FollowedJoin ==
    ASSUME NEW E, NEW s \in Seq(E), NEW t \in Seq(E), NEW u, u = s \o t, NEW X, NEW Y,
           ToSet(t) \cap X = {}, Followed(s, X, Y) \/ \E y \in ToSet(t) : y \in Y
    PROVE  Followed(u, X, Y)
BY JoinIs, FollowedJoined

\* The last element of q in X, if there is one, is v.
LastIs(q, X, v) ==
    \A i \in 1 .. Len(q) :
        q[i] \in X => q[i] = v \/ \E k \in 1 .. Len(q) : i < k /\ q[k] \in X

LEMMA LastApart ==
    ASSUME NEW E, NEW q \in Seq(E), NEW X, NEW v, ToSet(q) \cap X = {}
    PROVE  LastIs(q, X, v)
<1>1. \A i \in 1 .. Len(q) : q[i] \notin X
  BY SetOf
<1> QED BY <1>1 DEF LastIs

LEMMA LastTail ==
    ASSUME NEW E, NEW q \in Seq(E), NEW X, NEW v, LastIs(q, X, v),
           NEW e, NEW t, Cuts(q, e, t)
    PROVE  LastIs(t, X, v) /\ (e \in X /\ ToSet(t) \cap X = {} => e = v)
<1>1. ASSUME NEW i \in 1 .. Len(t), t[i] \in X, t[i] # v
      PROVE  \E k \in 1 .. Len(t) : i < k /\ t[k] \in X
  <2>1. t[i] = q[i + 1] /\ i + 1 \in 1 .. Len(q)
    BY CutAt
  <2>2. PICK j \in 1 .. Len(q) : i + 1 < j /\ q[j] \in X
    BY <1>1, <2>1 DEF LastIs
  <2>3. PICK k \in 1 .. Len(t) : j = k + 1
    BY <2>2, CutAt
  <2>4. t[k] = q[j] /\ i < k
    BY <2>2, <2>3, CutAt
  <2> QED BY <2>2, <2>4
<1>2. ASSUME e \in X, ToSet(t) \cap X = {}, e # v
      PROVE  FALSE
  <2>1. e = q[1] /\ 1 \in 1 .. Len(q) /\ t \in Seq(E)
    BY CutAt
  <2>2. PICK j \in 1 .. Len(q) : 1 < j /\ q[j] \in X
    BY <1>2, <2>1 DEF LastIs
  <2>4. PICK k \in 1 .. Len(t) : j = k + 1
    BY <2>2, CutAt
  <2>5. t[k] = q[j]
    BY <2>4, CutAt
  <2>6. t[k] \in ToSet(t)
    BY <2>1, SetOf
  <2> QED BY <2>2, <2>5, <2>6, <1>2
<1>3. LastIs(t, X, v)
  BY <1>1 DEF LastIs
<1> QED BY <1>2, <1>3

LEMMA LastJoined ==
    ASSUME NEW E, NEW s \in Seq(E), NEW t \in Seq(E), NEW u \in Seq(E), Joined(s, t, u), NEW X, NEW v,
           \/ LastIs(s, X, v) /\ ToSet(t) \cap X = {}
           \/ t = <<v>> /\ v \in X
    PROVE  LastIs(u, X, v)
<1>1. ASSUME LastIs(s, X, v), ToSet(t) \cap X = {}, NEW i \in 1 .. Len(u), u[i] \in X, u[i] # v
      PROVE  \E k \in 1 .. Len(u) : i < k /\ u[k] \in X
  <2>0. \A k \in 1 .. Len(t) : t[k] \notin X
    BY <1>1, SetOf
  <2>1. i \in 1 .. Len(s) /\ u[i] = s[i]
    <3>1. CASE i \in 1 .. Len(s)
      BY <3>1 DEF Joined
    <3>2. CASE \E k \in 1 .. Len(t) : i = Len(s) + k
      <4>1. PICK k \in 1 .. Len(t) : i = Len(s) + k
        BY <3>2
      <4>2. u[i] = t[k]
        BY <4>1 DEF Joined
      <4> QED BY <4>2, <2>0, <1>1
    <3> QED BY <3>1, <3>2 DEF Joined
  <2>2. PICK k \in 1 .. Len(s) : i < k /\ s[k] \in X
    BY <2>1, <1>1 DEF LastIs
  <2>3. k \in 1 .. Len(u) /\ u[k] = s[k]
    BY DEF Joined
  <2> QED BY <2>2, <2>3
<1>2. ASSUME t = <<v>>, v \in X, NEW i \in 1 .. Len(u), u[i] # v
      PROVE  \E k \in 1 .. Len(u) : i < k /\ u[k] \in X
  <2>1. Len(t) = 1 /\ t[1] = v
    BY <1>2
  <2>4. /\ Len(u) = Len(s) + Len(t) /\ Len(s) \in Nat
        /\ \A k \in 1 .. Len(t) : Len(s) + k \in 1 .. Len(u) /\ u[Len(s) + k] = t[k]
    BY DEF Joined
  <2>2. Len(s) + 1 \in 1 .. Len(u) /\ u[Len(s) + 1] = v /\ Len(u) = Len(s) + 1 /\ Len(s) \in Nat
    <3>1. 1 \in 1 .. Len(t)
      BY <2>1
    <3> HIDE <1>2
    <3> QED BY ONLY <2>1, <2>4, <3>1
  <2>3. i < Len(s) + 1
    BY <2>2, <1>2
  <2> QED BY <2>2, <2>3, <1>2
<1> QED BY <1>1, <1>2 DEF LastIs

LEMMA LastJoin ==
    ASSUME NEW E, NEW s \in Seq(E), NEW t \in Seq(E), NEW u, u = s \o t, NEW X, NEW v,
           \/ LastIs(s, X, v) /\ ToSet(t) \cap X = {}
           \/ t = <<v>> /\ v \in X
    PROVE  LastIs(u, X, v)
BY JoinIs, LastJoined

-----------------------------------------------------------------------------
(* Types.                                                                  *)

Stages == {"off", "globals", "bound", "ids", "on", "closing", "lost"}
Requests ==
    [op : {"get_registry", "sync", "commit", "disconnect"}]
      \cup [op : {"bind_output", "create_screen", "screen_destroy", "get", "surface_get"}, n : Nat]
      \cup [op : {"clear"}, n : Nat, asked : Nat, named : BOOLEAN]
      \cup [op : {"add"}, n : Nat, layer : Layers \cup {Nothing}, asked : Nat, named : BOOLEAN]
      \cup [op : {"remove"}, n : Nat, layer : Layers]
      \cup [op : {"screenshot"}, n : Nat, shot : Nat]
      \cup [op : {"surface_screenshot"}, n : Nat, size : Sizes]
Events ==
    [ev : {"global", "gone"}, n : Nat] \cup [ev : {"ivi_wm", "done"}]
      \cup [ev : {"mode"}, n : Nat, turned : BOOLEAN, mode : Modes]
      \cup [ev : {"screen_id"}, n : Nat, id : Nat]
      \cup [ev : {"layer"}, n : Nat, layer : Layers]
      \cup [ev : {"shot"}, n : Nat, ok : BOOLEAN]
      \cup [ev : {"surface"}, n : Nat, size : Sizes \cup {0, Nothing}]
Heads == [output : Outputs, mode : Modes, early : BOOLEAN, id : Nat]
ScreenContexts == [n : Nat, id : Nat, named : BOOLEAN, made : BOOLEAN, size : (Nat \X Nat) \cup {Nothing},
                   order : Seq(Layers)]
Calls == [op : {"none", "layers", "screens", "commit", "shot", "sized", "async"}, n : Nat]

OutputTypes ==
    /\ head \in Seq(Heads) /\ screens \subseteq 1 .. Len(head)
    /\ pend \in Seq(Seq(Layers)) /\ Len(pend) = Len(head)
    /\ cur \in Seq(Seq(Layers)) /\ Len(cur) = Len(head)
WireTypes == wire \in [Clients -> Seq(Requests)] /\ inbox \in [Clients -> Seq(Events)]
ClientTypes ==
    /\ stage \in [Clients -> Stages] /\ ctx \in [Clients -> Seq(ScreenContexts)]
    /\ call \in [Clients -> Calls] /\ sent \in [Clients -> Seq(Layers) \cup {Nothing}]
    /\ calls \in Nat
ObjectTypes ==
    /\ resources \subseteq Clients \X screens /\ viewers \subseteq Clients \X screens
    /\ listening \subseteq Clients
ShotTypes ==
    /\ surf \in Sizes \cup {0, Nothing}
    /\ held \subseteq [client : Clients, shot : Nat, n : Nat]
    /\ shots \subseteq Clients \X Nat /\ contexts \subseteq Clients \X Nat
Typed == OutputTypes /\ WireTypes /\ ClientTypes /\ ObjectTypes /\ ShotTypes

LEMMA FreeIdNat ==
    ASSUME OutputTypes
    PROVE  FreeId \in Nat
<1> DEFINE ids == {head[n].id : n \in screens}
<1>1. IsFiniteSet(screens) /\ Cardinality(screens) \in Nat
  <2>1. Len(head) \in Nat
    BY DEF OutputTypes
  <2>2. IsFiniteSet(1 .. Len(head))
    BY <2>1, FS_Interval
  <2>3. IsFiniteSet(screens)
    BY <2>2, FS_Subset DEF OutputTypes
  <2> QED BY <2>3, FS_CardinalityType
<1>2. IsFiniteSet(ids) /\ Cardinality(ids) <= Cardinality(screens)
  <2>1. [n \in screens |-> head[n].id] \in Surjection(screens, ids)
    BY DEF Surjection
  <2> HIDE DEF ids
  <2> QED BY <2>1, <1>1, FS_Surjection
<1> HIDE DEF ids
<1>3. IsFiniteSet(0 .. Cardinality(screens))
      /\ Cardinality(0 .. Cardinality(screens)) = Cardinality(screens) + 1
  BY <1>1, FS_Interval
<1>4. (0 .. Cardinality(screens)) \ ids # {}
  <2> SUFFICES ASSUME 0 .. Cardinality(screens) \subseteq ids PROVE FALSE
    OBVIOUS
  <2>1. Cardinality(0 .. Cardinality(screens)) <= Cardinality(ids)
    BY <1>2, FS_Subset
  <2>2. Cardinality(ids) \in Nat
    BY <1>2, FS_CardinalityType
  <2> QED BY <1>1, <1>2, <1>3, <2>1, <2>2
<1>5. Min((0 .. Cardinality(screens)) \ ids) \in Nat
  <2>1. (0 .. Cardinality(screens)) \ ids \subseteq Nat
    BY <1>1
  <2> QED BY <1>4, <2>1, MinIn
<1> QED BY <1>5 DEF FreeId, ids

LEMMA OneMore ==
    ASSUME NEW n \in Nat, NEW S, S \subseteq 1 .. n
    PROVE  S \cup {n + 1} \subseteq 1 .. (n + 1)
OBVIOUS

LEMMA TellTypes ==
    ASSUME WireTypes, NEW To, NEW e \in Events, Tell(To, e)
    PROVE  inbox' \in [Clients -> Seq(Events)]
BY DEF WireTypes, Tell

LEMMA SendTypes ==
    ASSUME WireTypes, NEW c \in Clients, NEW q \in Seq(Requests), Send(c, q)
    PROVE  wire' \in [Clients -> Seq(Requests)]
BY DEF WireTypes, Send

LEMMA ReplyTypes ==
    ASSUME WireTypes, NEW c \in Clients, NEW q \in Seq(Events), Reply(c, q)
    PROVE  inbox' \in [Clients -> Seq(Events)]
BY DEF WireTypes, Reply

LEMMA HandledTypes ==
    ASSUME WireTypes, NEW c \in Clients, wire[c] # <<>>, Handled(c)
    PROVE  wire' \in [Clients -> Seq(Requests)]
BY DEF WireTypes, Handled

LEMMA OutsideTypes ==
    ASSUME Typed, Outside, Follow
    PROVE  Typed'
<1> USE DEF Typed
<1>1. ASSUME NEW o \in Outputs, output_created_event(o)
      PROVE  OutputTypes' /\ WireTypes'
  <2>1. NewHead(o, FALSE, FreeId) \in Heads
    BY FreeIdNat, ScreensAssumption DEF NewHead, Heads
  <2>2. OutputTypes'
    <3>1. head' = Append(head, NewHead(o, FALSE, FreeId))
          /\ screens' = screens \cup {Len(head')}
          /\ pend' = Append(pend, <<>>) /\ cur' = Append(cur, <<>>)
      BY <1>1 DEF output_created_event
    <3>2. head' \in Seq(Heads) /\ Len(head') = Len(head) + 1 /\ Len(head) \in Nat
      <4>1. PICK e \in Heads : head' = Append(head, e)
        BY <2>1, <3>1
      <4>2. head \in Seq(Heads)
        BY DEF OutputTypes
      <4> QED BY <4>1, <4>2
    <3>3. <<>> \in Seq(Layers)
      OBVIOUS
    <3>4. /\ pend' \in Seq(Seq(Layers)) /\ Len(pend') = Len(pend) + 1
          /\ cur' \in Seq(Seq(Layers)) /\ Len(cur') = Len(cur) + 1
      BY <3>1, <3>3 DEF OutputTypes
    <3>5. screens' \subseteq 1 .. Len(head')
      <4>1. screens' = screens \cup {Len(head) + 1}
        BY <3>1, <3>2
      <4>2. screens \subseteq 1 .. Len(head)
        BY DEF OutputTypes
      <4>3. screens' \subseteq 1 .. (Len(head) + 1)
        BY ONLY <3>2, <4>1, <4>2, OneMore
      <4> QED BY <4>3, <3>2
    <3> QED BY <3>2, <3>4, <3>5 DEF OutputTypes
  <2>3. Event("global", Len(head')) \in Events
    BY <2>2 DEF OutputTypes, Event, Events
  <2>4. WireTypes'
    BY <1>1, <2>3, TellTypes DEF output_created_event, Plug, WireTypes
  <2> QED BY <2>2, <2>4
<1>2. ASSUME NEW n \in screens, output_destroyed_event(n)
      PROVE  OutputTypes' /\ WireTypes'
  <2>1. Event("gone", n) \in Events
    BY DEF OutputTypes, Event, Events
  <2>2. WireTypes'
    BY <1>2, <2>1, TellTypes DEF output_destroyed_event, Plug, WireTypes
  <2>3. OutputTypes'
    BY <1>2 DEF output_destroyed_event, OutputTypes, destroy_screen
  <2> QED BY <2>2, <2>3
<1>3. ASSUME NEW n \in screens, NEW m \in Modes, output_resized_event(n, m)
      PROVE  OutputTypes' /\ WireTypes'
  <2>1. n \in 1 .. Len(head) /\ head' = [head EXCEPT ![n].mode = m]
    BY <1>3 DEF output_resized_event, OutputTypes
  <2>2. head' \in Seq(Heads) /\ Len(head') = Len(head)
    <3>1. head \in Seq(Heads) /\ head[n] \in Heads
      BY <2>1 DEF OutputTypes
    <3>2. [head[n] EXCEPT !.mode = m] \in Heads
      BY <3>1 DEF Heads
    <3>3. head' = [head EXCEPT ![n] = [head[n] EXCEPT !.mode = m]]
      BY <2>1
    <3> QED BY <2>1, <3>1, <3>2, <3>3
  <2>3. OutputTypes'
    BY <1>3, <2>2 DEF output_resized_event, OutputTypes, orders
  <2>4. ModeOf(head', n) \in Events
    <3>1. head'[n].mode = m
      BY <2>1 DEF OutputTypes, Heads
    <3>2. PICK b \in BOOLEAN : b <=> head'[n].output \in Rotated
      OBVIOUS
    <3>3. ModeOf(head', n) = [ev |-> "mode", n |-> n, turned |-> b, mode |-> m]
      BY <3>1, <3>2 DEF ModeOf
    <3>4. n \in Nat
      BY <2>1 DEF OutputTypes
    <3> QED BY <3>3, <3>4 DEF Events
  <2>5. WireTypes'
    BY <1>3, <2>4, TellTypes DEF output_resized_event, Plug, WireTypes
  <2> QED BY <2>3, <2>5
<1>4. ASSUME NEW n \in screens, NEW l \in Layers, others_set_order(n, l)
      PROVE  OutputTypes' /\ WireTypes'
  BY <1>4 DEF others_set_order, Plug, outputs, OutputTypes, WireTypes
<1>5. ASSUME launch_client_process \/ ivi_shell_client_destroy
               \/ surface_event_configure \/ remove_bkgnd_surface
      PROVE  OutputTypes' /\ WireTypes'
  BY <1>5 DEF launch_client_process, ivi_shell_client_destroy, surface_event_configure,
     remove_bkgnd_surface, Background, Plug, orders, OutputTypes, WireTypes
<1>6. ASSUME ivi_shell_destroy
      PROVE  Typed'
  <2>1. OutputTypes'
    BY <1>6 DEF ivi_shell_destroy, OutputTypes, orders
  <2>2. WireTypes'
    <3>1. <<>> \in Seq(Requests) /\ <<>> \in Seq(Events)
      OBVIOUS
    <3> QED BY <1>6, <3>1 DEF ivi_shell_destroy, WireTypes
  <2>3. ClientTypes'
    <3>1. "lost" \in Stages /\ <<>> \in Seq(ScreenContexts) /\ Idle \in Calls
      BY DEF Stages, Idle, Calls
    <3> QED BY <1>6, <3>1 DEF ivi_shell_destroy, ClientTypes, orders, bounds
  <2>4. ObjectTypes' /\ ShotTypes'
    BY <1>6 DEF ivi_shell_destroy, ObjectTypes, ShotTypes, Follow
  <2> QED BY <2>1, <2>2, <2>3, <2>4
<1>7. ASSUME UNCHANGED <<stage, ctx, call, sent, calls>>
      PROVE  ClientTypes' /\ ShotTypes'
  <2>1. /\ shots' \subseteq shots /\ contexts' \subseteq contexts
        /\ surf' = surf /\ held' = held
    BY DEF Follow
  <2> QED BY <1>7, <2>1 DEF ClientTypes, ShotTypes
<1>8. ASSUME NEW o \in Outputs, output_created_event(o)
      PROVE  ClientTypes' /\ ObjectTypes' /\ ShotTypes'
  <2>1. UNCHANGED <<stage, ctx, call, sent, calls>>
    BY <1>8 DEF output_created_event, Plug, library
  <2>2. ObjectTypes'
    BY <1>8 DEF output_created_event, objects, ObjectTypes
  <2> QED BY <2>1, <2>2, <1>7
<1>9. ASSUME NEW n \in screens, output_destroyed_event(n)
      PROVE  ClientTypes' /\ ObjectTypes' /\ ShotTypes'
  <2>1. UNCHANGED <<stage, ctx, call, sent, calls>>
    BY <1>9 DEF output_destroyed_event, Plug, library
  <2>2. /\ screens' = screens \ {n} /\ listening' = listening
        /\ resources' = {r \in resources : r[2] # n} /\ viewers' = {v \in viewers : v[2] # n}
    BY <1>9 DEF output_destroyed_event, destroy_screen
  <2>3. \A r \in Clients \X screens : r[2] # n => r \in Clients \X (screens \ {n})
    OBVIOUS
  <2>4. ObjectTypes'
    BY <2>2, <2>3 DEF ObjectTypes
  <2> QED BY <2>1, <2>4, <1>7
<1>10. ASSUME NEW n \in screens, NEW m \in Modes, output_resized_event(n, m)
      PROVE  ClientTypes' /\ ObjectTypes' /\ ShotTypes'
  <2>1. UNCHANGED <<stage, ctx, call, sent, calls>>
    BY <1>10 DEF output_resized_event, Plug, library, orders
  <2>2. ObjectTypes'
    BY <1>10 DEF output_resized_event, objects, ObjectTypes
  <2> QED BY <2>1, <2>2, <1>7
<1>11. ASSUME NEW n \in screens, NEW l \in Layers, others_set_order(n, l)
      PROVE  ClientTypes' /\ ObjectTypes' /\ ShotTypes'
  <2>1. UNCHANGED <<stage, ctx, call, sent, calls>>
    BY <1>11 DEF others_set_order, Plug, library
  <2>2. ObjectTypes'
    BY <1>11 DEF others_set_order, outputs, objects, ObjectTypes
  <2> QED BY <2>1, <2>2, <1>7
<1>12. ASSUME launch_client_process \/ ivi_shell_client_destroy
               \/ surface_event_configure \/ remove_bkgnd_surface
      PROVE  ClientTypes' /\ ObjectTypes' /\ ShotTypes'
  <2>1. UNCHANGED <<stage, ctx, call, sent, calls, screens, objects>>
    BY <1>12 DEF launch_client_process, ivi_shell_client_destroy, surface_event_configure,
       remove_bkgnd_surface, Background, Plug, library, orders, bounds
  <2>2. ObjectTypes'
    BY <2>1 DEF objects, ObjectTypes
  <2> QED BY <2>1, <2>2, <1>7
<1> QED
  BY <1>1, <1>2, <1>3, <1>4, <1>5, <1>6, <1>8, <1>9, <1>10, <1>11, <1>12 DEF Outside

-----------------------------------------------------------------------------
(* What a client is told of the globals.                                   *)

LEMMA EventDiffers ==
    \A m, n : /\ Event("global", m) = Event("global", n) => m = n
              /\ Event("global", m) # [ev |-> "ivi_wm"]
              /\ Event("global", m).ev = "global" /\ Event("global", m).n = m
BY DEF Event

LEMMA ScreenIdNat ==
    ASSUME OutputTypes, NEW n \in 1 .. Len(head)
    PROVE  ScreenId(n) \in Nat
<1>1. head[n] \in Heads
  BY DEF OutputTypes
<1>2. CASE head[n].output \in DOMAIN screen_ids
  BY <1>2, ScreensAssumption DEF ScreenId
<1>3. CASE head[n].output \notin DOMAIN screen_ids
  BY <1>1, <1>3, ScreensAssumption DEF ScreenId, Heads
<1> QED BY <1>2, <1>3

\* The globals a client is told of when it asks for the registry.
GlobalsOf(b) == Only([n \in DOMAIN head |-> n], {n \in screens : head[n].early = b})

Enumerates(q, S) ==
    /\ q \in Seq(Nat)
    /\ \A i \in 1 .. Len(q) : q[i] \in S
    /\ \A i, j \in 1 .. Len(q) : q[i] = q[j] => i = j
    /\ \A n \in S : \E i \in 1 .. Len(q) : q[i] = n

LEMMA SetsOf ==
    ASSUME OutputTypes, NEW b
    PROVE  Enumerates(GlobalsOf(b), {n \in screens : head[n].early = b})
<1> DEFINE p == [n \in DOMAIN head |-> n]
           T == {n \in screens : head[n].early = b}
           q == Only(p, T)
<1>1. Len(head) \in Nat /\ DOMAIN head = 1 .. Len(head)
  BY DEF OutputTypes
<1>2. p \in Seq(Nat) /\ Len(p) = Len(head) /\ \A i \in 1 .. Len(head) : p[i] = i
  BY <1>1
<1> HIDE DEF p
<1>3. q \in Seq(Nat) /\ \E h : Embeds(p, T, Len(p), q, h)
  BY <1>2, OnlyEmbeds
<1>4. PICK h : Embeds(p, T, Len(p), q, h)
  BY <1>3
<1> HIDE DEF q
<1>5. Len(q) \in Nat
  BY <1>3
<1>6. ASSUME NEW i \in 1 .. Len(q)
      PROVE  h[i] \in 1 .. Len(head) /\ q[i] = h[i] /\ q[i] \in T
  BY <1>2, <1>4 DEF Embeds
<1>7. ASSUME NEW i \in 1 .. Len(q), NEW j \in 1 .. Len(q), q[i] = q[j]
      PROVE  i = j
  <2>1. h[i] = h[j] /\ h[i] \in Nat
    BY <1>6, <1>7
  <2>2. ~(i < j) /\ ~(j < i)
    BY <2>1, <1>4 DEF Embeds
  <2> QED BY <2>2, <1>5
<1>8. ASSUME NEW n \in T
      PROVE  \E i \in 1 .. Len(q) : q[i] = n
  <2>1. n \in 1 .. Len(p) /\ p[n] = n /\ n \in T
    BY <1>2, <1>8 DEF OutputTypes
  <2>2. PICK i \in 1 .. Len(q) : h[i] = n
    BY <2>1, <1>4 DEF Embeds
  <2> QED BY <1>6, <2>2
<1>9. GlobalsOf(b) = q
  BY DEF GlobalsOf, q, p
<1> HIDE DEF T
<1>10. Enumerates(q, T)
  BY <1>3, <1>6, <1>7, <1>8 DEF Enumerates
<1> QED BY <1>9, <1>10 DEF T
\* The globals of S, each once.
Lists(evs, S) ==
    /\ \A n : Event("global", n) \in ToSet(evs) <=> n \in S
    /\ \A n : Once(evs, {Event("global", n)})

Announces(evs, S) ==
    /\ Lists(evs, S)
    /\ \A e \in ToSet(evs) : e = [ev |-> "ivi_wm"] \/ \E n \in S : e = Event("global", n)
    /\ Once(evs, {[ev |-> "ivi_wm"]})

GlobalEvents(p) == [i \in 1 .. Len(p) |-> Event("global", p[i])]

LEMMA GlobalEventsList ==
    ASSUME NEW S, NEW p, Enumerates(p, S), NEW A, A = GlobalEvents(p)
    PROVE  /\ A \in Seq(Events) /\ Lists(A, S)
           /\ \A e \in ToSet(A) : \E n \in S : e = Event("global", n)
<1>0. p \in Seq(Nat) /\ Len(p) \in Nat
  BY DEF Enumerates
<1>1. \A i \in 1 .. Len(p) : Event("global", p[i]) \in Events
  BY <1>0 DEF Events, Event
<1>2. A \in Seq(Events) /\ Len(A) = Len(p)
  BY <1>0, <1>1 DEF GlobalEvents
<1>3. \A i \in 1 .. Len(p) : A[i] = Event("global", p[i])
  BY DEF GlobalEvents
<1>4. \A i \in 1 .. Len(p) : p[i] \in S
  BY DEF Enumerates
<1>5. A \in Seq(Events)
  BY <1>2
<1>6. ASSUME NEW e \in ToSet(A) PROVE \E n \in S : e = Event("global", n)
  <2>1. PICK i \in 1 .. Len(A) : e = A[i]
    BY <1>5, SetOf
  <2> QED BY <2>1, <1>2, <1>3, <1>4
<1>7. ASSUME NEW n \in S PROVE Event("global", n) \in ToSet(A)
  <2>1. PICK i \in 1 .. Len(p) : p[i] = n
    BY DEF Enumerates
  <2>2. A[i] \in ToSet(A)
    BY <1>2, <1>5, SetOf
  <2> QED BY <2>1, <2>2, <1>3
<1>8. ASSUME NEW n, NEW i \in 1 .. Len(A), NEW j \in 1 .. Len(A),
             A[i] = Event("global", n), A[j] = Event("global", n)
      PROVE  i = j
  <2>1. p[i] = n /\ p[j] = n
    BY <1>2, <1>3, <1>8, EventDiffers
  <2> QED BY <2>1, <1>2 DEF Enumerates
<1>9. \A n : Once(A, {Event("global", n)})
  BY <1>8 DEF Once
<1>10. \A n : Event("global", n) \in ToSet(A) => n \in S
  BY <1>6, EventDiffers
<1> QED BY <1>2, <1>6, <1>7, <1>9, <1>10 DEF Lists

LEMMA JoinAnnounces ==
    ASSUME NEW S, NEW T, S \cap T = {}, NEW p, NEW q, Enumerates(p, S), Enumerates(q, T),
           NEW evs, evs = GlobalEvents(p) \o <<[ev |-> "ivi_wm"]>> \o GlobalEvents(q)
    PROVE  evs \in Seq(Events) /\ Announces(evs, S \cup T)
<1>1. PICK w : w = [ev |-> "ivi_wm"]
  OBVIOUS
<1>2. w \in Events
  BY <1>1 DEF Events
<1>3. PICK A : A = GlobalEvents(p)
  OBVIOUS
<1>4. PICK B : B = GlobalEvents(q)
  OBVIOUS
<1>5. /\ A \in Seq(Events) /\ Lists(A, S)
      /\ \A e \in ToSet(A) : \E n \in S : e = Event("global", n)
  BY <1>3, GlobalEventsList
<1>6. /\ B \in Seq(Events) /\ Lists(B, T)
      /\ \A e \in ToSet(B) : \E n \in T : e = Event("global", n)
  BY <1>4, GlobalEventsList
<1>7. <<w>> \in Seq(Events) /\ ToSet(<<w>>) = {w}
  BY <1>2, SetOfOne
<1>8. PICK F : F = A \o <<w>>
  OBVIOUS
<1>9. F \in Seq(Events) /\ ToSet(F) = ToSet(A) \cup {w}
  <2>1. F \in Seq(Events) /\ ToSet(F) = ToSet(A) \cup ToSet(<<w>>)
    <3>1. A \in Seq(Events) /\ <<w>> \in Seq(Events)
      BY <1>5, <1>7
    <3> QED BY ONLY <1>8, <3>1, SetOfJoin
  <2> QED BY <2>1, <1>7
<1>10. PICK u : u = F \o B
  OBVIOUS
<1>11. u \in Seq(Events) /\ ToSet(u) = ToSet(F) \cup ToSet(B)
  <2>1. B \in Seq(Events) /\ F \in Seq(Events)
    BY <1>6, <1>9
  <2> QED BY ONLY <1>10, <2>1, SetOfJoin
<1>12. evs = u
  BY <1>1, <1>3, <1>4, <1>8, <1>10, Zenon
<1>13. \A n : Event("global", n) # w
  BY <1>1, EventDiffers
<1>14. ASSUME NEW n PROVE Once(u, {Event("global", n)})
  <2>1. Once(A, {Event("global", n)}) /\ Once(B, {Event("global", n)})
    BY <1>5, <1>6 DEF Lists
  <2>2. ToSet(<<w>>) \cap {Event("global", n)} = {} /\ Once(<<w>>, {Event("global", n)})
    BY <1>7, <1>13, OnceOne
  <2>3. Once(F, {Event("global", n)})
    BY <1>5, <1>7, <1>8, <2>1, <2>2, OnceJoin
  <2>4. ToSet(F) \cap {Event("global", n)} = {} \/ ToSet(B) \cap {Event("global", n)} = {}
    <3>1. n \notin S \/ n \notin T
      OBVIOUS
    <3>2. n \notin S => Event("global", n) \notin ToSet(F)
      BY <1>5, <1>9, <1>13 DEF Lists
    <3>3. n \notin T => Event("global", n) \notin ToSet(B)
      BY <1>6 DEF Lists
    <3> QED BY <3>1, <3>2, <3>3
  <2> QED BY <1>6, <1>9, <1>10, <2>1, <2>3, <2>4, OnceJoin
<1>15. Once(u, {w})
  <2>1. ToSet(A) \cap {w} = {} /\ ToSet(B) \cap {w} = {}
    BY <1>5, <1>6, <1>13
  <2>2. Once(A, {w}) /\ Once(B, {w}) /\ Once(<<w>>, {w})
    BY <2>1, <1>5, <1>6, OnceApart, OnceOne
  <2>3. Once(F, {w})
    BY <1>5, <1>7, <1>8, <2>1, <2>2, OnceJoin
  <2> QED BY <1>6, <1>9, <1>10, <2>1, <2>2, <2>3, OnceJoin
<1>16. \A n : Event("global", n) \in ToSet(u) <=> n \in S \cup T
  BY <1>5, <1>6, <1>9, <1>11, <1>13 DEF Lists
<1>17. \A e \in ToSet(u) : e = w \/ \E n \in S \cup T : e = Event("global", n)
  BY <1>5, <1>6, <1>9, <1>11
<1>18. Announces(u, S \cup T)
  BY <1>1, <1>14, <1>15, <1>16, <1>17 DEF Announces, Lists
<1> QED BY <1>11, <1>12, <1>18

LEMMA RegistryEvents ==
    ASSUME Typed, NEW c \in Clients, NEW r, get_registry(c, r)
    PROVE  \E evs \in Seq(Events) :
              /\ Reply(c, evs) /\ Announces(evs, screens)
<1>0. OutputTypes
  BY DEF Typed
<1> DEFINE S == {n \in screens : head[n].early = TRUE}
           T == {n \in screens : head[n].early = FALSE}
<1>1. S \cap T = {} /\ S \cup T = screens
  <2>1. \A n \in screens : head[n] \in Heads
    BY <1>0 DEF OutputTypes
  <2>2. \A x \in Heads : x.early \in BOOLEAN
    BY DEF Heads
  <2>3. \A b \in BOOLEAN : (b = TRUE \/ b = FALSE) /\ ~(b = TRUE /\ b = FALSE)
    OBVIOUS
  <2>4. \A n \in screens : head[n].early \in BOOLEAN
    BY <2>1, <2>2
  <2> QED BY <2>3, <2>4, Zenon
<1>2. PICK p : p = GlobalsOf(TRUE)
  OBVIOUS
<1>3. PICK q : q = GlobalsOf(FALSE)
  OBVIOUS
<1>4. Enumerates(p, S)
  BY <1>0, <1>2, SetsOf, Zenon
<1>5. Enumerates(q, T)
  BY <1>0, <1>3, SetsOf, Zenon
<1> HIDE DEF S, T
<1> DEFINE evs == GlobalEvents(p) \o <<[ev |-> "ivi_wm"]>> \o GlobalEvents(q)
<1>6. Reply(c, evs)
  <2> DEFINE K(b) == [i \in DOMAIN GlobalsOf(b) |-> Event("global", GlobalsOf(b)[i])]
             M == <<[ev |-> "ivi_wm"]>>
  <2>1. Reply(c, K(TRUE) \o M \o K(FALSE))
    BY DEF get_registry, GlobalsOf
  <2>2. DOMAIN p = 1 .. Len(p) /\ DOMAIN q = 1 .. Len(q)
    BY <1>4, <1>5 DEF Enumerates
  <2>3. K(TRUE) = [i \in DOMAIN p |-> Event("global", p[i])]
    BY <1>2, Zenon
  <2>4. K(FALSE) = [i \in DOMAIN q |-> Event("global", q[i])]
    BY <1>3, Zenon
  <2>5. [i \in DOMAIN p |-> Event("global", p[i])] = GlobalEvents(p)
    BY <2>2 DEF GlobalEvents
  <2>6. [i \in DOMAIN q |-> Event("global", q[i])] = GlobalEvents(q)
    BY <2>2 DEF GlobalEvents
  <2> HIDE DEF K, M
  <2> QED BY <2>1, <2>3, <2>4, <2>5, <2>6, Zenon DEF M
<1>7. evs \in Seq(Events) /\ Announces(evs, S \cup T)
  BY <1>1, <1>4, <1>5, JoinAnnounces
<1> HIDE DEF evs
<1> QED BY <1>1, <1>6, <1>7

LEMMA NothingSaid ==
    ASSUME WireTypes, NEW c \in Clients, inbox' = inbox
    PROVE  Reply(c, <<>>)
<1>1. inbox[c] \o <<>> = inbox[c]
  BY DEF WireTypes
<1> QED BY <1>1 DEF Reply, WireTypes

\* Orders stay orders of layers whatever is done to one of them.
LEMMA OrdersStay ==
    ASSUME NEW p \in Seq(Seq(Layers)), NEW n \in 1 .. Len(p), NEW q \in Seq(Layers)
    PROVE  [p EXCEPT ![n] = q] \in Seq(Seq(Layers)) /\ Len([p EXCEPT ![n] = q]) = Len(p)
BY ExceptSeq

LEMMA OnlyIn ==
    ASSUME NEW E, NEW q \in Seq(E), NEW T
    PROVE  Only(q, T) \in Seq(E)
BY OnlyEmbeds

-----------------------------------------------------------------------------
(* What the compositor does with a request.                                *)

\* The events that answer a request.
Answering ==
    {<<"get_registry", "global">>, <<"get_registry", "ivi_wm">>, <<"bind_output", "mode">>,
     <<"create_screen", "screen_id">>, <<"get", "layer">>, <<"sync", "done">>,
     <<"surface_get", "surface">>, <<"surface_screenshot", "shot">>}

LayerEvents(n, q) == [i \in 1 .. Len(q) |-> [ev |-> "layer", n |-> n, layer |-> q[i]]]

ObjectsAfter(c, r) ==
    /\ resources' \subseteq resources \cup {<<c, n>> : n \in {k \in screens : r.op = "create_screen"}}
    /\ viewers \subseteq viewers'
    /\ viewers' \subseteq viewers \cup {<<c, n>> : n \in {k \in screens : r.op = "bind_output"}}
    /\ listening' = IF r.op = "get_registry" THEN listening \cup {c} ELSE listening

EventsAfter(c, r, evs) ==
    /\ \A e \in ToSet(evs) : <<r.op, e.ev>> \in Answering
    /\ r.op = "get_registry" => Announces(evs, screens)
    /\ r.op = "bind_output" /\ r.n \in screens =>
          evs = <<ModeOf(head, r.n)>> /\ <<c, r.n>> \in viewers'
    /\ r.op = "bind_output" /\ r.n \notin screens => evs = <<>>
    /\ r.op = "create_screen" /\ r.n \in screens =>
          evs = <<[ev |-> "screen_id", n |-> r.n, id |-> ScreenId(r.n)]>>
    /\ r.op = "create_screen" /\ r.n \notin screens => evs = <<>>
    /\ r.op = "sync" => evs = <<[ev |-> "done"]>>
    /\ r.op = "get" => \E q \in Seq(Layers) : /\ evs = LayerEvents(r.n, q)
                                              /\ sent' = [sent EXCEPT ![c] = q]
    /\ r.op # "get" => sent' = sent
    /\ r.op = "surface_get" => evs = <<[ev |-> "surface", n |-> r.n, size |-> surf]>>
    /\ r.op = "surface_screenshot" => \E ok \in BOOLEAN : evs = <<Answer(r.n, ok)>>

ShotsAfter(c, r) ==
    /\ r.op = "screenshot" => /\ held' = held \cup {[client |-> c, shot |-> r.shot, n |-> r.n]}
                              /\ shots' = shots \cup {<<c, r.shot>>}
                              /\ contexts' = contexts
    /\ r.op # "screenshot" => held' = held /\ (Follow \/ UNCHANGED <<shots, contexts>>)
    /\ surf' = surf

Served(c, r) ==
    /\ Handled(c)
    /\ UNCHANGED <<stage, ctx, call>>
    /\ pend' \in Seq(Seq(Layers)) /\ Len(pend') = Len(pend)
    /\ cur' \in Seq(Seq(Layers)) /\ Len(cur') = Len(cur)
    /\ ObjectsAfter(c, r)
    /\ ShotsAfter(c, r)
    /\ \E evs \in Seq(Events) : Reply(c, evs) /\ EventsAfter(c, r, evs)

HandleFrame ==
    /\ head' = head /\ screens' = screens /\ calls' = calls
    /\ UNCHANGED <<hmi, bkgnd, up, plugs>>

\* Requests that are answered with nothing.
Mute == {"screen_destroy", "clear", "add", "remove", "commit", "screenshot"}

LEMMA MuteServed ==
    ASSUME Typed, NEW c \in Clients, NEW r, r.op \in Mute, inbox' = inbox, sent' = sent
    PROVE  \E evs \in Seq(Events) : Reply(c, evs) /\ EventsAfter(c, r, evs)
<1>1. <<>> \in Seq(Events) /\ ToSet(<<>>) = {}
  BY SetOfNone
<1>2. Reply(c, <<>>)
  BY NothingSaid DEF Typed
<1>3. EventsAfter(c, r, <<>>)
  BY <1>1 DEF EventsAfter, Mute
<1> QED BY <1>1, <1>2, <1>3

LEMMA OneAnswer ==
    ASSUME NEW c, NEW r, NEW e \in Events, Reply(c, <<e>>), EventsAfter(c, r, <<e>>)
    PROVE  \E evs \in Seq(Events) : Reply(c, evs) /\ EventsAfter(c, r, evs)
<1>1. <<e>> \in Seq(Events)
  OBVIOUS
<1> QED BY <1>1

LEMMA ElementOf ==
    ASSUME NEW E, NEW q \in Seq(E), NEW n \in 1 .. Len(q)
    PROVE  q[n] \in E
OBVIOUS

\* A screen has a head and its orders.
LEMMA ScreenHas ==
    ASSUME OutputTypes, NEW n \in screens
    PROVE  /\ n \in 1 .. Len(head) /\ n \in Nat /\ head[n] \in Heads
           /\ n \in 1 .. Len(pend) /\ pend[n] \in Seq(Layers) /\ cur[n] \in Seq(Layers)
<1>1. n \in 1 .. Len(head) /\ Len(pend) = Len(head) /\ Len(cur) = Len(head) /\ Len(head) \in Nat
  BY DEF OutputTypes
<1>2. head[n] \in Heads
  <2>1. head \in Seq(Heads)
    BY DEF OutputTypes
  <2> QED BY <1>1, <2>1, ElementOf
<1>3. PICK L : L = Seq(Layers)
  OBVIOUS
<1>4. pend \in Seq(L) /\ cur \in Seq(L)
  BY <1>3 DEF OutputTypes
<1>5. pend[n] \in L /\ cur[n] \in L
  BY ONLY <1>1, <1>4, ElementOf
<1> QED BY <1>1, <1>2, <1>3, <1>5

LEMMA RequestOn ==
    ASSUME Typed, NEW c \in Clients, NEW r \in Requests, <<c, r.n>> \in resources
    PROVE  r.n \in 1 .. Len(pend) /\ r.n \in screens /\ r.n \in Nat
           /\ pend[r.n] \in Seq(Layers) /\ cur[r.n] \in Seq(Layers)
<1>1. r.n \in screens
  BY DEF Typed, ObjectTypes
<1> QED BY <1>1, ScreenHas DEF Typed

LEMMA OrdersSame ==
    ASSUME Typed, UNCHANGED <<pend, cur>>
    PROVE  /\ pend' \in Seq(Seq(Layers)) /\ Len(pend') = Len(pend)
           /\ cur' \in Seq(Seq(Layers)) /\ Len(cur') = Len(cur)
BY DEF Typed, OutputTypes

LEMMA RegistryServed ==
    ASSUME Typed, Follow, NEW c \in Clients, NEW r \in Requests, get_registry(c, r)
    PROVE  Served(c, r)
<1>1. PICK evs \in Seq(Events) : Reply(c, evs) /\ Announces(evs, screens)
  BY RegistryEvents
<1>2. r.op = "get_registry"
  BY DEF get_registry
<1>3. UNCHANGED <<pend, cur, sent, stage, ctx, call, resources, viewers>> /\ Handled(c)
      /\ listening' = listening \cup {c}
  BY DEF get_registry, orders, library
<1>4. \A e \in ToSet(evs) : e.ev \in {"global", "ivi_wm"}
  <2> SUFFICES ASSUME NEW e \in ToSet(evs) PROVE e.ev \in {"global", "ivi_wm"}
    OBVIOUS
  <2>1. e = [ev |-> "ivi_wm"] \/ \E n \in screens : e = Event("global", n)
    BY <1>1 DEF Announces
  <2> QED BY <2>1, EventDiffers
<1>5. EventsAfter(c, r, evs)
  BY <1>1, <1>2, <1>3, <1>4 DEF EventsAfter, Answering
<1>6. ObjectsAfter(c, r) /\ ShotsAfter(c, r)
  BY <1>2, <1>3 DEF ObjectsAfter, ShotsAfter, Follow
<1> QED BY <1>1, <1>3, <1>5, <1>6, OrdersSame DEF Served

LEMMA BindServed ==
    ASSUME Typed, Follow, NEW c \in Clients, NEW r \in Requests, bind_output(c, r)
    PROVE  Served(c, r)
<1>2. r.op = "bind_output"
  BY DEF bind_output
<1>3. UNCHANGED <<pend, cur, sent, stage, ctx, call, resources, listening>> /\ Handled(c)
  BY DEF bind_output, orders, library
<1>4. CASE r.n \in screens
  <2>1. Reply(c, <<ModeOf(head, r.n)>>) /\ viewers' = viewers \cup {<<c, r.n>>}
    BY <1>4 DEF bind_output
  <2>2. ModeOf(head, r.n) \in Events /\ ModeOf(head, r.n).ev = "mode"
    <3>1. r.n \in Nat /\ head[r.n] \in Heads
      BY <1>4, ScreenHas DEF Typed
    <3>2. PICK b \in BOOLEAN : b <=> head[r.n].output \in Rotated
      OBVIOUS
    <3>3. ModeOf(head, r.n) = [ev |-> "mode", n |-> r.n, turned |-> b, mode |-> head[r.n].mode]
      BY <3>2 DEF ModeOf
    <3> QED BY <3>1, <3>3 DEF Events, Heads
  <2>3. EventsAfter(c, r, <<ModeOf(head, r.n)>>)
    BY <1>2, <1>3, <1>4, <2>1, <2>2, SetOfOne DEF EventsAfter, Answering
  <2>4. \E evs \in Seq(Events) : Reply(c, evs) /\ EventsAfter(c, r, evs)
    BY <2>1, <2>2, <2>3, OneAnswer
  <2>5. ObjectsAfter(c, r) /\ ShotsAfter(c, r)
    BY <1>2, <1>3, <1>4, <2>1 DEF ObjectsAfter, ShotsAfter, Follow
  <2> QED BY <1>3, <2>4, <2>5, OrdersSame DEF Served
<1>5. CASE r.n \notin screens
  <2>1. inbox' = inbox /\ viewers' = viewers
    BY <1>5 DEF bind_output
  <2>2. <<>> \in Seq(Events) /\ ToSet(<<>>) = {} /\ Reply(c, <<>>)
    BY <2>1, SetOfNone, NothingSaid DEF Typed
  <2>3. EventsAfter(c, r, <<>>)
    BY <1>2, <1>3, <1>5, <2>2 DEF EventsAfter
  <2>5. ObjectsAfter(c, r) /\ ShotsAfter(c, r)
    BY <1>2, <1>3, <2>1 DEF ObjectsAfter, ShotsAfter, Follow
  <2> QED BY <1>3, <2>2, <2>3, <2>5, OrdersSame DEF Served
<1> QED BY <1>4, <1>5

LEMMA CreateServed ==
    ASSUME Typed, Follow, NEW c \in Clients, NEW r \in Requests, controller_create_screen(c, r)
    PROVE  Served(c, r)
<1>2. r.op = "create_screen"
  BY DEF controller_create_screen
<1>3. UNCHANGED <<pend, cur, sent, stage, ctx, call, viewers, listening>> /\ Handled(c)
  BY DEF controller_create_screen, orders, library
<1>4. CASE r.n \in screens
  <2> DEFINE e == [ev |-> "screen_id", n |-> r.n, id |-> ScreenId(r.n)]
  <2>1. Reply(c, <<e>>) /\ resources' = resources \cup {<<c, r.n>>}
    BY <1>4 DEF controller_create_screen
  <2>2. e \in Events /\ e.ev = "screen_id"
    <3>1. r.n \in 1 .. Len(head) /\ r.n \in Nat
      BY <1>4, ScreenHas DEF Typed
    <3>2. ScreenId(r.n) \in Nat
      BY <3>1, ScreenIdNat DEF Typed
    <3> QED BY <3>1, <3>2 DEF Events
  <2>3. EventsAfter(c, r, <<e>>)
    BY <1>2, <1>3, <1>4, <2>1, <2>2, SetOfOne DEF EventsAfter, Answering
  <2>4. \E evs \in Seq(Events) : Reply(c, evs) /\ EventsAfter(c, r, evs)
    <3> HIDE DEF e
    <3> QED BY <2>1, <2>2, <2>3, OneAnswer
  <2>5. ObjectsAfter(c, r) /\ ShotsAfter(c, r)
    BY <1>2, <1>3, <1>4, <2>1 DEF ObjectsAfter, ShotsAfter, Follow
  <2> QED BY <1>3, <2>4, <2>5, OrdersSame DEF Served
<1>5. CASE r.n \notin screens
  <2>1. inbox' = inbox /\ resources' = resources
    BY <1>5 DEF controller_create_screen
  <2>2. <<>> \in Seq(Events) /\ ToSet(<<>>) = {} /\ Reply(c, <<>>)
    BY <2>1, SetOfNone, NothingSaid DEF Typed
  <2>3. EventsAfter(c, r, <<>>)
    BY <1>2, <1>3, <1>5, <2>2 DEF EventsAfter
  <2>5. ObjectsAfter(c, r) /\ ShotsAfter(c, r)
    BY <1>2, <1>3, <2>1 DEF ObjectsAfter, ShotsAfter, Follow
  <2> QED BY <1>3, <2>2, <2>3, <2>5, OrdersSame DEF Served
<1> QED BY <1>4, <1>5

LEMMA OrdersServed ==
    ASSUME Typed, Follow, NEW c \in Clients, NEW r \in Requests,
           \/ controller_screen_clear(c, r) \/ controller_screen_add_layer(c, r)
           \/ controller_screen_remove_layer(c, r) \/ controller_commit_changes(c, r)
           \/ controller_screen_destroy(c, r)
    PROVE  Served(c, r)
<1>1. r.op \in {"clear", "add", "remove", "commit", "screen_destroy"}
  BY DEF controller_screen_clear, controller_screen_add_layer, controller_screen_remove_layer,
     controller_commit_changes, controller_screen_destroy, OnScreen
<1>2. /\ Handled(c) /\ UNCHANGED <<stage, ctx, call, inbox, sent, viewers, listening>>
      /\ resources' \subseteq resources
  BY DEF controller_screen_clear, controller_screen_add_layer, controller_screen_remove_layer,
     controller_commit_changes, controller_screen_destroy, OnScreen, orders, library, objects
<1>3. \E evs \in Seq(Events) : Reply(c, evs) /\ EventsAfter(c, r, evs)
  BY <1>1, <1>2, MuteServed DEF Mute
<1>4. ObjectsAfter(c, r) /\ ShotsAfter(c, r)
  BY <1>1, <1>2 DEF ObjectsAfter, ShotsAfter, Follow
<1>5. pend \in Seq(Seq(Layers)) /\ cur \in Seq(Seq(Layers)) /\ Len(cur) = Len(pend)
  BY DEF Typed, OutputTypes
<1>6. /\ pend' \in Seq(Seq(Layers)) /\ Len(pend') = Len(pend)
      /\ cur' \in Seq(Seq(Layers)) /\ Len(cur') = Len(cur)
  <2>1. CASE controller_commit_changes(c, r)
    BY <2>1, <1>5 DEF controller_commit_changes
  <2>2. CASE controller_screen_destroy(c, r)
    BY <2>2, <1>5 DEF controller_screen_destroy, orders
  <2>3. ASSUME <<c, r.n>> \in resources, NEW q \in Seq(Layers), pend' = [pend EXCEPT ![r.n] = q], cur' = cur
        PROVE  /\ pend' \in Seq(Seq(Layers)) /\ Len(pend') = Len(pend)
               /\ cur' \in Seq(Seq(Layers)) /\ Len(cur') = Len(cur)
    <3>1. r.n \in 1 .. Len(pend)
      BY <2>3, RequestOn, <1>5
    <3> QED BY <2>3, <3>1, <1>5, OrdersStay
  <2>4. CASE controller_screen_clear(c, r)
    <3>1. <<c, r.n>> \in resources /\ pend' = [pend EXCEPT ![r.n] = <<>>] /\ cur' = cur
      BY <2>4 DEF controller_screen_clear, OnScreen
    <3>2. <<>> \in Seq(Layers)
      OBVIOUS
    <3> QED BY <2>3, <3>1, <3>2
  <2>5. CASE controller_screen_remove_layer(c, r)
    <3>1. <<c, r.n>> \in resources /\ pend' = [pend EXCEPT ![r.n] = Only(pend[r.n], Layers \ {r.layer})] /\ cur' = cur
      BY <2>5 DEF controller_screen_remove_layer, OnScreen
    <3>2. Only(pend[r.n], Layers \ {r.layer}) \in Seq(Layers)
      BY <3>1, RequestOn, OnlyIn
    <3> QED BY <2>3, <3>1, <3>2
  <2>6. CASE controller_screen_add_layer(c, r)
    <3>1. <<c, r.n>> \in resources /\ cur' = cur
      BY <2>6 DEF controller_screen_add_layer, OnScreen
    <3>2. pend[r.n] \in Seq(Layers)
      BY <3>1, RequestOn
    <3>3. CASE r.layer \in Layers
      <4>1. pend' = [pend EXCEPT ![r.n] = Append(Only(pend[r.n], Layers \ {r.layer}), r.layer)]
        BY <2>6, <3>3 DEF controller_screen_add_layer
      <4>2. Only(pend[r.n], Layers \ {r.layer}) \in Seq(Layers)
        BY <3>2, OnlyIn
      <4>3. Append(Only(pend[r.n], Layers \ {r.layer}), r.layer) \in Seq(Layers)
        BY <3>3, <4>2
      <4> QED BY <2>3, <3>1, <4>1, <4>3
    <3>4. CASE r.layer \notin Layers
      <4>1. pend' = [pend EXCEPT ![r.n] = pend[r.n]]
        BY <2>6, <3>4 DEF controller_screen_add_layer
      <4> QED BY <2>3, <3>1, <3>2, <4>1
    <3> QED BY <3>3, <3>4
  <2> QED BY <2>1, <2>2, <2>4, <2>5, <2>6
<1> QED BY <1>2, <1>3, <1>4, <1>6 DEF Served

LEMMA LayerEventsTyped ==
    ASSUME NEW n \in Nat, NEW q \in Seq(Layers)
    PROVE  /\ LayerEvents(n, q) \in Seq(Events)
           /\ \A e \in ToSet(LayerEvents(n, q)) : e.ev = "layer"
<1> DEFINE evs == LayerEvents(n, q)
<1>1. Len(q) \in Nat /\ \A i \in 1 .. Len(q) : q[i] \in Layers
  OBVIOUS
<1>2. \A i \in 1 .. Len(q) : [ev |-> "layer", n |-> n, layer |-> q[i]] \in Events
  BY <1>1 DEF Events
<1>3. evs \in Seq(Events)
  BY <1>1, <1>2 DEF LayerEvents
<1>4. DOMAIN evs = 1 .. Len(q) /\ \A i \in 1 .. Len(q) : evs[i].ev = "layer"
  BY DEF LayerEvents
<1>5. \A e \in ToSet(evs) : e.ev = "layer"
  BY <1>4 DEF ToSet
<1> QED BY <1>3, <1>5

LEMMA GetServed ==
    ASSUME Typed, Follow, NEW c \in Clients, NEW r \in Requests, controller_screen_get(c, r)
    PROVE  Served(c, r)
<1>1. r.op = "get" /\ <<c, r.n>> \in resources
  BY DEF controller_screen_get, OnScreen
<1>2. Handled(c) /\ UNCHANGED <<stage, ctx, call, viewers, listening, resources, pend, cur>>
  BY DEF controller_screen_get, OnScreen, library
<1>3. cur[r.n] \in Seq(Layers) /\ r.n \in Nat
  BY <1>1, RequestOn
<1>4. PICK q \in Seq(Layers) : q = cur[r.n]
  BY <1>3
<1>5. Reply(c, LayerEvents(r.n, q)) /\ sent' = [sent EXCEPT ![c] = q]
  <2>1. Reply(c, [i \in DOMAIN q |-> [ev |-> "layer", n |-> r.n, layer |-> q[i]]])
        /\ sent' = [sent EXCEPT ![c] = q]
    BY <1>4, Zenon DEF controller_screen_get
  <2>2. DOMAIN q = 1 .. Len(q)
    OBVIOUS
  <2> QED BY <2>1, <2>2 DEF LayerEvents
<1>6. LayerEvents(r.n, q) \in Seq(Events) /\ \A e \in ToSet(LayerEvents(r.n, q)) : e.ev = "layer"
  BY <1>3, LayerEventsTyped
<1>7. PICK evs : evs = LayerEvents(r.n, q)
  OBVIOUS
<1>8. EventsAfter(c, r, evs)
  BY <1>1, <1>5, <1>6, <1>7 DEF EventsAfter, Answering
<1>9. ObjectsAfter(c, r) /\ ShotsAfter(c, r)
  BY <1>1, <1>2 DEF ObjectsAfter, ShotsAfter, Follow
<1>10. \E e \in Seq(Events) : Reply(c, e) /\ EventsAfter(c, r, e)
  BY <1>5, <1>6, <1>7, <1>8
<1> QED BY <1>2, <1>9, <1>10, OrdersSame DEF Served

LEMMA SyncServed ==
    ASSUME Typed, Follow, NEW c \in Clients, NEW r \in Requests, sync(c, r)
    PROVE  Served(c, r)
<1> DEFINE e == [ev |-> "done"]
<1>1. r.op = "sync" /\ Reply(c, <<e>>)
  BY DEF sync
<1>2. /\ Handled(c)
      /\ UNCHANGED <<stage, ctx, call, viewers, listening, resources, pend, cur, sent>>
  BY DEF sync, orders, objects, library
<1>3. e \in Events /\ e.ev = "done"
  BY DEF Events
<1>4. EventsAfter(c, r, <<e>>)
  BY <1>1, <1>2, <1>3, SetOfOne DEF EventsAfter, Answering
<1>5. \E evs \in Seq(Events) : Reply(c, evs) /\ EventsAfter(c, r, evs)
  <2> HIDE DEF e
  <2> QED BY <1>1, <1>3, <1>4, OneAnswer
<1>6. ObjectsAfter(c, r) /\ ShotsAfter(c, r)
  BY <1>1, <1>2 DEF ObjectsAfter, ShotsAfter, Follow
<1> QED BY <1>2, <1>5, <1>6, OrdersSame DEF Served

LEMMA ShotServed ==
    ASSUME Typed, NEW c \in Clients, NEW r \in Requests, controller_screen_screenshot(c, r)
    PROVE  Served(c, r)
<1>1. r.op = "screenshot"
  BY DEF controller_screen_screenshot, OnScreen
<1>2. /\ Handled(c)
      /\ UNCHANGED <<stage, ctx, call, viewers, listening, resources, pend, cur, sent, inbox>>
  BY DEF controller_screen_screenshot, OnScreen, orders, library
<1>3. \E evs \in Seq(Events) : Reply(c, evs) /\ EventsAfter(c, r, evs)
  BY <1>1, <1>2, MuteServed DEF Mute
<1>4. ObjectsAfter(c, r) /\ ShotsAfter(c, r)
  BY <1>1, <1>2 DEF ObjectsAfter, ShotsAfter, controller_screen_screenshot
<1> QED BY <1>2, <1>3, <1>4, OrdersSame DEF Served

LEMMA SurfaceServed ==
    ASSUME Typed, NEW c \in Clients, NEW r \in Requests, surface_get(c, r)
    PROVE  Served(c, r)
<1> DEFINE e == [ev |-> "surface", n |-> r.n, size |-> surf]
<1>1. r.op = "surface_get" /\ Reply(c, <<e>>) /\ UNCHANGED shotVars
  BY DEF surface_get
<1>2. /\ Handled(c)
      /\ UNCHANGED <<stage, ctx, call, viewers, listening, resources, pend, cur, sent>>
  BY DEF surface_get, orders, objects, library
<1>3. e \in Events /\ e.ev = "surface"
  <2>1. r.n \in Nat /\ surf \in Sizes \cup {0, Nothing}
    BY <1>1 DEF Requests, Typed, ShotTypes
  <2> QED BY <2>1 DEF Events
<1>4. EventsAfter(c, r, <<e>>)
  BY <1>1, <1>2, <1>3, SetOfOne DEF EventsAfter, Answering
<1>5. \E evs \in Seq(Events) : Reply(c, evs) /\ EventsAfter(c, r, evs)
  <2> HIDE DEF e
  <2> QED BY <1>1, <1>3, <1>4, OneAnswer
<1>6. ObjectsAfter(c, r) /\ ShotsAfter(c, r)
  BY <1>1, <1>2 DEF ObjectsAfter, ShotsAfter, shotVars
<1> QED BY <1>2, <1>5, <1>6, OrdersSame DEF Served

LEMMA SurfaceShotServed ==
    ASSUME Typed, NEW c \in Clients, NEW r \in Requests, controller_surface_screenshot(c, r)
    PROVE  Served(c, r)
<1>1. r.op = "surface_screenshot" /\ UNCHANGED shotVars
  BY DEF controller_surface_screenshot
<1>2. /\ Handled(c)
      /\ UNCHANGED <<stage, ctx, call, viewers, listening, resources, pend, cur, sent>>
  BY DEF controller_surface_screenshot, orders, objects, library
<1>3. PICK ok \in BOOLEAN : Reply(c, <<Answer(r.n, ok)>>)
  <2>1. PICK q \in SurfaceAnswers(r.n, r.size) : Reply(c, q)
    BY DEF controller_surface_screenshot
  <2>2. \E ok \in BOOLEAN : q = <<Answer(r.n, ok)>>
    BY <2>1 DEF SurfaceAnswers
  <2> QED BY <2>1, <2>2
<1>4. Answer(r.n, ok) \in Events /\ Answer(r.n, ok).ev = "shot"
  <2>1. r.n \in Nat
    BY <1>1 DEF Requests
  <2> QED BY <2>1 DEF Events, Answer
<1>5. EventsAfter(c, r, <<Answer(r.n, ok)>>)
  BY <1>1, <1>2, <1>4, SetOfOne DEF EventsAfter, Answering
<1>6. \E evs \in Seq(Events) : Reply(c, evs) /\ EventsAfter(c, r, evs)
  BY <1>3, <1>4, <1>5, OneAnswer
<1>7. ObjectsAfter(c, r) /\ ShotsAfter(c, r)
  BY <1>1, <1>2 DEF ObjectsAfter, ShotsAfter, shotVars
<1> QED BY <1>2, <1>6, <1>7, OrdersSame DEF Served

LEMMA HandleSays ==
    ASSUME Typed, NEW c \in Clients, Handle(c), NEW r, r = Head(wire[c])
    PROVE  /\ HandleFrame /\ wire[c] # <<>> /\ r \in Requests
           /\ (Lost(c) /\ Follow) \/ Served(c, r)
<1>1. HandleFrame /\ wire[c] # <<>>
  BY DEF Handle, HandleShotRequest, HandleRequest, HandleFrame, outputs, bounds
<1>2. r \in Requests
  BY <1>1, TailAt DEF Typed, WireTypes
<1>3. CASE HandleShotRequest(c)
  <2>1. \/ controller_screen_screenshot(c, r) \/ surface_get(c, r)
        \/ controller_surface_screenshot(c, r)
    BY <1>3 DEF HandleShotRequest
  <2> QED BY <1>1, <1>2, <2>1, ShotServed, SurfaceServed, SurfaceShotServed
<1>4. CASE HandleRequest(c) /\ Follow
  <2>1. \/ InvalidObject(c, r)
        \/ wl_display_disconnect(c, r)
        \/ get_registry(c, r)
        \/ bind_output(c, r)
        \/ controller_create_screen(c, r)
        \/ controller_screen_destroy(c, r)
        \/ controller_screen_clear(c, r)
        \/ controller_screen_add_layer(c, r)
        \/ controller_screen_remove_layer(c, r)
        \/ controller_screen_get(c, r)
        \/ controller_commit_changes(c, r)
        \/ sync(c, r)
    BY <1>4 DEF HandleRequest
  <2>2. CASE InvalidObject(c, r) \/ wl_display_disconnect(c, r)
    BY <1>1, <1>2, <1>4, <2>2 DEF InvalidObject, wl_display_disconnect
  <2>3. CASE get_registry(c, r) \/ bind_output(c, r) \/ controller_create_screen(c, r)
    BY <1>1, <1>2, <1>4, <2>3, RegistryServed, BindServed, CreateServed
  <2>4. CASE controller_screen_get(c, r) \/ sync(c, r)
    BY <1>1, <1>2, <1>4, <2>4, GetServed, SyncServed
  <2>5. CASE \/ controller_screen_clear(c, r) \/ controller_screen_add_layer(c, r)
             \/ controller_screen_remove_layer(c, r) \/ controller_commit_changes(c, r)
             \/ controller_screen_destroy(c, r)
    BY <1>1, <1>2, <1>4, <2>5, OrdersServed
  <2> QED BY <2>1, <2>2, <2>3, <2>4, <2>5
<1> QED BY <1>3, <1>4 DEF Handle

-----------------------------------------------------------------------------
(* What a client does with an event.                                       *)

\* C is D but for the contexts of n.
Changed(D, C, n) ==
    /\ Len(C) = Len(D)
    /\ \A i \in 1 .. Len(D) : C[i].n = D[i].n /\ (D[i].n # n => C[i] = D[i])

Resized(D, C, e) ==
    /\ Changed(D, C, e.n)
    /\ \A i \in 1 .. Len(D) : D[i].n = e.n =>
          C[i] = [D[i] EXCEPT !.size = IF e.turned THEN <<e.mode[2], e.mode[1]>> ELSE e.mode]
Named(D, C, e) ==
    Changed(D, C, e.n) /\ \A i \in 1 .. Len(D) : D[i].n = e.n => C[i] = [D[i] EXCEPT !.id = e.id, !.named = TRUE]
Layered(D, C, e) ==
    /\ Changed(D, C, e.n)
    /\ \A i \in 1 .. Len(D) : D[i].n = e.n => C[i] = [D[i] EXCEPT !.order = Append(@, e.layer)]
Copied(D, C, n) ==
    Changed(D, C, n) /\ \A i \in 1 .. Len(D) : D[i].n = n => C[i] = [D[i] EXCEPT !.order = <<>>]
Made(D, C) ==
    Len(C) = Len(D) /\ \A i \in 1 .. Len(D) : C[i] = [D[i] EXCEPT !.made = TRUE]

\* The client sends reqs and has the contexts C, waits for k and is at st.
Receives(c, e, reqs, C, k, st) ==
    /\ e.ev = "global" =>
          /\ C = <<NewContext(e.n, stage[c] # "globals")>> \o ctx[c]
          /\ ToSet(reqs) \subseteq {Request("bind_output", e.n), Request("create_screen", e.n)}
          /\ Request("bind_output", e.n) \in ToSet(reqs)
          /\ stage[c] # "globals" => Request("create_screen", e.n) \in ToSet(reqs)
          /\ k = call[c] /\ st = stage[c]
    /\ e.ev = "ivi_wm" => reqs = <<>> /\ C = ctx[c] /\ k = call[c] /\ st = "bound"
    /\ e.ev = "gone" =>
          /\ \A r \in ToSet(reqs) : r = Request("screen_destroy", e.n)
          /\ \A x : x \in ToSet(C) <=> x \in ToSet(ctx[c]) /\ x.n # e.n
          /\ \A X : Once(ctx[c], X) => Once(C, X)
          /\ k = call[c] /\ st = stage[c]
    /\ e.ev = "mode" => reqs = <<>> /\ Resized(ctx[c], C, e) /\ k = call[c] /\ st = stage[c]
    /\ e.ev = "screen_id" => reqs = <<>> /\ Named(ctx[c], C, e) /\ k = call[c] /\ st = stage[c]
    /\ e.ev = "layer" => reqs = <<>> /\ Layered(ctx[c], C, e) /\ k = call[c] /\ st = stage[c]
    /\ e.ev = "done" =>
          \/ /\ stage[c] = "bound" /\ st = "ids" /\ k = call[c] /\ Made(ctx[c], C)
             /\ \E q \in Seq(Requests) :
                   /\ reqs = q \o <<[op |-> "sync"]>>
                   /\ \A r \in ToSet(q) : r.op = "create_screen"
                   /\ \A x \in ToSet(ctx[c]) :
                         x.made # TRUE => Request("create_screen", x.n) \in ToSet(q)
          \/ stage[c] = "ids" /\ st = "on" /\ k = call[c] /\ C = ctx[c] /\ reqs = <<>>
          \/ /\ call[c] # Idle /\ st = stage[c] /\ k = Idle /\ reqs = <<>>
             /\ IF call[c].op = "layers" THEN Copied(ctx[c], C, call[c].n) ELSE C = ctx[c]
    /\ e.ev = "surface" =>
          /\ C = ctx[c] /\ st = stage[c]
          /\ \/ k = Idle /\ reqs = <<>> /\ contexts' = contexts
             \/ /\ k \in {Idle, Request("shot", e.n)} /\ e.size \in Sizes
                /\ reqs = <<[op |-> "surface_screenshot", n |-> e.n, size |-> e.size]>>
                /\ contexts' = contexts \cup {<<c, e.n>>}
    /\ e.ev = "shot" =>
          /\ C = ctx[c] /\ st = stage[c] /\ reqs = <<>>
          /\ k = IF call[c] = Request("shot", e.n) THEN Idle ELSE call[c]
          /\ contexts' = contexts \ {<<c, e.n>>}
    /\ e.ev \notin {"surface", "shot"} => Follow
    /\ e.ev \in {"surface", "shot"} => shots' = shots

Received(c, e, reqs, C, k, st) ==
    /\ Send(c, reqs)
    /\ ctx' = [ctx EXCEPT ![c] = C]
    /\ call' = [call EXCEPT ![c] = k]
    /\ stage' = [stage EXCEPT ![c] = st]
    /\ Receives(c, e, reqs, C, k, st)

ReceiveSays(c, e) ==
    \E reqs \in Seq(Requests), C \in Seq(ScreenContexts), k \in Calls, st \in Stages :
        Received(c, e, reqs, C, k, st)

ReceiveFrame(c) ==
    /\ inbox[c] # <<>> /\ stage[c] # "closing"
    /\ inbox' = [inbox EXCEPT ![c] = Tail(@)]
    /\ UNCHANGED <<head, screens, hmi, bkgnd, up, pend, cur, sent, resources, viewers, listening,
                   calls, plugs, surf, held>>

LEMMA NothingSent ==
    ASSUME Typed, NEW c \in Clients
    PROVE  /\ wire' = wire => Send(c, <<>>)
           /\ ctx' = ctx => ctx' = [ctx EXCEPT ![c] = ctx[c]]
           /\ call' = call => call' = [call EXCEPT ![c] = call[c]]
           /\ stage' = stage => stage' = [stage EXCEPT ![c] = stage[c]]
           /\ <<>> \in Seq(Requests)
<1>1. wire[c] \o <<>> = wire[c]
  BY DEF Typed, WireTypes
<1>2. /\ wire = [wire EXCEPT ![c] = wire[c]]
      /\ ctx = [ctx EXCEPT ![c] = ctx[c]] /\ call = [call EXCEPT ![c] = call[c]]
      /\ stage = [stage EXCEPT ![c] = stage[c]]
  BY DEF Typed, WireTypes, ClientTypes
<1>3. <<>> \in Seq(Requests)
  OBVIOUS
<1> QED BY <1>1, <1>2, <1>3 DEF Send

LEMMA ClientHas ==
    ASSUME Typed, NEW c \in Clients
    PROVE  /\ wire[c] \in Seq(Requests) /\ inbox[c] \in Seq(Events)
           /\ ctx[c] \in Seq(ScreenContexts) /\ call[c] \in Calls /\ stage[c] \in Stages
BY DEF Typed, WireTypes, ClientTypes

LEMMA EventFields ==
    ASSUME NEW e \in Events
    PROVE  /\ e.ev \in {"global", "gone", "ivi_wm", "done", "mode", "screen_id", "layer", "shot",
                        "surface"}
           /\ e.ev \notin {"ivi_wm", "done"} => e.n \in Nat
           /\ e.ev = "mode" => e.mode \in Modes /\ e.turned \in BOOLEAN
           /\ e.ev = "screen_id" => e.id \in Nat
           /\ e.ev = "layer" => e.layer \in Layers
           /\ e.ev = "surface" => e.size \in Sizes \cup {0, Nothing}
           /\ e.ev = "shot" => e.ok \in BOOLEAN
           /\ e.ev \in {"global", "gone"} => e = Event(e.ev, e.n)
           /\ e.ev \in {"ivi_wm", "done"} => e = [ev |-> e.ev]
<1> DEFINE E1 == [ev : {"global", "gone"}, n : Nat]
           E2 == [ev : {"ivi_wm", "done"}]
           E3 == [ev : {"mode"}, n : Nat, turned : BOOLEAN, mode : Modes]
           E4 == [ev : {"screen_id"}, n : Nat, id : Nat]
           E5 == [ev : {"layer"}, n : Nat, layer : Layers]
           E6 == [ev : {"shot"}, n : Nat, ok : BOOLEAN]
           E7 == [ev : {"surface"}, n : Nat, size : Sizes \cup {0, Nothing}]
<1>1. e \in E1 \/ e \in E2 \/ e \in E3 \/ e \in E4 \/ e \in E5 \/ e \in E6 \/ e \in E7
  BY DEF Events
<1>2. CASE e \in E1
  BY <1>2 DEF Event
<1>3. CASE e \in E2
  BY <1>3
<1>4. CASE e \in E3 \/ e \in E4 \/ e \in E5
  BY <1>4
<1>5. CASE e \in E6 \/ e \in E7
  BY <1>5
<1> QED BY <1>1, <1>2, <1>3, <1>4, <1>5

LEMMA RequestTypes ==
    ASSUME NEW n \in Nat
    PROVE  /\ Request("bind_output", n) \in Requests /\ Request("create_screen", n) \in Requests
           /\ Request("screen_destroy", n) \in Requests /\ Request("get", n) \in Requests
           /\ Request("surface_get", n) \in Requests
           /\ [op |-> "sync"] \in Requests /\ [op |-> "commit"] \in Requests
           /\ [op |-> "get_registry"] \in Requests /\ [op |-> "disconnect"] \in Requests
           /\ Request("layers", n) \in Calls /\ Request("shot", n) \in Calls
           /\ Request("screens", n) \in Calls /\ Request("commit", n) \in Calls
           /\ Request("async", n) \in Calls /\ Request("sized", n) \in Calls
           /\ Idle \in Calls
BY DEF Request, Requests, Calls, Idle

LEMMA GlobalReceived ==
    ASSUME Typed, Follow, NEW c \in Clients, NEW e \in Events, registry_handle_control(c, e)
    PROVE  ReceiveSays(c, e)
<1>1. e.ev = "global" /\ e.n \in Nat
  BY EventFields DEF registry_handle_control
<1>2. PICK bound \in BOOLEAN : bound = (stage[c] # "globals")
  OBVIOUS
<1>3. PICK C : C = <<NewContext(e.n, bound)>> \o ctx[c]
  OBVIOUS
<1>4. PICK reqs : reqs = <<Request("bind_output", e.n)>> \o
                  (IF bound THEN <<Request("create_screen", e.n)>> ELSE <<>>)
  OBVIOUS
<1>5. /\ ctx' = [ctx EXCEPT ![c] = C] /\ Send(c, reqs)
      /\ call' = call /\ stage' = stage
  BY <1>2, <1>3, <1>4, Zenon DEF registry_handle_control
<1>6. C \in Seq(ScreenContexts)
  <2>1. NewContext(e.n, bound) \in ScreenContexts
    <3>1. <<>> \in Seq(Layers)
      OBVIOUS
    <3> QED BY <1>1, <3>1 DEF NewContext, ScreenContexts
  <2>2. PICK x \in ScreenContexts : x = NewContext(e.n, bound)
    BY <2>1
  <2> QED BY <1>3, <2>2, ClientHas
<1>7. PICK a \in Requests : a = Request("bind_output", e.n)
  BY <1>1, RequestTypes
<1>8. PICK b \in Requests : b = Request("create_screen", e.n)
  BY <1>1, RequestTypes
<1>9. /\ reqs \in Seq(Requests) /\ ToSet(reqs) \subseteq {a, b}
      /\ a \in ToSet(reqs) /\ (bound => b \in ToSet(reqs))
  <2>1. CASE bound
    <3>1. reqs = <<a>> \o <<b>>
      BY <2>1, <1>4, <1>7, <1>8, Zenon
    <3>0. <<a>> \in Seq(Requests) /\ <<b>> \in Seq(Requests)
      OBVIOUS
    <3>2. PICK s \in Seq(Requests) : s = <<a>>
      BY <3>0
    <3>3. PICK t \in Seq(Requests) : t = <<b>>
      BY <3>0
    <3>4. ToSet(s) = {a} /\ ToSet(t) = {b}
      BY <3>2, <3>3, SetOfOne
    <3>5. s \o t \in Seq(Requests) /\ ToSet(s \o t) = ToSet(s) \cup ToSet(t)
      BY SetOfJoin
    <3>6. reqs = s \o t
      BY <3>1, <3>2, <3>3, Zenon
    <3> QED BY <3>4, <3>5, <3>6
  <2>2. CASE ~bound
    <3>0. <<a>> \in Seq(Requests)
      OBVIOUS
    <3>1. reqs = <<a>>
      <4>1. reqs = <<a>> \o <<>>
        BY <2>2, <1>4, <1>7, Zenon
      <4> QED BY <3>0, <4>1, ConcatEmptySeq
    <3> QED BY <3>0, <3>1, <2>2, SetOfOne
  <2> QED BY <2>1, <2>2
<1>10. Receives(c, e, reqs, C, call[c], stage[c])
  <2>1. C = <<NewContext(e.n, stage[c] # "globals")>> \o ctx[c]
    BY <1>2, <1>3, Zenon
  <2>2. stage[c] # "globals" => b \in ToSet(reqs)
    BY <1>2, <1>9
  <2> QED BY <1>1, <1>7, <1>8, <1>9, <2>1, <2>2 DEF Receives
<1>11. /\ call' = [call EXCEPT ![c] = call[c]] /\ stage' = [stage EXCEPT ![c] = stage[c]]
  BY <1>5, NothingSent
<1>12. Received(c, e, reqs, C, call[c], stage[c])
  BY <1>5, <1>10, <1>11 DEF Received
<1> QED BY <1>6, <1>9, <1>12, ClientHas DEF ReceiveSays

LEMMA WmReceived ==
    ASSUME Typed, Follow, NEW c \in Clients, NEW e \in Events, registry_handle_control_wm(c, e)
    PROVE  ReceiveSays(c, e)
<1>1. e.ev = "ivi_wm" /\ stage' = [stage EXCEPT ![c] = "bound"] /\ UNCHANGED <<wire, ctx, call>>
  BY DEF registry_handle_control_wm
<1>2. Receives(c, e, <<>>, ctx[c], call[c], "bound")
  BY <1>1 DEF Receives
<1>3. Received(c, e, <<>>, ctx[c], call[c], "bound")
  BY <1>1, <1>2, NothingSent DEF Received
<1>4. "bound" \in Stages /\ <<>> \in Seq(Requests)
  BY NothingSent DEF Stages
<1> QED BY <1>3, <1>4, ClientHas DEF ReceiveSays

LEMMA GoneReceived ==
    ASSUME Typed, Follow, NEW c \in Clients, NEW e \in Events, registry_handle_control_remove(c, e)
    PROVE  ReceiveSays(c, e)
<1>1. e.ev = "gone" /\ e.n \in Nat /\ UNCHANGED <<stage, call>>
  BY EventFields DEF registry_handle_control_remove
<1>2. PICK D \in Seq(ScreenContexts) : D = ctx[c]
  BY ClientHas
<1>3. PICK this : this = {x \in ToSet(D) : x.n = e.n}
  OBVIOUS
<1>4. PICK made : made = Only(D, {x \in this : x.made})
  OBVIOUS
<1>5. PICK C : C = Only(D, ToSet(D) \ this)
  OBVIOUS
<1>6. PICK reqs : reqs = [i \in DOMAIN made |-> Request("screen_destroy", e.n)]
  OBVIOUS
<1>7. Send(c, reqs) /\ ctx' = [ctx EXCEPT ![c] = C]
  BY <1>2, <1>3, <1>4, <1>5, <1>6, Zenon DEF registry_handle_control_remove
<1>8. C \in Seq(ScreenContexts) /\ ToSet(C) = ToSet(D) \cap (ToSet(D) \ this)
  BY <1>5, SetOfOnly
<1>9. \A X : Once(D, X) => Once(C, X)
  BY <1>5, OnceOnly
<1>10. made \in Seq(ScreenContexts)
  BY <1>4, OnlyIn
<1>11. PICK a \in Requests : a = Request("screen_destroy", e.n)
  BY <1>1, RequestTypes
<1>12. reqs \in Seq(Requests) /\ \A r \in ToSet(reqs) : r = a
  <2>1. DOMAIN made = 1 .. Len(made) /\ Len(made) \in Nat
    BY <1>10
  <2>2. reqs = [i \in 1 .. Len(made) |-> a]
    BY <1>6, <1>11, <2>1
  <2>3. DOMAIN reqs = 1 .. Len(made) /\ \A i \in 1 .. Len(made) : reqs[i] = a
    BY <2>2
  <2>4. reqs \in Seq(Requests)
    BY <2>1, <2>2
  <2> QED BY <2>3, <2>4 DEF ToSet
<1>13. \A x : x \in ToSet(C) <=> x \in ToSet(D) /\ x.n # e.n
  BY <1>3, <1>8
<1>14. Receives(c, e, reqs, C, call[c], stage[c])
  BY <1>1, <1>2, <1>9, <1>11, <1>12, <1>13 DEF Receives
<1>15. Received(c, e, reqs, C, call[c], stage[c])
  BY <1>1, <1>7, <1>14, NothingSent DEF Received
<1> QED BY <1>8, <1>12, <1>15, ClientHas DEF ReceiveSays

LEMMA ChangedReceived ==
    ASSUME Typed, Follow, NEW c \in Clients, NEW e \in Events,
           \/ output_listener_mode(c, e) \/ wm_screen_listener_screen_id(c, e)
           \/ wm_screen_listener_layer_added(c, e)
    PROVE  ReceiveSays(c, e)
<1>1. PICK D \in Seq(ScreenContexts) : D = ctx[c]
  BY ClientHas
<1>2. Len(D) \in Nat /\ DOMAIN D = 1 .. Len(D) /\ \A i \in 1 .. Len(D) : D[i] \in ScreenContexts
  OBVIOUS
<1>3. UNCHANGED <<stage, wire, call>> /\ e.n \in Nat
  BY EventFields DEF output_listener_mode, wm_screen_listener_screen_id, wm_screen_listener_layer_added
<1>4. ASSUME NEW C \in Seq(ScreenContexts), ctx' = [ctx EXCEPT ![c] = C],
             Receives(c, e, <<>>, C, call[c], stage[c])
      PROVE  ReceiveSays(c, e)
  <2>1. Received(c, e, <<>>, C, call[c], stage[c])
    BY <1>3, <1>4, NothingSent DEF Received
  <2> QED BY <1>4, <2>1, NothingSent, ClientHas DEF ReceiveSays
<1>5. CASE output_listener_mode(c, e)
  <2>1. e.ev = "mode" /\ e.mode \in Modes
    BY <1>5, EventFields DEF output_listener_mode
  <2>2. PICK size : size = IF e.turned THEN <<e.mode[2], e.mode[1]>> ELSE e.mode
    OBVIOUS
  <2>3. size \in Nat \X Nat
    <3>1. e.mode \in Nat \X Nat
      BY <2>1, ScreensAssumption
    <3> QED BY <2>2, <3>1
  <2>4. PICK C : C = [i \in 1 .. Len(D) |-> IF D[i].n = e.n THEN [D[i] EXCEPT !.size = size] ELSE D[i]]
    OBVIOUS
  <2>5. ctx' = [ctx EXCEPT ![c] = C]
    <3>1. ctx' = [ctx EXCEPT ![c] = [i \in DOMAIN D |->
                      IF D[i].n = e.n THEN [D[i] EXCEPT !.size = size] ELSE D[i]]]
      BY <1>5, <1>1, <2>2, Zenon DEF output_listener_mode, Change
    <3> QED BY <3>1, <2>4, <1>2, Zenon
  <2>6. \A i \in 1 .. Len(D) : C[i] = IF D[i].n = e.n THEN [D[i] EXCEPT !.size = size] ELSE D[i]
    BY <2>4
  <2>7. \A i \in 1 .. Len(D) : C[i] \in ScreenContexts /\ C[i].n = D[i].n
    BY <2>6, <2>3, <1>2 DEF ScreenContexts
  <2>8. C \in Seq(ScreenContexts) /\ Len(C) = Len(D)
    <3>1. C \in [1 .. Len(D) -> ScreenContexts]
      BY <2>4, <2>7
    <3> QED BY <3>1, <1>2
  <2>9. Resized(D, C, e)
    BY <2>2, <2>6, <2>7, <2>8 DEF Resized, Changed
  <2>10. Receives(c, e, <<>>, C, call[c], stage[c])
    BY <1>1, <2>1, <2>9 DEF Receives
  <2> QED BY <1>4, <2>5, <2>8, <2>10
<1>6. CASE wm_screen_listener_screen_id(c, e)
  <2>1. e.ev = "screen_id" /\ e.id \in Nat
    BY <1>6, EventFields DEF wm_screen_listener_screen_id
  <2>4. PICK C : C = [i \in 1 .. Len(D) |-> IF D[i].n = e.n THEN [D[i] EXCEPT !.id = e.id, !.named = TRUE] ELSE D[i]]
    OBVIOUS
  <2>5. ctx' = [ctx EXCEPT ![c] = C]
    <3>1. ctx' = [ctx EXCEPT ![c] = [i \in DOMAIN D |->
                      IF D[i].n = e.n THEN [D[i] EXCEPT !.id = e.id, !.named = TRUE] ELSE D[i]]]
      BY <1>6, <1>1, Zenon DEF wm_screen_listener_screen_id, Change
    <3> QED BY <3>1, <2>4, <1>2, Zenon
  <2>6. \A i \in 1 .. Len(D) : C[i] = IF D[i].n = e.n THEN [D[i] EXCEPT !.id = e.id, !.named = TRUE] ELSE D[i]
    BY <2>4
  <2>7. \A i \in 1 .. Len(D) : C[i] \in ScreenContexts /\ C[i].n = D[i].n
    BY <2>1, <2>6, <1>2 DEF ScreenContexts
  <2>8. C \in Seq(ScreenContexts) /\ Len(C) = Len(D)
    <3>1. C \in [1 .. Len(D) -> ScreenContexts]
      BY <2>4, <2>7
    <3> QED BY <3>1, <1>2
  <2>9. Named(D, C, e)
    BY <2>6, <2>7, <2>8 DEF Named, Changed
  <2>10. Receives(c, e, <<>>, C, call[c], stage[c])
    BY <1>1, <2>1, <2>9 DEF Receives
  <2> QED BY <1>4, <2>5, <2>8, <2>10
<1>7. CASE wm_screen_listener_layer_added(c, e)
  <2>1. e.ev = "layer" /\ e.layer \in Layers
    BY <1>7, EventFields DEF wm_screen_listener_layer_added
  <2>4. PICK C : C = [i \in 1 .. Len(D) |->
                        IF D[i].n = e.n THEN [D[i] EXCEPT !.order = Append(@, e.layer)] ELSE D[i]]
    OBVIOUS
  <2>5. ctx' = [ctx EXCEPT ![c] = C]
    <3>1. ctx' = [ctx EXCEPT ![c] = [i \in DOMAIN D |->
                      IF D[i].n = e.n THEN [D[i] EXCEPT !.order = Append(@, e.layer)] ELSE D[i]]]
      BY <1>7, <1>1, Zenon DEF wm_screen_listener_layer_added, Change
    <3> QED BY <3>1, <2>4, <1>2, Zenon
  <2>6. \A i \in 1 .. Len(D) : C[i] = IF D[i].n = e.n THEN [D[i] EXCEPT !.order = Append(@, e.layer)] ELSE D[i]
    BY <2>4
  <2>7. ASSUME NEW i \in 1 .. Len(D) PROVE C[i] \in ScreenContexts /\ C[i].n = D[i].n
    <3>1. D[i] \in ScreenContexts /\ D[i].order \in Seq(Layers)
      BY <1>2 DEF ScreenContexts
    <3>2. Append(D[i].order, e.layer) \in Seq(Layers)
      BY <3>1, <2>1
    <3>3. PICK o \in Seq(Layers) : o = Append(D[i].order, e.layer)
      BY <3>2
    <3>4. C[i] = IF D[i].n = e.n THEN [D[i] EXCEPT !.order = o] ELSE D[i]
      BY <2>6, <3>3
    <3> QED BY <3>1, <3>4 DEF ScreenContexts
  <2>8. C \in Seq(ScreenContexts) /\ Len(C) = Len(D)
    <3>1. C \in [1 .. Len(D) -> ScreenContexts]
      BY <2>4, <2>7
    <3> QED BY <3>1, <1>2
  <2>9. Layered(D, C, e)
    BY <2>6, <2>7, <2>8 DEF Layered, Changed
  <2>10. Receives(c, e, <<>>, C, call[c], stage[c])
    BY <1>1, <2>1, <2>9 DEF Receives
  <2> QED BY <1>4, <2>5, <2>8, <2>10
<1> QED BY <1>5, <1>6, <1>7

LEMMA InitReceived ==
    ASSUME Typed, Follow, NEW c \in Clients, NEW e \in Events, init_control(c, e)
    PROVE  ReceiveSays(c, e)
<1>1. e.ev = "done" /\ stage[c] = "bound" /\ stage' = [stage EXCEPT ![c] = "ids"] /\ call' = call
  BY DEF init_control
<1>2. PICK D \in Seq(ScreenContexts) : D = ctx[c]
  BY ClientHas
<1>3. Len(D) \in Nat /\ DOMAIN D = 1 .. Len(D) /\ \A i \in 1 .. Len(D) : D[i] \in ScreenContexts
  OBVIOUS
<1>4. PICK T : T = {x \in ToSet(D) : ~x.made}
  OBVIOUS
<1>5. PICK missing : missing = Only(D, T)
  OBVIOUS
<1>6. PICK q : q = [i \in DOMAIN missing |-> Request("create_screen", missing[i].n)]
  OBVIOUS
<1>7. PICK C : C = [i \in 1 .. Len(D) |-> [D[i] EXCEPT !.made = TRUE]]
  OBVIOUS
<1>8. Send(c, q \o <<[op |-> "sync"]>>)
  BY <1>2, <1>4, <1>5, <1>6, Zenon DEF init_control
<1>9. ctx' = [ctx EXCEPT ![c] = C]
  <2>1. ctx' = [ctx EXCEPT ![c] = [i \in DOMAIN D |-> [D[i] EXCEPT !.made = TRUE]]]
    BY <1>2, Zenon DEF init_control
  <2> QED BY <2>1, <1>3, <1>7, Zenon
<1>10. \A i \in 1 .. Len(D) : C[i] = [D[i] EXCEPT !.made = TRUE]
  BY <1>7
<1>11. \A i \in 1 .. Len(D) : C[i] \in ScreenContexts
  <2> SUFFICES ASSUME NEW i \in 1 .. Len(D) PROVE C[i] \in ScreenContexts
    OBVIOUS
  <2>1. PICK x \in ScreenContexts : x = D[i]
    BY <1>3
  <2>2. C[i] = [x EXCEPT !.made = TRUE]
    BY <1>10, <2>1
  <2>3. [x EXCEPT !.made = TRUE] \in ScreenContexts
    BY DEF ScreenContexts
  <2> QED BY <2>2, <2>3
<1>12. C \in Seq(ScreenContexts) /\ Len(C) = Len(D)
  <2>1. C \in [1 .. Len(D) -> ScreenContexts]
    BY <1>7, <1>11
  <2> QED BY <2>1, <1>3
<1>13. missing \in Seq(ScreenContexts) /\ ToSet(missing) = ToSet(D) \cap T
  BY <1>5, SetOfOnly
<1>14. /\ Len(missing) \in Nat /\ DOMAIN missing = 1 .. Len(missing)
       /\ \A i \in 1 .. Len(missing) : missing[i].n \in Nat
  <2>1. \A i \in 1 .. Len(missing) : missing[i] \in ScreenContexts
    BY <1>13, ElementOf
  <2> QED BY <1>13, <2>1 DEF ScreenContexts
<1>15. DOMAIN q = 1 .. Len(missing) /\ q = [i \in 1 .. Len(missing) |-> q[i]]
       /\ \A i \in 1 .. Len(missing) : q[i] = Request("create_screen", missing[i].n)
  BY <1>6, <1>14
<1>16. \A i \in 1 .. Len(missing) : q[i] \in Requests
  BY <1>14, <1>15, RequestTypes
<1>17. q \in Seq(Requests) /\ Len(q) = Len(missing)
  <2>1. q \in [1 .. Len(missing) -> Requests]
    BY <1>15, <1>16
  <2> QED BY <2>1, <1>14
<1>18. ASSUME NEW r \in ToSet(q) PROVE r.op = "create_screen"
  <2>1. PICK i \in 1 .. Len(q) : r = q[i]
    BY <1>17, SetOf
  <2> QED BY <2>1, <1>15, <1>17 DEF Request
<1>19. ASSUME NEW x \in ToSet(D), x.made # TRUE PROVE Request("create_screen", x.n) \in ToSet(q)
  <2>1. x \in T
    <3>1. x \in ScreenContexts
      BY SetOf
    <3>2. x.made \in BOOLEAN
      BY <3>1 DEF ScreenContexts
    <3>3. ~x.made
      BY <3>2, <1>19, Zenon
    <3> QED BY <3>3, <1>4, Zenon
  <2>2. x \in ToSet(missing)
    BY <2>1, <1>13
  <2>3. PICK i \in 1 .. Len(missing) : x = missing[i]
    BY <2>2, <1>13, SetOf
  <2>4. q[i] \in ToSet(q)
    BY <1>17, SetOf
  <2> QED BY <2>3, <2>4, <1>15
<1>20. Made(D, C)
  BY <1>10, <1>12 DEF Made
<1>21. PICK s \in Requests : s = [op |-> "sync"]
  BY DEF Requests
<1>22. PICK reqs : reqs = q \o <<s>>
  OBVIOUS
<1>23. reqs \in Seq(Requests)
  BY <1>17, <1>22
<1>24. Receives(c, e, reqs, C, call[c], "ids")
  <2>1. reqs = q \o <<[op |-> "sync"]>>
    BY <1>21, <1>22, Zenon
  <2> QED BY <1>1, <1>2, <1>17, <1>18, <1>19, <1>20, <2>1 DEF Receives
<1>25. Send(c, reqs)
  BY <1>8, <1>21, <1>22, Zenon
<1>26. Received(c, e, reqs, C, call[c], "ids")
  BY <1>1, <1>9, <1>24, <1>25, NothingSent DEF Received
<1> QED BY <1>12, <1>23, <1>26, ClientHas DEF ReceiveSays, Stages

LEMMA DoneReceived ==
    ASSUME Typed, Follow, NEW c \in Clients, NEW e \in Events,
           ilm_init_returns(c, e) \/ call_returns(c, e)
    PROVE  ReceiveSays(c, e)
<1>1. CASE ilm_init_returns(c, e)
  <2>1. /\ e.ev = "done" /\ stage[c] = "ids" /\ stage' = [stage EXCEPT ![c] = "on"]
        /\ UNCHANGED <<wire, ctx, call>>
    BY <1>1 DEF ilm_init_returns
  <2>2. Receives(c, e, <<>>, ctx[c], call[c], "on")
    BY <2>1 DEF Receives
  <2>3. Received(c, e, <<>>, ctx[c], call[c], "on")
    BY <2>1, <2>2, NothingSent DEF Received
  <2> QED BY <2>3, NothingSent, ClientHas DEF ReceiveSays, Stages
<1>2. CASE call_returns(c, e)
  <2>1. /\ e.ev = "done" /\ call[c] # Idle /\ call' = [call EXCEPT ![c] = Idle]
        /\ UNCHANGED <<wire, stage>> /\ Idle \in Calls
    BY <1>2 DEF call_returns, Idle, Calls
  <2>2. CASE call[c].op = "layers"
    <3>1. PICK D \in Seq(ScreenContexts) : D = ctx[c]
      BY ClientHas
    <3>2. Len(D) \in Nat /\ DOMAIN D = 1 .. Len(D) /\ \A i \in 1 .. Len(D) : D[i] \in ScreenContexts
      OBVIOUS
    <3>3. PICK C : C = [i \in 1 .. Len(D) |->
                          IF D[i].n = call[c].n THEN [D[i] EXCEPT !.order = <<>>] ELSE D[i]]
      OBVIOUS
    <3>4. ctx' = [ctx EXCEPT ![c] = C]
      <4>1. ctx' = [ctx EXCEPT ![c] = [i \in DOMAIN D |->
                        IF D[i].n = call[c].n THEN [D[i] EXCEPT !.order = <<>>] ELSE D[i]]]
        BY <1>2, <2>2, <3>1, Zenon DEF call_returns, create_layerids, Change
      <4> QED BY <4>1, <3>2, <3>3, Zenon
    <3>5. \A i \in 1 .. Len(D) : C[i] = IF D[i].n = call[c].n THEN [D[i] EXCEPT !.order = <<>>] ELSE D[i]
      BY <3>3
    <3>6. \A i \in 1 .. Len(D) : C[i] \in ScreenContexts /\ C[i].n = D[i].n
      <4>1. <<>> \in Seq(Layers)
        OBVIOUS
      <4> QED BY <3>2, <3>5, <4>1 DEF ScreenContexts
    <3>7. C \in Seq(ScreenContexts) /\ Len(C) = Len(D)
      <4>1. C \in [1 .. Len(D) -> ScreenContexts]
        BY <3>3, <3>6
      <4> QED BY <4>1, <3>2
    <3>8. Copied(D, C, call[c].n)
      BY <3>5, <3>6, <3>7 DEF Copied, Changed
    <3>9. Receives(c, e, <<>>, C, Idle, stage[c])
      BY <2>1, <2>2, <3>1, <3>8 DEF Receives
    <3>10. Received(c, e, <<>>, C, Idle, stage[c])
      BY <2>1, <3>4, <3>9, NothingSent DEF Received
    <3> QED BY <2>1, <3>7, <3>10, NothingSent, ClientHas DEF ReceiveSays
  <2>3. CASE call[c].op # "layers"
    <3>1. ctx' = ctx
      BY <1>2, <2>3 DEF call_returns
    <3>2. Receives(c, e, <<>>, ctx[c], Idle, stage[c])
      BY <2>1, <2>3 DEF Receives
    <3>3. Received(c, e, <<>>, ctx[c], Idle, stage[c])
      BY <2>1, <3>1, <3>2, NothingSent DEF Received
    <3> QED BY <2>1, <3>3, NothingSent, ClientHas DEF ReceiveSays
  <2> QED BY <2>2, <2>3
<1> QED BY <1>1, <1>2

LEMMA SizedReceived ==
    ASSUME Typed, NEW c \in Clients, NEW e \in Events, ilm_takeSurfaceShoot_sized(c, e),
           UNCHANGED <<stage, ctx, shots>>
    PROVE  ReceiveSays(c, e)
<1>1. e.ev = "surface" /\ e.n \in Nat /\ e.size \in Sizes \cup {0, Nothing}
  BY EventFields DEF ilm_takeSurfaceShoot_sized
<1>2. CASE e.size \in {Nothing, 0}
  <2>1. call' = [call EXCEPT ![c] = Idle] /\ UNCHANGED <<wire, contexts>>
    BY <1>2 DEF ilm_takeSurfaceShoot_sized
  <2>2. Receives(c, e, <<>>, ctx[c], Idle, stage[c])
    BY <1>1, <2>1 DEF Receives
  <2>3. Received(c, e, <<>>, ctx[c], Idle, stage[c])
    BY <2>1, <2>2, NothingSent DEF Received
  <2> QED BY <2>3, <1>1, NothingSent, ClientHas, RequestTypes DEF ReceiveSays
<1>3. CASE e.size \notin {Nothing, 0}
  <2>1. PICK r : r = [op |-> "surface_screenshot", n |-> e.n, size |-> e.size]
    OBVIOUS
  <2>2. PICK k : k = IF call[c].op = "async" THEN Idle ELSE Request("shot", e.n)
    OBVIOUS
  <2>3. /\ Send(c, <<r>>) /\ contexts' = contexts \cup {<<c, e.n>>}
        /\ call' = [call EXCEPT ![c] = k]
    BY <1>3, <2>1, <2>2, Zenon DEF ilm_takeSurfaceShoot_sized
  <2>4. r \in Requests /\ e.size \in Sizes
    BY <1>1, <1>3, <2>1 DEF Requests
  <2>5. <<r>> \in Seq(Requests)
    BY <2>4
  <2>6. k \in Calls /\ k \in {Idle, Request("shot", e.n)}
    BY <1>1, <2>2, RequestTypes
  <2>7. Receives(c, e, <<r>>, ctx[c], k, stage[c])
    BY <1>1, <2>1, <2>3, <2>4, <2>6 DEF Receives
  <2>8. Received(c, e, <<r>>, ctx[c], k, stage[c])
    BY <2>3, <2>7, NothingSent DEF Received
  <2> QED BY <2>5, <2>6, <2>8, ClientHas DEF ReceiveSays
<1> QED BY <1>2, <1>3

LEMMA ShotReceived ==
    ASSUME Typed, NEW c \in Clients, NEW e \in Events,
           screenshot_done(c, e) \/ screenshot_error(c, e), UNCHANGED <<stage, ctx, shots>>
    PROVE  ReceiveSays(c, e)
<1>1. e.ev = "shot" /\ e.n \in Nat /\ wire' = wire /\ contexts' = contexts \ {<<c, e.n>>}
  BY EventFields DEF screenshot_done, screenshot_error
<1>2. PICK k : k = IF call[c] = Request("shot", e.n) THEN Idle ELSE call[c]
  OBVIOUS
<1>3. call' = [call EXCEPT ![c] = k]
  BY <1>2, Zenon DEF screenshot_done, screenshot_error
<1>4. k \in Calls
  BY <1>1, <1>2, RequestTypes, ClientHas
<1>5. Receives(c, e, <<>>, ctx[c], k, stage[c])
  BY <1>1, <1>2 DEF Receives
<1>6. Received(c, e, <<>>, ctx[c], k, stage[c])
  BY <1>1, <1>3, <1>5, NothingSent DEF Received
<1> QED BY <1>4, <1>6, NothingSent, ClientHas DEF ReceiveSays

LEMMA ReceiveStep ==
    ASSUME Typed, NEW c \in Clients, Receive(c), NEW e, e = Head(inbox[c])
    PROVE  ReceiveFrame(c) /\ e \in Events /\ ReceiveSays(c, e)
<1>1. ReceiveFrame(c)
  BY DEF Receive, DispatchShot, Dispatch, Follow, ReceiveFrame, outputs, orders, objects, bounds
<1>2. e \in Events
  BY <1>1, TailAt, ClientHas DEF ReceiveFrame
<1>3. CASE DispatchShot(c)
  <2>1. \/ ilm_takeSurfaceShoot_sized(c, e) \/ screenshot_done(c, e) \/ screenshot_error(c, e)
    BY <1>3 DEF DispatchShot
  <2>2. UNCHANGED <<stage, ctx, shots>>
    BY <1>3 DEF DispatchShot
  <2> QED BY <1>1, <1>2, <2>1, <2>2, SizedReceived, ShotReceived
<1>4. CASE Dispatch(c) /\ Follow
  <2>1. \/ registry_handle_control(c, e)
        \/ registry_handle_control_wm(c, e)
        \/ registry_handle_control_remove(c, e)
        \/ output_listener_mode(c, e)
        \/ wm_screen_listener_screen_id(c, e)
        \/ wm_screen_listener_layer_added(c, e)
        \/ init_control(c, e)
        \/ ilm_init_returns(c, e)
        \/ call_returns(c, e)
    BY <1>4 DEF Dispatch
  <2> QED BY <1>1, <1>2, <1>4, <2>1, GlobalReceived, WmReceived, GoneReceived, ChangedReceived,
         InitReceived, DoneReceived
<1> QED BY <1>3, <1>4 DEF Receive

-----------------------------------------------------------------------------
(* What a call sends.                                                      *)

Sync == [op |-> "sync"]

\* ilm_init
Begins(c, reqs, k, st) ==
    /\ stage[c] = "off" /\ st = "globals" /\ k = Idle /\ Follow
    /\ reqs = <<[op |-> "get_registry"], Sync>>
\* The calls that wait for the compositor.
Waits(c, reqs, k, st) ==
    /\ stage[c] = "on" /\ st = "on" /\ Follow
    /\ \E q \in Seq(Requests) :
          /\ reqs = q \o <<Sync>>
          /\ \/ \E x \in ToSet(ctx[c]) : k = Request("layers", x.n) /\ q = <<Request("get", x.n)>>
             \/ k \in {Request("screens", 0), Request("commit", 0)} /\ \A r \in ToSet(q) : r.op = "commit"
\* ilm_displaySetRenderOrder and remove_layer
SetsOrder(c, reqs, k, st) ==
    /\ stage[c] = "on" /\ st = "on" /\ k = Idle /\ Follow
    /\ \/ \E x \in ToSet(ctx[c]) :
             \A r \in ToSet(reqs) : r.op \in {"clear", "add"} /\ r.n = x.n /\ r.asked = x.id /\ r.named = x.named
       \/ \A r \in ToSet(reqs) : r.op = "remove"
\* ilm_destroy, with a connection and without
Ends(c, reqs, k, st) ==
    /\ k = Idle /\ Follow
    /\ \/ /\ stage[c] = "on" /\ st = "closing"
          /\ \A r \in ToSet(reqs) : r.op \in {"screen_destroy", "disconnect"}
       \/ stage[c] = "lost" /\ st = "off" /\ reqs = <<>>
\* ilm_takeScreenshot, ilm_takeSurfaceScreenshot
Shoots(c, reqs, k, st) ==
    /\ stage[c] = "on" /\ st = "on" /\ shots' = shots
    /\ \/ reqs = <<>> /\ k = Idle /\ contexts' = contexts
       \/ /\ \E n \in Nat : reqs = <<[op |-> "screenshot", n |-> n, shot |-> Shot]>>
          /\ k \in {Idle, Request("shot", Shot)}
          /\ contexts' = contexts \cup {<<c, Shot>>}
       \/ /\ reqs = <<Request("surface_get", Shot)>>
          /\ k \in {Request("async", Shot), Request("sized", Shot)}
          /\ contexts' = contexts

Calling(c, reqs, k, st) ==
    \/ Begins(c, reqs, k, st) \/ Waits(c, reqs, k, st) \/ SetsOrder(c, reqs, k, st)
    \/ Ends(c, reqs, k, st) \/ Shoots(c, reqs, k, st)
CallMade(c, reqs, k, st) ==
    /\ Send(c, reqs)
    /\ call' = [call EXCEPT ![c] = k]
    /\ stage' = [stage EXCEPT ![c] = st]
    /\ Calling(c, reqs, k, st)
CallSays(c) ==
    \E reqs \in Seq(Requests), k \in Calls, st \in Stages : CallMade(c, reqs, k, st)

CallFrame(c) ==
    /\ call[c] = Idle /\ calls' = calls + 1
    /\ UNCHANGED <<head, screens, hmi, bkgnd, up, pend, cur, sent, resources, viewers, listening,
                   inbox, ctx, plugs, surf, held>>

LEMMA ContextById ==
    ASSUME Typed, NEW c \in Clients, NEW id \in Ids(c)
    PROVE  \E x \in ToSet(ctx[c]) : /\ x.id = id /\ x = ctx[c][Min(Contexts(c, id))]
                                    /\ x \in ScreenContexts
<1>1. PICK D \in Seq(ScreenContexts) : D = ctx[c]
  BY ClientHas
<1>2. DOMAIN D = 1 .. Len(D) /\ Len(D) \in Nat
  OBVIOUS
<1>3. Contexts(c, id) = {i \in 1 .. Len(D) : D[i].id = id}
  BY <1>1, <1>2 DEF Contexts
<1>4. Contexts(c, id) # {}
  BY <1>1, <1>2, <1>3 DEF Ids
<1>5. Contexts(c, id) \subseteq Nat
  BY <1>2, <1>3
<1>6. Min(Contexts(c, id)) \in Contexts(c, id)
  BY <1>4, <1>5, MinIn
<1>7. PICK i \in 1 .. Len(D) : D[i].id = id /\ i = Min(Contexts(c, id))
  BY <1>3, <1>6
<1>8. D[i] \in ToSet(D) /\ D[i] \in ScreenContexts
  BY SetOf, ElementOf
<1> QED BY <1>1, <1>7, <1>8

LEMMA AppendJoins ==
    ASSUME NEW E, NEW s \in Seq(E), NEW e \in E
    PROVE  Append(s, e) = s \o <<e>> /\ s \o <<e>> \in Seq(E)
OBVIOUS

LEMMA CallEnds ==
    ASSUME Typed, NEW c \in Clients, NEW reqs \in Seq(Requests), NEW k \in Calls, NEW st \in Stages,
           Send(c, reqs), call' = [call EXCEPT ![c] = k], stage' = [stage EXCEPT ![c] = st],
           Calling(c, reqs, k, st)
    PROVE  CallSays(c)
BY DEF CallSays, CallMade

\* The requests of a call that waits.
LEMMA WaitSends ==
    ASSUME Typed, NEW c \in Clients, NEW q \in Seq(Requests), Wait(c, q)
    PROVE  /\ Send(c, q \o <<Sync>>) /\ q \o <<Sync>> \in Seq(Requests) /\ stage' = stage
<1>1. Sync \in Requests
  BY DEF Sync, Requests
<1>2. Append(q, Sync) = q \o <<Sync>> /\ q \o <<Sync>> \in Seq(Requests)
  BY <1>1, AppendJoins
<1>3. Send(c, Append(q, Sync)) /\ stage' = stage
  BY DEF Wait, Sync
<1> QED BY <1>2, <1>3

LEMMA InitSays ==
    ASSUME Typed, Follow, NEW c \in Clients, ilm_init(c)
    PROVE  CallSays(c)
<1>1. PICK a \in Requests : a = [op |-> "get_registry"]
  BY DEF Requests
<1>2. PICK s \in Requests : s = Sync
  BY DEF Requests, Sync
<1>3. Send(c, <<a, s>>) /\ stage' = [stage EXCEPT ![c] = "globals"] /\ call' = call
      /\ stage[c] = "off" /\ call[c] = Idle
  BY <1>1, <1>2 DEF ilm_init, CanCall, Sync
<1>4. <<a, s>> \in Seq(Requests)
  OBVIOUS
<1>5. Begins(c, <<a, s>>, Idle, "globals")
  BY <1>1, <1>2, <1>3 DEF Begins
<1>6. call' = [call EXCEPT ![c] = Idle] /\ Idle \in Calls /\ "globals" \in Stages
  BY <1>3, NothingSent, RequestTypes DEF Stages, Idle, Calls
<1> QED BY <1>3, <1>4, <1>5, <1>6, CallEnds DEF Calling

LEMMA LayersSays ==
    ASSUME Typed, Follow, NEW c \in Clients, ilm_getLayerIDsOnScreen(c)
    PROVE  CallSays(c)
<1>1. PICK id \in Ids(c) :
        LET n == get_screen_context_by_id(c, id).n IN
         /\ Wait(c, <<Request("get", n)>>)
         /\ call' = [call EXCEPT ![c] = Request("layers", n)]
  BY DEF ilm_getLayerIDsOnScreen
<1>2. stage[c] = "on"
  BY DEF ilm_getLayerIDsOnScreen, CanCall
<1>3. PICK x \in ToSet(ctx[c]) : /\ x = ctx[c][Min(Contexts(c, id))] /\ x \in ScreenContexts
  BY ContextById
<1>4. Wait(c, <<Request("get", x.n)>>) /\ call' = [call EXCEPT ![c] = Request("layers", x.n)]
      /\ x.n \in Nat
  BY <1>1, <1>3 DEF get_screen_context_by_id, ScreenContexts
<1>5. PICK q \in Seq(Requests) : q = <<Request("get", x.n)>>
  <2>1. Request("get", x.n) \in Requests
    BY <1>4, RequestTypes
  <2>2. <<Request("get", x.n)>> \in Seq(Requests)
    BY <2>1
  <2> QED BY <2>2
<1>6. /\ Send(c, q \o <<Sync>>) /\ q \o <<Sync>> \in Seq(Requests) /\ stage' = stage
  BY <1>4, <1>5, WaitSends
<1>7. Waits(c, q \o <<Sync>>, Request("layers", x.n), "on")
  BY <1>2, <1>5 DEF Waits
<1>8. Request("layers", x.n) \in Calls /\ "on" \in Stages /\ stage' = [stage EXCEPT ![c] = "on"]
  BY <1>2, <1>4, <1>6, RequestTypes, NothingSent DEF Stages
<1> QED BY <1>4, <1>6, <1>7, <1>8, CallEnds DEF Calling

LEMMA WaitingSays ==
    ASSUME Typed, Follow, NEW c \in Clients, ilm_getScreenIDs(c) \/ ilm_commitChanges(c)
    PROVE  CallSays(c)
<1>1. stage[c] = "on"
  BY DEF ilm_getScreenIDs, ilm_commitChanges, CanCall
<1>2. \E q \in Seq(Requests), k \in {Request("screens", 0), Request("commit", 0)} :
        /\ Wait(c, q) /\ call' = [call EXCEPT ![c] = k] /\ \A r \in ToSet(q) : r.op = "commit"
  <2>1. CASE ilm_getScreenIDs(c)
    <3>1. <<>> \in Seq(Requests) /\ ToSet(<<>>) = {}
      BY SetOfNone
    <3>2. Wait(c, <<>>) /\ call' = [call EXCEPT ![c] = Request("screens", 0)]
      BY <2>1 DEF ilm_getScreenIDs
    <3> QED BY <3>1, <3>2
  <2>2. CASE ilm_commitChanges(c)
    <3>1. PICK a \in Requests : a = [op |-> "commit"]
      BY DEF Requests
    <3>2. <<a>> \in Seq(Requests) /\ ToSet(<<a>>) = {a} /\ a.op = "commit"
      BY <3>1, SetOfOne
    <3>3. Wait(c, <<a>>) /\ call' = [call EXCEPT ![c] = Request("commit", 0)]
      BY <2>2, <3>1 DEF ilm_commitChanges
    <3> QED BY <3>2, <3>3
  <2> QED BY <2>1, <2>2
<1>3. PICK q \in Seq(Requests), k \in {Request("screens", 0), Request("commit", 0)} :
        /\ Wait(c, q) /\ call' = [call EXCEPT ![c] = k] /\ \A r \in ToSet(q) : r.op = "commit"
  BY <1>2
<1>4. /\ Send(c, q \o <<Sync>>) /\ q \o <<Sync>> \in Seq(Requests) /\ stage' = stage
  BY <1>3, WaitSends
<1>5. Waits(c, q \o <<Sync>>, k, "on")
  BY <1>1, <1>3 DEF Waits
<1>6. k \in Calls /\ "on" \in Stages /\ stage' = [stage EXCEPT ![c] = "on"]
  BY <1>1, <1>4, RequestTypes, NothingSent DEF Stages
<1> QED BY <1>3, <1>4, <1>5, <1>6, CallEnds DEF Calling

LEMMA OrderSays ==
    ASSUME Typed, Follow, NEW c \in Clients, ilm_displaySetRenderOrder(c)
    PROVE  CallSays(c)
<1>1. stage[c] = "on" /\ call[c] = Idle /\ UNCHANGED <<stage, call>>
  BY DEF ilm_displaySetRenderOrder, CanCall
<1>2. PICK id \in Ids(c), q \in Orders :
         LET x == get_screen_context_by_id(c, id) IN
         Send(c, <<[op |-> "clear", n |-> x.n, asked |-> id, named |-> x.named]>> \o
                 [i \in DOMAIN q |-> [op |-> "add", n |-> x.n, layer |-> q[i],
                                      asked |-> id, named |-> x.named]])
  BY DEF ilm_displaySetRenderOrder
<1>3. PICK x \in ToSet(ctx[c]) : /\ x.id = id /\ x = ctx[c][Min(Contexts(c, id))]
                                 /\ x \in ScreenContexts
  BY ContextById
<1>4. x.n \in Nat /\ x.id \in Nat /\ x.named \in BOOLEAN
  BY <1>3 DEF ScreenContexts
<1>5. PICK a : a = [op |-> "clear", n |-> x.n, asked |-> x.id, named |-> x.named]
  OBVIOUS
<1>6. PICK b : b = [i \in DOMAIN q |-> [op |-> "add", n |-> x.n, layer |-> q[i], asked |-> x.id, named |-> x.named]]
  OBVIOUS
<1>7. Send(c, <<a>> \o b)
  <2>1. get_screen_context_by_id(c, id) = x
    BY <1>3 DEF get_screen_context_by_id
  <2> QED BY <1>2, <1>3, <1>5, <1>6, <2>1, Zenon
<1>8. a \in Requests
  BY <1>4, <1>5 DEF Requests
<1>9. q \in Seq(Layers \cup {Nothing})
  BY ScreensAssumption
<1>10. Len(q) \in Nat /\ DOMAIN q = 1 .. Len(q) /\ \A i \in 1 .. Len(q) : q[i] \in Layers \cup {Nothing}
  BY <1>9
<1>11. \A i \in 1 .. Len(q) : b[i] = [op |-> "add", n |-> x.n, layer |-> q[i], asked |-> x.id, named |-> x.named]
  BY <1>6, <1>10
<1>12. b \in Seq(Requests)
  <2>1. ASSUME NEW i \in 1 .. Len(q) PROVE b[i] \in Requests
    <3>1. PICK l \in Layers \cup {Nothing} : l = q[i]
      BY <1>10
    <3>2. b[i] = [op |-> "add", n |-> x.n, layer |-> l, asked |-> x.id, named |-> x.named]
      BY <1>11, <3>1
    <3>3. PICK r : r = [op |-> "add", n |-> x.n, layer |-> l, asked |-> x.id, named |-> x.named]
      OBVIOUS
    <3>4. r \in [op : {"add"}, n : Nat, layer : Layers \cup {Nothing}, asked : Nat, named : BOOLEAN]
      BY <1>4, <3>3
    <3> QED BY <3>2, <3>3, <3>4 DEF Requests
  <2>2. b \in [1 .. Len(q) -> Requests]
    BY <1>6, <1>10, <2>1
  <2> QED BY <1>10, <2>2
<1>13. \A r \in ToSet(b) : r.op = "add" /\ r.n = x.n /\ r.asked = x.id /\ r.named = x.named
  <2>1. DOMAIN b = 1 .. Len(q)
    BY <1>6, <1>10
  <2> QED BY <1>11, <2>1 DEF ToSet
<1>14. PICK s \in Seq(Requests) : s = <<a>>
  <2>1. <<a>> \in Seq(Requests)
    BY <1>8
  <2> QED BY <2>1
<1>15. s \o b \in Seq(Requests) /\ ToSet(s \o b) = ToSet(s) \cup ToSet(b)
  BY <1>12, SetOfJoin
<1>16. ToSet(s) = {a} /\ a.op = "clear" /\ a.n = x.n /\ a.asked = x.id /\ a.named = x.named
  BY <1>5, <1>14, SetOfOne
<1>17. PICK reqs \in Seq(Requests) : reqs = s \o b
  BY <1>15
<1>18. SetsOrder(c, reqs, Idle, "on")
  BY <1>1, <1>13, <1>15, <1>16, <1>17 DEF SetsOrder
<1>19. Send(c, reqs)
  BY <1>7, <1>14, <1>17, Zenon
<1>20. /\ "on" \in Stages /\ stage' = [stage EXCEPT ![c] = "on"]
       /\ Idle \in Calls /\ call' = [call EXCEPT ![c] = Idle]
  BY <1>1, NothingSent DEF Stages, Idle, Calls
<1> QED BY <1>18, <1>19, <1>20, CallEnds DEF Calling

LEMMA RemoveSays ==
    ASSUME Typed, Follow, NEW c \in Clients, remove_layer(c)
    PROVE  CallSays(c)
<1>1. stage[c] = "on" /\ call[c] = Idle /\ UNCHANGED <<stage, call>>
  BY DEF remove_layer, CanCall
<1>2. PICK i \in DOMAIN ctx[c], l \in Layers :
         Send(c, <<[op |-> "remove", n |-> ctx[c][i].n, layer |-> l]>>)
  BY DEF remove_layer
<1>3. ctx[c][i].n \in Nat
  <2>1. PICK D \in Seq(ScreenContexts) : D = ctx[c]
    BY ClientHas
  <2>2. D[i] \in ScreenContexts
    BY <2>1, ElementOf
  <2> QED BY <2>1, <2>2 DEF ScreenContexts
<1>4. PICK a \in Requests : a = [op |-> "remove", n |-> ctx[c][i].n, layer |-> l]
  BY <1>3 DEF Requests
<1>5. <<a>> \in Seq(Requests) /\ ToSet(<<a>>) = {a} /\ a.op = "remove"
  BY <1>4, SetOfOne
<1>6. SetsOrder(c, <<a>>, Idle, "on")
  BY <1>1, <1>5 DEF SetsOrder
<1>7. /\ "on" \in Stages /\ stage' = [stage EXCEPT ![c] = "on"]
      /\ Idle \in Calls /\ call' = [call EXCEPT ![c] = Idle]
  BY <1>1, NothingSent DEF Stages, Idle, Calls
<1> QED BY <1>2, <1>4, <1>5, <1>6, <1>7, CallEnds DEF Calling

LEMMA DestroySays ==
    ASSUME Typed, Follow, NEW c \in Clients, ilm_destroy(c) \/ ilm_destroy_lost(c)
    PROVE  CallSays(c)
<1>1. call[c] = Idle /\ call' = call /\ call' = [call EXCEPT ![c] = Idle] /\ Idle \in Calls
  BY NothingSent DEF ilm_destroy, ilm_destroy_lost, CanCall, Idle, Calls
<1>2. CASE ilm_destroy_lost(c)
  <2>1. stage[c] = "lost" /\ stage' = [stage EXCEPT ![c] = "off"] /\ wire' = wire
    BY <1>2 DEF ilm_destroy_lost, CanCall
  <2>2. Ends(c, <<>>, Idle, "off") /\ Send(c, <<>>) /\ <<>> \in Seq(Requests) /\ "off" \in Stages
    BY <2>1, NothingSent DEF Ends, Stages
  <2> QED BY <1>1, <2>1, <2>2, CallEnds DEF Calling
<1>3. CASE ilm_destroy(c)
  <2>1. stage[c] = "on" /\ stage' = [stage EXCEPT ![c] = "closing"]
    BY <1>3 DEF ilm_destroy, CanCall
  <2>2. PICK D \in Seq(ScreenContexts) : D = ctx[c]
    BY ClientHas
  <2>3. PICK d \in Requests : d = [op |-> "disconnect"]
    BY DEF Requests
  <2>4. PICK b : b = [i \in DOMAIN D |-> Request("screen_destroy", D[i].n)]
    OBVIOUS
  <2>5. Send(c, b \o <<d>>)
    BY <1>3, <2>2, <2>3, <2>4, Zenon DEF ilm_destroy
  <2>6. Len(D) \in Nat /\ DOMAIN D = 1 .. Len(D) /\ \A i \in 1 .. Len(D) : D[i] \in ScreenContexts
    OBVIOUS
  <2>7. \A i \in 1 .. Len(D) : b[i] = Request("screen_destroy", D[i].n) /\ D[i].n \in Nat
    BY <2>4, <2>6 DEF ScreenContexts
  <2>8. b \in Seq(Requests)
    <3>1. \A i \in 1 .. Len(D) : b[i] \in Requests
      BY <2>7, RequestTypes
    <3>2. b \in [1 .. Len(D) -> Requests]
      BY <2>4, <2>6, <3>1
    <3> QED BY <2>6, <3>2
  <2>9. \A r \in ToSet(b) : r.op = "screen_destroy"
    <3>1. DOMAIN b = 1 .. Len(D)
      BY <2>4, <2>6
    <3> QED BY <2>7, <3>1 DEF ToSet, Request
  <2>10. PICK s \in Seq(Requests) : s = <<d>>
    <3>1. <<d>> \in Seq(Requests)
      OBVIOUS
    <3> QED BY <3>1
  <2>11. ToSet(s) = {d} /\ d.op = "disconnect"
    BY <2>3, <2>10, SetOfOne
  <2>12. b \o s \in Seq(Requests) /\ ToSet(b \o s) = ToSet(b) \cup ToSet(s)
    BY <2>8, SetOfJoin
  <2>13. PICK reqs \in Seq(Requests) : reqs = b \o s
    BY <2>12
  <2>14. Ends(c, reqs, Idle, "closing")
    BY <2>1, <2>9, <2>11, <2>12, <2>13 DEF Ends
  <2>15. Send(c, reqs)
    BY <2>5, <2>10, <2>13, Zenon
  <2>16. "closing" \in Stages
    BY DEF Stages
  <2> QED BY <1>1, <2>1, <2>14, <2>15, <2>16, CallEnds DEF Calling
<1> QED BY <1>2, <1>3

LEMMA TakeSays ==
    ASSUME Typed, NEW c \in Clients, Take(c)
    PROVE  CallSays(c)
<1>1. PICK async \in BOOLEAN : ilm_takeShoot(c, async) \/ ilm_takeSurfaceShoot(c, async)
  BY DEF Take
<1>2. /\ stage[c] = "on" /\ call[c] = Idle /\ stage' = stage /\ shots' = shots
      /\ stage' = [stage EXCEPT ![c] = "on"] /\ "on" \in Stages /\ Shot \in Nat
  BY <1>1, NothingSent DEF ilm_takeShoot, ilm_takeSurfaceShoot, CanCall, shotVars, Stages, Shot, Typed,
     ClientTypes
<1>3. CASE ilm_takeShoot(c, async)
  <2>1. PICK id \in Ids(c) :
         LET x == get_screen_context_by_id(c, id) IN
         IF x.size = Nothing THEN UNCHANGED <<wire, call, contexts>>
         ELSE /\ Send(c, <<[op |-> "screenshot", n |-> x.n, shot |-> Shot]>>)
              /\ contexts' = contexts \cup {<<c, Shot>>}
              /\ call' = [call EXCEPT ![c] = IF async THEN Idle ELSE Request("shot", Shot)]
    BY <1>3 DEF ilm_takeShoot
  <2>2. PICK x : x = get_screen_context_by_id(c, id) /\ x \in ScreenContexts
    BY ContextById DEF get_screen_context_by_id
  <2>3. CASE x.size = Nothing
    <3>1. UNCHANGED <<wire, call, contexts>>
      BY <2>1, <2>2, <2>3
    <3>2. Send(c, <<>>) /\ <<>> \in Seq(Requests) /\ call' = [call EXCEPT ![c] = Idle] /\ Idle \in Calls
      BY <1>2, <3>1, NothingSent DEF Idle, Calls
    <3>3. Shoots(c, <<>>, Idle, "on")
      BY <1>2, <3>1 DEF Shoots
    <3> QED BY <1>2, <3>2, <3>3, CallEnds DEF Calling
  <2>4. CASE x.size # Nothing
    <3>1. PICK k : k = IF async THEN Idle ELSE Request("shot", Shot)
      OBVIOUS
    <3>2. PICK r : r = [op |-> "screenshot", n |-> x.n, shot |-> Shot]
      OBVIOUS
    <3>3. /\ Send(c, <<r>>) /\ contexts' = contexts \cup {<<c, Shot>>}
          /\ call' = [call EXCEPT ![c] = k]
      BY <2>1, <2>2, <2>4, <3>1, <3>2, Zenon
    <3>4. k \in {Idle, Request("shot", Shot)} /\ k \in Calls
      BY <1>2, <3>1, RequestTypes
    <3>5. x.n \in Nat
      BY <2>2 DEF ScreenContexts
    <3>6. r \in Requests
      BY <1>2, <3>2, <3>5 DEF Requests
    <3>7. <<r>> \in Seq(Requests)
      BY <3>6
    <3>8. Shoots(c, <<r>>, k, "on")
      BY <1>2, <3>2, <3>3, <3>4, <3>5 DEF Shoots
    <3> QED BY <1>2, <3>3, <3>4, <3>7, <3>8, CallEnds DEF Calling
  <2> QED BY <2>3, <2>4
<1>4. CASE ilm_takeSurfaceShoot(c, async)
  <2>1. PICK k : k = Request(IF async THEN "async" ELSE "sized", Shot)
    OBVIOUS
  <2>2. PICK r : r = Request("surface_get", Shot)
    OBVIOUS
  <2>3. Send(c, <<r>>) /\ call' = [call EXCEPT ![c] = k] /\ contexts' = contexts
    BY <1>4, <2>1, <2>2 DEF ilm_takeSurfaceShoot, shotVars
  <2>4. k \in {Request("async", Shot), Request("sized", Shot)} /\ k \in Calls
    BY <1>2, <2>1, RequestTypes
  <2>5. r \in Requests
    BY <1>2, <2>2, RequestTypes
  <2>6. <<r>> \in Seq(Requests)
    BY <2>5
  <2>7. Shoots(c, <<r>>, k, "on")
    BY <1>2, <2>2, <2>3, <2>4 DEF Shoots
  <2> QED BY <1>2, <2>3, <2>4, <2>6, <2>7, CallEnds DEF Calling
<1> QED BY <1>1, <1>3, <1>4

LEMMA CallStep ==
    ASSUME Typed, NEW c \in Clients, Take(c) \/ (CallLibrary(c) /\ Follow)
    PROVE  CallFrame(c) /\ CallSays(c)
<1>1. CASE Take(c)
  <2>1. CallFrame(c)
    BY <1>1 DEF Take, ilm_takeShoot, ilm_takeSurfaceShoot, CanCall, CallFrame, outputs, orders, objects,
       shotVars
  <2> QED BY <1>1, <2>1, TakeSays
<1>2. CASE CallLibrary(c) /\ Follow
  <2>1. CallFrame(c)
    BY <1>2 DEF CallLibrary, ilm_init, ilm_destroy, ilm_destroy_lost, ilm_getLayerIDsOnScreen,
       ilm_getScreenIDs, ilm_displaySetRenderOrder, remove_layer, ilm_commitChanges, CanCall, CallFrame,
       outputs, orders, objects, Follow
  <2>2. CallSays(c)
    BY <1>2, InitSays, LayersSays, WaitingSays, OrderSays, RemoveSays, DestroySays DEF CallLibrary
  <2> QED BY <2>1, <2>2
<1> QED BY <1>1, <1>2

-----------------------------------------------------------------------------
(* Every step keeps the types.                                             *)

LEMMA FollowTypes ==
    ASSUME ShotTypes, shots' \subseteq shots, contexts' \subseteq contexts, UNCHANGED <<surf, held>>
    PROVE  ShotTypes'
BY DEF ShotTypes

LEMMA LostTypes ==
    ASSUME Typed, NEW c \in Clients, Lost(c), Follow, HandleFrame
    PROVE  Typed'
<1>1. OutputTypes'
  BY DEF Typed, Lost, HandleFrame, OutputTypes, orders
<1>2. WireTypes'
  <2>1. <<>> \in Seq(Requests) /\ <<>> \in Seq(Events)
    OBVIOUS
  <2> QED BY <2>1 DEF Typed, Lost, WireTypes
<1>3. ClientTypes'
  <2>1. /\ "off" \in Stages /\ "lost" \in Stages /\ <<>> \in Seq(ScreenContexts) /\ Idle \in Calls
    BY DEF Stages, Idle, Calls
  <2>2. PICK st \in Stages : stage' = [stage EXCEPT ![c] = st]
    BY <2>1 DEF Lost
  <2> QED BY <2>1, <2>2 DEF Typed, Lost, ClientTypes, orders, HandleFrame
<1>4. ObjectTypes'
  BY DEF Typed, Lost, ObjectTypes, HandleFrame
<1>5. ShotTypes'
  BY FollowTypes DEF Typed, Follow
<1> QED BY <1>1, <1>2, <1>3, <1>4, <1>5 DEF Typed

LEMMA FreedLost ==
    ASSUME NEW c, create_layerids_freed(c), Follow
    PROVE  Lost(c) /\ HandleFrame
BY DEF create_layerids_freed, HandleFrame, outputs, bounds, Follow

LEMMA ServedTypes ==
    ASSUME Typed, NEW c \in Clients, wire[c] # <<>>, NEW r \in Requests, Served(c, r), HandleFrame
    PROVE  Typed'
<1>1. OutputTypes'
  BY DEF Typed, Served, HandleFrame, OutputTypes
<1>2. PICK evs \in Seq(Events) : Reply(c, evs) /\ EventsAfter(c, r, evs)
  BY DEF Served
<1>3. WireTypes'
  BY <1>2, HandledTypes, ReplyTypes DEF Typed, Served, WireTypes
<1>4. sent' \in [Clients -> Seq(Layers) \cup {Nothing}]
  <2>1. CASE r.op = "get"
    <3>1. PICK q \in Seq(Layers) : sent' = [sent EXCEPT ![c] = q]
      BY <1>2, <2>1 DEF EventsAfter
    <3> QED BY <3>1 DEF Typed, ClientTypes
  <2>2. CASE r.op # "get"
    BY <1>2, <2>2 DEF EventsAfter, Typed, ClientTypes
  <2> QED BY <2>1, <2>2
<1>5. ClientTypes'
  BY <1>4 DEF Typed, Served, ClientTypes, HandleFrame
<1>6. ObjectTypes'
  <2>1. {<<c, n>> : n \in {k \in screens : r.op = "create_screen"}} \subseteq Clients \X screens
        /\ {<<c, n>> : n \in {k \in screens : r.op = "bind_output"}} \subseteq Clients \X screens
    OBVIOUS
  <2> QED BY <2>1 DEF Typed, Served, ObjectsAfter, ObjectTypes, HandleFrame
<1>7. ShotTypes'
  <2>1. CASE r.op = "screenshot"
    <3>1. r.shot \in Nat /\ r.n \in Nat
      BY <2>1 DEF Requests
    <3>2. [client |-> c, shot |-> r.shot, n |-> r.n] \in [client : Clients, shot : Nat, n : Nat]
      BY <3>1
    <3>3. <<c, r.shot>> \in Clients \X Nat
      BY <3>1
    <3> QED BY <2>1, <3>2, <3>3 DEF Typed, Served, ShotsAfter, ShotTypes
  <2>2. CASE r.op # "screenshot"
    <3>1. shots' \subseteq shots /\ contexts' \subseteq contexts /\ UNCHANGED <<surf, held>>
      BY <2>2 DEF Served, ShotsAfter, Follow
    <3> QED BY <3>1, FollowTypes DEF Typed
  <2> QED BY <2>1, <2>2
<1> QED BY <1>1, <1>3, <1>5, <1>6, <1>7 DEF Typed

LEMMA ReceivedTypes ==
    ASSUME Typed, NEW c \in Clients, ReceiveFrame(c), NEW e \in Events, ReceiveSays(c, e)
    PROVE  Typed'
<1>1. PICK reqs \in Seq(Requests), C \in Seq(ScreenContexts), k \in Calls, st \in Stages :
        Received(c, e, reqs, C, k, st)
  BY DEF ReceiveSays
<1>2. OutputTypes'
  BY DEF Typed, ReceiveFrame, OutputTypes
<1>3. WireTypes'
  <2>1. wire' \in [Clients -> Seq(Requests)]
    BY <1>1, SendTypes DEF Typed, Received
  <2>2. inbox[c] \in Seq(Events) /\ inbox[c] # <<>>
    BY ClientHas DEF ReceiveFrame
  <2>3. Tail(inbox[c]) \in Seq(Events)
    BY <2>2, TailAt
  <2>4. inbox' \in [Clients -> Seq(Events)]
    BY <2>3 DEF Typed, WireTypes, ReceiveFrame
  <2> QED BY <2>1, <2>4 DEF WireTypes
<1>4. ClientTypes'
  BY <1>1 DEF Typed, Received, ClientTypes, ReceiveFrame
<1>5. ObjectTypes'
  BY DEF Typed, ObjectTypes, ReceiveFrame
<1>6. ShotTypes'
  <2>0. surf' = surf /\ held' = held
    BY DEF ReceiveFrame
  <2>1. CASE e.ev \notin {"surface", "shot"}
    <3>1. shots' \subseteq shots /\ contexts' \subseteq contexts
      BY <1>1, <2>1 DEF Received, Receives, Follow
    <3> QED BY <2>0, <3>1, FollowTypes DEF Typed
  <2>2. CASE e.ev \in {"surface", "shot"}
    <3>1. shots' = shots /\ contexts' \subseteq contexts \cup {<<c, e.n>>}
      BY <1>1, <2>2 DEF Received, Receives
    <3>2. <<c, e.n>> \in Clients \X Nat
      BY <2>2, EventFields
    <3> QED BY <2>0, <3>1, <3>2 DEF Typed, ShotTypes
  <2> QED BY <2>1, <2>2
<1> QED BY <1>2, <1>3, <1>4, <1>5, <1>6 DEF Typed

LEMMA CalledTypes ==
    ASSUME Typed, NEW c \in Clients, CallFrame(c), CallSays(c)
    PROVE  Typed'
<1>1. PICK reqs \in Seq(Requests), k \in Calls, st \in Stages : CallMade(c, reqs, k, st)
  BY DEF CallSays
<1>2. OutputTypes'
  BY DEF Typed, CallFrame, OutputTypes
<1>3. WireTypes'
  <2>1. wire' \in [Clients -> Seq(Requests)]
    BY <1>1, SendTypes DEF Typed, CallMade
  <2> QED BY <2>1 DEF Typed, WireTypes, CallFrame
<1>4. ClientTypes'
  BY <1>1 DEF Typed, CallMade, ClientTypes, CallFrame
<1>5. ObjectTypes'
  BY DEF Typed, ObjectTypes, CallFrame
<1>6. ShotTypes'
  <2>1. <<c, Shot>> \in Clients \X Nat
    BY DEF Shot, Typed, ClientTypes
  <2>2. Follow \/ (shots' = shots /\ contexts' \subseteq contexts \cup {<<c, Shot>>})
    BY <1>1 DEF CallMade, Calling, Begins, Waits, SetsOrder, Ends, Shoots
  <2>3. UNCHANGED <<surf, held>>
    BY DEF CallFrame
  <2> QED BY <2>1, <2>2, <2>3 DEF Typed, ShotTypes, Follow
<1> QED BY <1>2, <1>3, <1>4, <1>5, <1>6 DEF Typed

LEMMA DoneTypes ==
    ASSUME Typed, NEW s \in held, controller_screenshooter_done(s)
    PROVE  Typed'
<1>1. s.client \in Clients /\ s.shot \in Nat
  BY DEF Typed, ShotTypes
<1>2. WireTypes'
  <2>1. PICK ok \in BOOLEAN : IF <<s.client, s.shot>> \in shots THEN Reply(s.client, <<Answer(s.shot, ok)>>)
                              ELSE UNCHANGED inbox
    BY DEF controller_screenshooter_done
  <2>2. Answer(s.shot, ok) \in Events
    BY <1>1 DEF Answer, Events
  <2>3. <<Answer(s.shot, ok)>> \in Seq(Events)
    BY <2>2
  <2>4. inbox' \in [Clients -> Seq(Events)]
    BY <1>1, <2>1, <2>3, ReplyTypes DEF Typed, WireTypes
  <2> QED BY <2>4 DEF Typed, WireTypes, controller_screenshooter_done
<1> QED BY <1>2 DEF Typed, OutputTypes, ClientTypes, ObjectTypes, ShotTypes,
           controller_screenshooter_done, outputs, orders, objects, library, bounds

LEMMA SurfaceTypes ==
    ASSUME Typed, NEW size \in Sizes \cup {0, Nothing}, surface_changes(size)
    PROVE  Typed'
BY DEF Typed, OutputTypes, WireTypes, ClientTypes, ObjectTypes, ShotTypes, surface_changes,
   outputs, orders, objects, library

LEMMA StillTypes ==
    ASSUME Typed, (Finished /\ Follow) \/ UNCHANGED vars
    PROVE  Typed'
<1>1. UNCHANGED screenVars /\ shots' \subseteq shots /\ contexts' \subseteq contexts /\ UNCHANGED <<surf, held>>
  BY DEF Finished, Follow, vars, shotVars
<1>2. OutputTypes' /\ WireTypes' /\ ClientTypes' /\ ObjectTypes'
  BY <1>1 DEF Typed, OutputTypes, WireTypes, ClientTypes, ObjectTypes, screenVars, outputs, orders, objects,
     library, bounds
<1>3. ShotTypes'
  BY <1>1, FollowTypes DEF Typed
<1> QED BY <1>2, <1>3 DEF Typed

LEMMA TypedStep == Typed /\ [Next]_vars => Typed'
<1> SUFFICES ASSUME Typed, [Next]_vars PROVE Typed'
  OBVIOUS
<1>1. ASSUME NEW c \in Clients, Handle(c) PROVE Typed'
  BY <1>1, HandleSays, LostTypes, ServedTypes
<1>2. ASSUME NEW c \in Clients, Receive(c) PROVE Typed'
  BY <1>2, ReceiveStep, ReceivedTypes
<1>3. ASSUME NEW c \in Clients, Take(c) \/ (CallLibrary(c) /\ Follow) PROVE Typed'
  BY <1>3, CallStep, CalledTypes
<1>4. ASSUME NEW c \in Clients, create_layerids_freed(c), Follow PROVE Typed'
  BY <1>4, FreedLost, LostTypes
<1> QED BY <1>1, <1>2, <1>3, <1>4, DoneTypes, SurfaceTypes, OutsideTypes, StillTypes DEF Next

LEMMA TypedInit == ShotsInit => Typed
<1> SUFFICES ASSUME ShotsInit PROVE Typed
  OBVIOUS
<1>1. OutputTypes
  <2>1. PICK Early \in SUBSET Outputs : \E q \in SetToSeqs(Early) :
            head = [n \in DOMAIN q |-> NewHead(q[n], TRUE, n - 1)]
    BY DEF ShotsInit, Init
  <2>2. PICK q \in SetToSeqs(Early) : head = [n \in DOMAIN q |-> NewHead(q[n], TRUE, n - 1)]
    BY <2>1
  <2>3. q \in [1 .. Cardinality(Early) -> Early]
    BY <2>2 DEF SetToSeqs
  <2>4. Cardinality(Early) \in Nat
    <3>1. IsFiniteSet(Early)
      BY ScreensAssumption, FS_Subset
    <3> QED BY <3>1, FS_CardinalityType
  <2>5. PICK N \in Nat : N = Cardinality(Early)
    BY <2>4
  <2>6. DOMAIN q = 1 .. N /\ \A n \in 1 .. N : q[n] \in Outputs
    BY <2>1, <2>3, <2>5
  <2>7. \A n \in 1 .. N : NewHead(q[n], TRUE, n - 1) \in Heads
    BY <2>6, ScreensAssumption DEF NewHead, Heads
  <2>8. head \in [1 .. N -> Heads] /\ DOMAIN head = 1 .. N
    BY <2>2, <2>6, <2>7
  <2>9. head \in Seq(Heads) /\ Len(head) = N
    BY <2>8
  <2>10. screens = 1 .. N /\ pend = [n \in 1 .. N |-> <<>>] /\ cur = pend
    BY <2>8 DEF ShotsInit, Init
  <2>11. pend \in Seq(Seq(Layers)) /\ Len(pend) = N
    <3>1. PICK L : L = Seq(Layers)
      OBVIOUS
    <3>2. PICK z \in L : z = <<>>
      <4>1. <<>> \in L
        BY <3>1
      <4> QED BY <4>1
    <3>3. pend = [n \in 1 .. N |-> z]
      BY <2>10, <3>2
    <3>4. pend \in Seq(L) /\ Len(pend) = N
      BY <3>3
    <3> QED BY <3>1, <3>4
  <2> QED BY <2>9, <2>10, <2>11 DEF OutputTypes
<1>2. WireTypes
  <2>1. <<>> \in Seq(Requests) /\ <<>> \in Seq(Events)
    OBVIOUS
  <2> QED BY <2>1 DEF ShotsInit, Init, WireTypes
<1>3. ClientTypes
  <2>1. "off" \in Stages /\ <<>> \in Seq(ScreenContexts) /\ Idle \in Calls
    BY DEF Stages, Idle, Calls
  <2> QED BY <2>1 DEF ShotsInit, Init, ClientTypes
<1>4. ObjectTypes /\ ShotTypes
  BY DEF ShotsInit, Init, ObjectTypes, ShotTypes
<1> QED BY <1>1, <1>2, <1>3, <1>4 DEF Typed

\* Every variable of the compositor and of its clients has its type: what waits
\* in a wire or an inbox is a request or an event of an output there has been,
\* and render orders are orders of layers.
THEOREM ScreensTyped == Spec => []Typed
<1>1. ShotsInit => Typed
  BY TypedInit
<1>2. Typed /\ [Next]_vars => Typed'
  BY TypedStep
<1> QED BY <1>1, <1>2, PTL DEF Spec

-----------------------------------------------------------------------------
(* Who the compositor knows, and what a step means to a client.            *)

IviWm == [ev |-> "ivi_wm"]
Owns(c, n) == <<c, n>> \in resources \/ <<c, n>> \in viewers \/ <<c, n>> \in shots \/ <<c, n>> \in contexts

Registered(c) ==
    IF c \in listening
    THEN /\ stage[c] \in {"globals", "bound", "ids", "on", "closing"}
         /\ \A r \in ToSet(wire[c]) : r.op # "get_registry"
         /\ Once(inbox[c], {IviWm})
         /\ stage[c] # "globals" => IviWm \notin ToSet(inbox[c])
    ELSE /\ inbox[c] = <<>> /\ ctx[c] = <<>>
         /\ \A n : ~Owns(c, n)
         /\ \/ stage[c] \in {"off", "lost"} /\ wire[c] = <<>>
            \/ stage[c] = "globals" /\ wire[c] = <<[op |-> "get_registry"], Sync>>

Base == Typed /\ \A c \in Clients : Registered(c)

\* Nothing changes for c, or nothing but what it is told.
SameShots(c) ==
    /\ \A k : <<c, k>> \in shots' <=> <<c, k>> \in shots
    /\ \A k : <<c, k>> \in contexts' <=> <<c, k>> \in contexts
    /\ \A s \in held \cup held' : s.client = c => (s \in held' <=> s \in held)
SameObjects(c) ==
    /\ c \in listening' <=> c \in listening
    /\ \A n : <<c, n>> \in resources' => <<c, n>> \in resources
    /\ \A n : <<c, n>> \in viewers' <=> <<c, n>> \in viewers
SameClient(c) ==
    /\ wire'[c] = wire[c] /\ stage'[c] = stage[c] /\ ctx'[c] = ctx[c] /\ call'[c] = call[c]
    /\ sent'[c] = sent[c]
SameScreens == head' = head /\ screens' = screens

Idles(c) ==
    /\ SameClient(c) /\ SameShots(c) /\ SameObjects(c) /\ SameScreens
    /\ inbox'[c] = inbox[c] /\ calls <= calls'

Told(c, e) == e \in Events /\ inbox'[c] = inbox[c] \o <<e>>
ToldIf(c, b, e) == IF b THEN Told(c, e) ELSE inbox'[c] = inbox[c]

Appears(c) ==
    /\ SameClient(c) /\ SameShots(c) /\ SameObjects(c) /\ calls' = calls
    /\ \E h \in Heads : head' = Append(head, h)
    /\ screens' = screens \cup {Len(head) + 1}
    /\ ToldIf(c, c \in listening, Event("global", Len(head) + 1))
Vanishes(c) ==
    /\ SameClient(c) /\ SameShots(c) /\ calls' = calls /\ head' = head
    /\ \E n \in screens :
          /\ screens' = screens \ {n}
          /\ c \in listening' <=> c \in listening
          /\ \A k : <<c, k>> \in resources' => <<c, k>> \in resources
          /\ \A k : k # n => (<<c, k>> \in viewers' <=> <<c, k>> \in viewers)
          /\ <<c, n>> \notin viewers'
          /\ ToldIf(c, c \in listening, Event("gone", n))
Resizes(c) ==
    /\ SameClient(c) /\ SameShots(c) /\ SameObjects(c) /\ calls' = calls /\ screens' = screens
    /\ \E n \in screens, m \in Modes :
          /\ head' = [head EXCEPT ![n].mode = m]
          /\ ToldIf(c, <<c, n>> \in viewers, ModeOf(head', n))
Leaves(c) ==
    /\ wire'[c] = <<>> /\ inbox'[c] = <<>> /\ ctx'[c] = <<>> /\ call'[c] = Idle
    /\ stage'[c] \in {"off", "lost"} /\ c \notin listening' /\ sent'[c] = sent[c]
    /\ \A n : <<c, n>> \notin resources' \cup viewers' \cup shots' \cup contexts'
    /\ held' = held /\ head' = head /\ screens' \subseteq screens /\ calls' = calls
Answers(c) ==
    /\ SameClient(c) /\ SameObjects(c) /\ SameScreens /\ calls' = calls
    /\ UNCHANGED <<shots, contexts>>
    /\ \E s \in held : /\ s.client = c /\ held' = held \ {s}
                       /\ \E ok \in BOOLEAN : ToldIf(c, <<c, s.shot>> \in shots, Answer(s.shot, ok))
Serves(c) ==
    /\ HandleFrame /\ wire[c] # <<>>
    /\ \E r \in Requests : r = Head(wire[c]) /\ Served(c, r)
Hears(c) ==
    ReceiveFrame(c) /\ \E e \in Events : e = Head(inbox[c]) /\ ReceiveSays(c, e)
Asks(c) == CallFrame(c) /\ CallSays(c)

LEMMA FollowSame ==
    ASSUME Base, Follow, NEW c \in Clients, stage'[c] = stage[c]
    PROVE  /\ \A k : <<c, k>> \in shots' <=> <<c, k>> \in shots
           /\ \A k : <<c, k>> \in contexts' <=> <<c, k>> \in contexts
           /\ SameShots(c)
<1>1. ASSUME NEW k, <<c, k>> \in shots \/ <<c, k>> \in contexts
      PROVE  Connected(c)'
  <2>1. c \in listening
    BY <1>1 DEF Base, Registered, Owns
  <2> QED BY <2>1 DEF Base, Registered, Connected
<1>2. \A k : <<c, k>>[1] = c
  OBVIOUS
<1> QED BY <1>1, <1>2 DEF Follow, SameShots

LEMMA ExceptAt ==
    ASSUME NEW E, NEW q \in Seq(E), NEW n \in 1 .. Len(q), NEW x \in E
    PROVE  /\ [q EXCEPT ![n] = x] \in Seq(E) /\ Len([q EXCEPT ![n] = x]) = Len(q)
           /\ [q EXCEPT ![n] = x][n] = x
           /\ \A k \in 1 .. Len(q) : k # n => [q EXCEPT ![n] = x][k] = q[k]
<1>1. DOMAIN q = 1 .. Len(q)
  OBVIOUS
<1> QED BY <1>1, ExceptSeq

LEMMA ModeEvent ==
    ASSUME OutputTypes, NEW n \in screens, NEW m \in Modes, head' = [head EXCEPT ![n].mode = m]
    PROVE  /\ ModeOf(head', n) \in Events
           /\ head' \in Seq(Heads) /\ Len(head') = Len(head)
           /\ head'[n] = [head[n] EXCEPT !.mode = m]
           /\ \A k \in 1 .. Len(head) : k # n => head'[k] = head[k]
<1>1. n \in 1 .. Len(head) /\ head[n] \in Heads /\ n \in Nat
  BY ScreenHas
<1>2. PICK x \in Heads : x = [head[n] EXCEPT !.mode = m]
  BY <1>1 DEF Heads
<1>3. head' = [head EXCEPT ![n] = x]
  BY <1>2
<1>4. /\ head' \in Seq(Heads) /\ Len(head') = Len(head)
      /\ head'[n] = x
      /\ \A k \in 1 .. Len(head) : k # n => head'[k] = head[k]
  <2>1. head \in Seq(Heads)
    BY DEF OutputTypes
  <2> QED BY <1>1, <1>3, <2>1, ExceptAt
<1>5. head'[n].mode = m
  BY <1>1, <1>2, <1>4 DEF Heads
<1>6. (head'[n].output \in Rotated) \in BOOLEAN
  OBVIOUS
<1> QED BY <1>1, <1>2, <1>4, <1>5, <1>6 DEF ModeOf, Events

LEMMA OutsideCases ==
    ASSUME Base, NEW c \in Clients, Outside, Follow
    PROVE  Idles(c) \/ Appears(c) \/ Vanishes(c) \/ Resizes(c) \/ Leaves(c)
<1>0. Typed /\ OutputTypes /\ calls \in Nat
  BY DEF Base, Typed, ClientTypes
<1>c. inbox[c] \in Seq(Events) /\ wire \in [Clients -> Seq(Requests)]
  BY <1>0 DEF Typed, WireTypes
<1>d. ASSUME NEW To, NEW e \in Events, Tell(To, e)
      PROVE  IF c \in To THEN Told(c, e) ELSE inbox'[c] = inbox[c]
  <2>1. Append(inbox[c], e) = inbox[c] \o <<e>>
    BY <1>c, AppendJoins
  <2> QED BY <2>1, <1>d DEF Tell, Told
<1>1. ASSUME NEW o \in Outputs, output_created_event(o)
      PROVE  Appears(c)
  <2>1. SameClient(c) /\ SameObjects(c) /\ calls' = calls
    BY <1>1 DEF output_created_event, Plug, library, objects, SameClient, SameObjects
  <2>2. SameShots(c)
    BY <2>1, FollowSame DEF SameClient
  <2>3. PICK h \in Heads : head' = Append(head, h)
    <3>1. NewHead(o, FALSE, FreeId) \in Heads
      BY <1>0, FreeIdNat, ScreensAssumption DEF NewHead, Heads
    <3> QED BY <1>1, <3>1 DEF output_created_event
  <2>4. Len(head') = Len(head) + 1
    BY <1>0, <2>3 DEF OutputTypes
  <2>5. screens' = screens \cup {Len(head) + 1} /\ Tell(listening, Event("global", Len(head) + 1))
    BY <1>1, <2>4 DEF output_created_event
  <2>6. Event("global", Len(head) + 1) \in Events
    BY <1>0 DEF OutputTypes, Event, Events
  <2>7. ToldIf(c, c \in listening, Event("global", Len(head) + 1))
    BY <1>d, <2>5, <2>6 DEF ToldIf
  <2> QED BY <2>1, <2>2, <2>3, <2>5, <2>7 DEF Appears
<1>2. ASSUME NEW n \in screens, output_destroyed_event(n)
      PROVE  Vanishes(c)
  <2>1. SameClient(c) /\ calls' = calls /\ head' = head /\ (c \in listening' <=> c \in listening)
    BY <1>2 DEF output_destroyed_event, Plug, library, SameClient
  <2>2. SameShots(c)
    BY <2>1, FollowSame DEF SameClient
  <2>3. /\ screens' = screens \ {n} /\ Tell(listening, Event("gone", n))
        /\ resources' = {r \in resources : r[2] # n} /\ viewers' = {v \in viewers : v[2] # n}
    BY <1>2 DEF output_destroyed_event, destroy_screen
  <2>4. \A k : <<c, k>>[2] = k
    OBVIOUS
  <2>5. Event("gone", n) \in Events
    BY <1>0 DEF OutputTypes, Event, Events
  <2>6. ToldIf(c, c \in listening, Event("gone", n))
    BY <1>d, <2>3, <2>5 DEF ToldIf
  <2> QED BY <2>1, <2>2, <2>3, <2>4, <2>6 DEF Vanishes
<1>3. ASSUME NEW n \in screens, NEW m \in Modes, output_resized_event(n, m)
      PROVE  Resizes(c)
  <2>1. SameClient(c) /\ SameObjects(c) /\ calls' = calls /\ screens' = screens
    BY <1>3 DEF output_resized_event, Plug, library, orders, objects, SameClient, SameObjects
  <2>2. SameShots(c)
    BY <2>1, FollowSame DEF SameClient
  <2> DEFINE To == {v[1] : v \in {w \in viewers : w[2] = n}}
  <2>3. head' = [head EXCEPT ![n].mode = m] /\ Tell(To, ModeOf(head', n))
    BY <1>3 DEF output_resized_event
  <2>4. c \in To <=> <<c, n>> \in viewers
    <3>1. viewers \subseteq Clients \X screens
      BY <1>0 DEF Typed, ObjectTypes
    <3>2. ASSUME <<c, n>> \in viewers PROVE c \in To
      <4>1. <<c, n>>[1] = c /\ <<c, n>>[2] = n
        OBVIOUS
      <4> QED BY <3>2, <4>1
    <3>3. ASSUME c \in To PROVE <<c, n>> \in viewers
      <4>1. PICK v \in viewers : v[1] = c /\ v[2] = n
        BY <3>3
      <4>2. v = <<v[1], v[2]>>
        BY <3>1, <4>1
      <4> QED BY <4>1, <4>2
    <3> QED BY <3>2, <3>3
  <2> HIDE DEF To
  <2>6. ModeOf(head', n) \in Events
    BY <1>0, <2>3, ModeEvent
  <2>5. ToldIf(c, <<c, n>> \in viewers, ModeOf(head', n))
    BY <1>d, <2>3, <2>4, <2>6 DEF ToldIf
  <2> QED BY <2>1, <2>2, <2>3, <2>5 DEF Resizes
<1>4. ASSUME \/ \E n \in screens, l \in Layers : others_set_order(n, l)
             \/ launch_client_process \/ ivi_shell_client_destroy
             \/ surface_event_configure \/ remove_bkgnd_surface
      PROVE  Idles(c)
  <2>1. UNCHANGED <<head, screens, library, objects, inbox, wire, sent, calls>>
    BY <1>4 DEF others_set_order, launch_client_process, ivi_shell_client_destroy,
       surface_event_configure, remove_bkgnd_surface, Background, Plug, orders, bounds, outputs
  <2>2. SameClient(c) /\ SameObjects(c) /\ SameScreens /\ inbox'[c] = inbox[c] /\ calls <= calls'
    BY <2>1, <1>0 DEF library, objects, SameClient, SameObjects, SameScreens
  <2> QED BY <2>2, FollowSame DEF Idles, SameClient
<1>5. ASSUME ivi_shell_destroy
      PROVE  Leaves(c)
  <2>1. /\ wire'[c] = <<>> /\ inbox'[c] = <<>> /\ ctx'[c] = <<>> /\ call'[c] = Idle
        /\ stage'[c] = "lost" /\ c \notin listening' /\ sent'[c] = sent[c]
        /\ resources' = {} /\ viewers' = {} /\ head' = head /\ screens' = {} /\ calls' = calls
    BY <1>5 DEF ivi_shell_destroy, orders, bounds
  <2>2. \A n : <<c, n>> \notin shots' /\ <<c, n>> \notin contexts' /\ held' = held
    <3>1. ~Connected(c)'
      BY <2>1 DEF Connected
    <3>2. \A n : <<c, n>>[1] = c
      OBVIOUS
    <3> QED BY <3>1, <3>2 DEF Follow
  <2> QED BY <2>1, <2>2 DEF Leaves
<1> QED BY <1>1, <1>2, <1>3, <1>4, <1>5 DEF Outside

LEMMA LostCases ==
    ASSUME Base, NEW c \in Clients, NEW d \in Clients, Lost(d), Follow, HandleFrame
    PROVE  IF c = d THEN Leaves(c) ELSE Idles(c)
<1>1. CASE c = d
  <2>1. /\ wire'[c] = <<>> /\ inbox'[c] = <<>> /\ ctx'[c] = <<>> /\ call'[c] = Idle
        /\ stage'[c] \in {"off", "lost"} /\ c \notin listening' /\ sent'[c] = sent[c]
        /\ resources' = {r \in resources : r[1] # c} /\ viewers' = {v \in viewers : v[1] # c}
        /\ head' = head /\ screens' = screens /\ calls' = calls
    BY <1>1 DEF Lost, orders, HandleFrame, Base, Typed, WireTypes, ClientTypes
  <2>2. \A n : <<c, n>>[1] = c
    OBVIOUS
  <2>3. \A n : <<c, n>> \notin shots' /\ <<c, n>> \notin contexts' /\ held' = held
    <3>1. ~Connected(c)'
      BY <2>1 DEF Connected
    <3> QED BY <3>1, <2>2 DEF Follow
  <2> QED BY <1>1, <2>1, <2>2, <2>3 DEF Leaves
<1>2. CASE c # d
  <2>1. /\ SameClient(c) /\ inbox'[c] = inbox[c] /\ SameScreens /\ calls' = calls
        /\ resources' = {r \in resources : r[1] # d} /\ viewers' = {v \in viewers : v[1] # d}
        /\ listening' = listening \ {d}
    BY <1>2 DEF Lost, orders, HandleFrame, Base, Typed, WireTypes, ClientTypes, SameClient, SameScreens
  <2>2. \A n : <<c, n>>[1] = c
    OBVIOUS
  <2>3. SameObjects(c) /\ calls <= calls'
    BY <1>2, <2>1, <2>2 DEF SameObjects, Base, Typed, ClientTypes
  <2>4. SameShots(c)
    BY <2>1, FollowSame DEF SameClient
  <2> QED BY <1>2, <2>1, <2>3, <2>4 DEF Idles
<1> QED BY <1>1, <1>2

LEMMA OthersServed ==
    ASSUME Base, NEW c \in Clients, NEW d \in Clients, c # d, NEW r \in Requests, Served(d, r), HandleFrame
    PROVE  Idles(c)
<1>0. Typed /\ calls \in Nat
  BY DEF Base, Typed, ClientTypes
<1>1. PICK evs \in Seq(Events) : Reply(d, evs) /\ EventsAfter(d, r, evs)
  BY DEF Served
<1>2. wire'[c] = wire[c] /\ inbox'[c] = inbox[c] /\ UNCHANGED <<stage, ctx, call>>
  BY <1>0, <1>1 DEF Served, Handled, Reply, Typed, WireTypes
<1>3. sent'[c] = sent[c]
  <2>1. CASE r.op = "get"
    <3>1. PICK q \in Seq(Layers) : sent' = [sent EXCEPT ![d] = q]
      BY <1>1, <2>1 DEF EventsAfter
    <3> QED BY <1>0, <3>1 DEF Typed, ClientTypes
  <2>2. CASE r.op # "get"
    BY <1>1, <2>2 DEF EventsAfter
  <2> QED BY <2>1, <2>2
<1>4. \A n, k : <<c, n>> # <<d, k>>
  OBVIOUS
<1>5. SameObjects(c)
  <2>1. ObjectsAfter(d, r)
    BY DEF Served
  <2>2. (c \in listening' <=> c \in listening)
    BY <2>1 DEF ObjectsAfter
  <2>3. \A n : /\ <<c, n>> \notin {<<d, k>> : k \in {i \in screens : r.op = "create_screen"}}
               /\ <<c, n>> \notin {<<d, k>> : k \in {i \in screens : r.op = "bind_output"}}
    BY <1>4
  <2> QED BY <2>1, <2>2, <2>3 DEF ObjectsAfter, SameObjects
<1>6. SameShots(c)
  <2>0. ShotsAfter(d, r)
    BY DEF Served
  <2>1. CASE r.op = "screenshot"
    <3>1. [client |-> d, shot |-> r.shot, n |-> r.n].client = d
      OBVIOUS
    <3>2. \A k : <<c, k>> # <<d, r.shot>>
      BY <1>4
    <3> QED BY <2>0, <2>1, <3>1, <3>2 DEF ShotsAfter, SameShots
  <2>2. CASE r.op # "screenshot" /\ Follow
    BY <1>2, <2>2, FollowSame
  <2>3. CASE r.op # "screenshot" /\ UNCHANGED <<shots, contexts>>
    BY <2>0, <2>3 DEF ShotsAfter, SameShots
  <2> QED BY <2>0, <2>1, <2>2, <2>3 DEF ShotsAfter
<1>7. SameScreens /\ calls <= calls'
  BY <1>0 DEF HandleFrame, SameScreens
<1> QED BY <1>2, <1>3, <1>5, <1>6, <1>7 DEF Idles, SameClient

LEMMA OthersHear ==
    ASSUME Base, NEW c \in Clients, NEW d \in Clients, c # d, ReceiveFrame(d), NEW e \in Events,
           ReceiveSays(d, e)
    PROVE  Idles(c)
<1>0. Typed /\ calls \in Nat
  BY DEF Base, Typed, ClientTypes
<1>1. PICK reqs \in Seq(Requests), C \in Seq(ScreenContexts), k \in Calls, st \in Stages :
        Received(d, e, reqs, C, k, st)
  BY DEF ReceiveSays
<1>2. wire'[c] = wire[c] /\ stage'[c] = stage[c] /\ ctx'[c] = ctx[c] /\ call'[c] = call[c]
  BY <1>0, <1>1 DEF Received, Send, Typed, WireTypes, ClientTypes
<1>3. sent'[c] = sent[c] /\ inbox'[c] = inbox[c] /\ SameObjects(c) /\ SameScreens /\ calls <= calls'
      /\ held' = held
  BY <1>0 DEF ReceiveFrame, SameObjects, SameScreens, Typed, WireTypes
<1>4. \A n, j : <<c, n>> # <<d, j>>
  OBVIOUS
<1>5. SameShots(c)
  <2>1. CASE e.ev \notin {"surface", "shot"}
    <3>1. Follow
      BY <1>1, <2>1 DEF Received, Receives
    <3> QED BY <1>2, <3>1, FollowSame
  <2>2. CASE e.ev \in {"surface", "shot"}
    <3>1. /\ shots' = shots
          /\ contexts' \in {contexts, contexts \cup {<<d, e.n>>}, contexts \ {<<d, e.n>>}}
      BY <1>1, <2>2 DEF Received, Receives
    <3> QED BY <1>3, <1>4, <3>1 DEF SameShots
  <2> QED BY <2>1, <2>2
<1> QED BY <1>2, <1>3, <1>5 DEF Idles, SameClient

LEMMA OthersAsk ==
    ASSUME Base, NEW c \in Clients, NEW d \in Clients, c # d, CallFrame(d), CallSays(d)
    PROVE  Idles(c)
<1>0. Typed /\ calls \in Nat
  BY DEF Base, Typed, ClientTypes
<1>1. PICK reqs \in Seq(Requests), k \in Calls, st \in Stages : CallMade(d, reqs, k, st)
  BY DEF CallSays
<1>2. wire'[c] = wire[c] /\ stage'[c] = stage[c] /\ call'[c] = call[c]
  BY <1>0, <1>1 DEF CallMade, Send, Typed, WireTypes, ClientTypes
<1>3. sent'[c] = sent[c] /\ inbox'[c] = inbox[c] /\ ctx'[c] = ctx[c]
      /\ SameObjects(c) /\ SameScreens /\ calls <= calls' /\ held' = held
  BY <1>0 DEF CallFrame, SameObjects, SameScreens
<1>4. \A n, j : <<c, n>> # <<d, j>>
  OBVIOUS
<1>5. SameShots(c)
  <2>1. Follow \/ (shots' = shots /\ contexts' \in {contexts, contexts \cup {<<d, Shot>>}})
    BY <1>1 DEF CallMade, Calling, Begins, Waits, SetsOrder, Ends, Shoots
  <2> QED BY <1>2, <1>3, <1>4, <2>1, FollowSame DEF SameShots
<1> QED BY <1>2, <1>3, <1>5 DEF Idles, SameClient

LEMMA DoneCases ==
    ASSUME Base, NEW c \in Clients, NEW s \in held, controller_screenshooter_done(s)
    PROVE  Idles(c) \/ Answers(c)
<1>0. Typed /\ calls \in Nat /\ s.client \in Clients
  BY DEF Base, Typed, ClientTypes, ShotTypes
<1>1. /\ UNCHANGED <<wire, stage, ctx, call, sent, resources, viewers, listening, head, screens, calls,
                     shots, contexts>>
      /\ held' = held \ {s}
  BY DEF controller_screenshooter_done, outputs, orders, objects, library, bounds
<1>2. PICK ok \in BOOLEAN : IF <<s.client, s.shot>> \in shots THEN Reply(s.client, <<Answer(s.shot, ok)>>)
                            ELSE UNCHANGED inbox
  BY DEF controller_screenshooter_done
<1>3. SameClient(c) /\ SameObjects(c) /\ SameScreens /\ calls <= calls'
  BY <1>0, <1>1 DEF SameClient, SameObjects, SameScreens
<1>4. CASE s.client = c
  <2>0. Answer(s.shot, ok) \in Events
    BY <1>0 DEF Answer, Events, Typed, ShotTypes
  <2>1. ToldIf(c, <<c, s.shot>> \in shots, Answer(s.shot, ok))
    BY <1>0, <1>2, <1>4, <2>0 DEF ToldIf, Told, Reply, Typed, WireTypes
  <2> QED BY <1>1, <1>3, <1>4, <2>1 DEF Answers
<1>5. CASE s.client # c
  <2>1. inbox'[c] = inbox[c]
    BY <1>0, <1>2, <1>5 DEF Reply, Typed, WireTypes
  <2>2. SameShots(c)
    BY <1>1, <1>5 DEF SameShots
  <2> QED BY <1>3, <2>1, <2>2 DEF Idles
<1> QED BY <1>4, <1>5

LEMMA StepCases ==
    ASSUME Base, [Next]_vars, NEW c \in Clients
    PROVE  \/ Idles(c) \/ Appears(c) \/ Vanishes(c) \/ Resizes(c) \/ Leaves(c) \/ Answers(c)
           \/ Serves(c) \/ Hears(c) \/ Asks(c)
<1>0. Typed /\ calls \in Nat
  BY DEF Base, Typed, ClientTypes
<1>1. ASSUME NEW d \in Clients, Handle(d)
      PROVE  Idles(c) \/ Leaves(c) \/ Serves(c)
  <2>1. PICK r \in Requests : /\ r = Head(wire[d]) /\ HandleFrame /\ wire[d] # <<>>
                              /\ (Lost(d) /\ Follow) \/ Served(d, r)
    BY <1>0, <1>1, HandleSays
  <2>2. CASE Lost(d) /\ Follow
    BY <2>1, <2>2, LostCases
  <2>3. CASE Served(d, r) /\ c = d
    BY <2>1, <2>3 DEF Serves
  <2>4. CASE Served(d, r) /\ c # d
    BY <2>1, <2>4, OthersServed
  <2> QED BY <2>1, <2>2, <2>3, <2>4
<1>2. ASSUME NEW d \in Clients, Receive(d)
      PROVE  Idles(c) \/ Hears(c)
  <2>1. PICK e \in Events : e = Head(inbox[d]) /\ ReceiveFrame(d) /\ ReceiveSays(d, e)
    BY <1>0, <1>2, ReceiveStep
  <2> QED BY <2>1, OthersHear DEF Hears
<1>3. ASSUME NEW d \in Clients, Take(d) \/ (CallLibrary(d) /\ Follow)
      PROVE  Idles(c) \/ Asks(c)
  BY <1>0, <1>3, CallStep, OthersAsk DEF Asks
<1>4. ASSUME NEW size, surface_changes(size)
      PROVE  Idles(c)
  BY <1>0, <1>4 DEF surface_changes, outputs, orders, objects, library, Idles, SameClient, SameShots,
     SameObjects, SameScreens
<1>5. ASSUME (Finished /\ Follow) \/ UNCHANGED vars
      PROVE  Idles(c)
  <2>1. SameClient(c) /\ SameObjects(c) /\ SameScreens /\ inbox'[c] = inbox[c] /\ calls <= calls'
    BY <1>0, <1>5 DEF Finished, vars, screenVars, outputs, orders, objects, library, bounds, SameClient,
       SameObjects, SameScreens
  <2>2. SameShots(c)
    <3>1. CASE Follow
      BY <2>1, <3>1, FollowSame DEF SameClient
    <3>2. CASE UNCHANGED vars
      BY <3>2 DEF vars, shotVars, SameShots
    <3> QED BY <1>5, <3>1, <3>2
  <2> QED BY <2>1, <2>2 DEF Idles
<1>6. ASSUME NEW d \in Clients, create_layerids_freed(d), Follow
      PROVE  Idles(c) \/ Leaves(c)
  BY <1>6, FreedLost, LostCases
<1> QED BY <1>1, <1>2, <1>3, <1>4, <1>5, <1>6, DoneCases, OutsideCases DEF Next

-----------------------------------------------------------------------------
(* What a step puts on the wire and in the inbox.                          *)

LEMMA SetOfMore ==
    ASSUME NEW E, NEW s \in Seq(E), NEW e \in E
    PROVE  s \o <<e>> \in Seq(E) /\ ToSet(s \o <<e>>) = ToSet(s) \cup {e}
<1>1. PICK t \in Seq(E) : t = <<e>>
  <2>1. <<e>> \in Seq(E)
    OBVIOUS
  <2> QED BY <2>1
<1>2. ToSet(t) = {e}
  BY <1>1, SetOfOne
<1>3. s \o t \in Seq(E) /\ ToSet(s \o t) = ToSet(s) \cup ToSet(t)
  BY SetOfJoin
<1> QED BY <1>1, <1>2, <1>3, Zenon

LEMMA SentWire ==
    ASSUME Typed, NEW c \in Clients, NEW q \in Seq(Requests), Send(c, q)
    PROVE  /\ wire'[c] = wire[c] \o q /\ wire'[c] \in Seq(Requests) /\ wire[c] \in Seq(Requests)
           /\ ToSet(wire'[c]) = ToSet(wire[c]) \cup ToSet(q)
<1>1. wire'[c] = wire[c] \o q /\ wire[c] \in Seq(Requests)
  BY DEF Send, Typed, WireTypes
<1> QED BY <1>1, SetOfJoin

LEMMA HandledWire ==
    ASSUME Typed, NEW c \in Clients, wire[c] # <<>>, Handled(c), NEW r, r = Head(wire[c])
    PROVE  /\ Cuts(wire[c], r, wire'[c]) /\ wire'[c] \in Seq(Requests) /\ wire[c] \in Seq(Requests)
           /\ ToSet(wire[c]) = {r} \cup ToSet(wire'[c])
<1>1. Cuts(wire[c], r, wire'[c]) /\ wire[c] \in Seq(Requests)
  BY DEF Handled, Typed, WireTypes, Cuts
<1> QED BY <1>1, SetOfTail

LEMMA RepliedInbox ==
    ASSUME Typed, NEW c \in Clients, NEW q \in Seq(Events), Reply(c, q)
    PROVE  /\ inbox'[c] = inbox[c] \o q /\ inbox'[c] \in Seq(Events) /\ inbox[c] \in Seq(Events)
           /\ ToSet(inbox'[c]) = ToSet(inbox[c]) \cup ToSet(q)
<1>1. inbox'[c] = inbox[c] \o q /\ inbox[c] \in Seq(Events)
  BY DEF Reply, Typed, WireTypes
<1> QED BY <1>1, SetOfJoin

LEMMA HeardInbox ==
    ASSUME Typed, NEW c \in Clients, ReceiveFrame(c), NEW e, e = Head(inbox[c])
    PROVE  /\ Cuts(inbox[c], e, inbox'[c]) /\ inbox'[c] \in Seq(Events) /\ inbox[c] \in Seq(Events)
           /\ ToSet(inbox[c]) = {e} \cup ToSet(inbox'[c])
<1>1. Cuts(inbox[c], e, inbox'[c]) /\ inbox[c] \in Seq(Events)
  BY DEF ReceiveFrame, Typed, WireTypes, Cuts
<1> QED BY <1>1, SetOfTail

LEMMA ToldInbox ==
    ASSUME Typed, NEW c \in Clients, NEW e, Told(c, e)
    PROVE  /\ inbox'[c] = inbox[c] \o <<e>> /\ inbox'[c] \in Seq(Events) /\ inbox[c] \in Seq(Events)
           /\ ToSet(inbox'[c]) = ToSet(inbox[c]) \cup {e}
           /\ e \in Events /\ <<e>> \in Seq(Events) /\ ToSet(<<e>>) = {e}
<1>1. inbox'[c] = inbox[c] \o <<e>> /\ inbox[c] \in Seq(Events) /\ e \in Events
  BY DEF Told, Typed, WireTypes
<1>2. <<e>> \in Seq(Events) /\ ToSet(<<e>>) = {e}
  BY <1>1, SetOfOne
<1> QED BY <1>1, <1>2, SetOfMore

\* An inbox that gets nothing in X holds at most one element of X as before.
LEMMA OnceTold ==
    ASSUME Typed, NEW c \in Clients, NEW e, Told(c, e), NEW X, Once(inbox[c], X),
           e \notin X \/ ToSet(inbox[c]) \cap X = {}
    PROVE  Once(inbox'[c], X)
<1>1. Once(<<e>>, X)
  BY OnceOne
<1>2. ToSet(inbox[c]) \cap X = {} \/ ToSet(<<e>>) \cap X = {}
  BY ToldInbox
<1> QED BY <1>1, <1>2, ToldInbox, OnceJoin

LEMMA OnceReplied ==
    ASSUME Typed, NEW c \in Clients, NEW q \in Seq(Events), Reply(c, q), NEW X, Once(inbox[c], X),
           Once(q, X), ToSet(inbox[c]) \cap X = {} \/ ToSet(q) \cap X = {}
    PROVE  Once(inbox'[c], X)
BY RepliedInbox, OnceJoin

LEMMA OnceHeard ==
    ASSUME Typed, NEW c \in Clients, ReceiveFrame(c), NEW e, e = Head(inbox[c]), NEW X, Once(inbox[c], X)
    PROVE  Once(inbox'[c], X) /\ (e \in X => ToSet(inbox'[c]) \cap X = {})
<1>1. Cuts(inbox[c], e, inbox'[c]) /\ inbox[c] \in Seq(Events)
  BY HeardInbox
<1> QED BY <1>1, OnceTail

\* What a client sends when it hears of an event, and in a call.
LEMMA HearsSends ==
    ASSUME NEW c, NEW e \in Events, NEW reqs \in Seq(Requests), NEW C, NEW k, NEW st,
           Received(c, e, reqs, C, k, st)
    PROVE  \A r \in ToSet(reqs) : \/ r.op \in {"bind_output", "create_screen", "screen_destroy", "sync"}
                                  \/ r.op = "surface_screenshot" /\ e.ev = "surface"
<1>0. Receives(c, e, reqs, C, k, st)
  BY DEF Received
<1>1. CASE e.ev = "global"
  <2>1. Request("bind_output", e.n).op = "bind_output" /\ Request("create_screen", e.n).op = "create_screen"
    BY DEF Request
  <2> QED BY <1>0, <1>1, <2>1 DEF Receives
<1>2. CASE reqs = <<>>
  BY <1>2, SetOfNone
<1>3. CASE e.ev = "gone"
  <2>1. Request("screen_destroy", e.n).op = "screen_destroy"
    BY DEF Request
  <2> QED BY <1>0, <1>3, <2>1 DEF Receives
<1>4. CASE e.ev = "done" /\ reqs # <<>>
  <2>1. PICK q \in Seq(Requests) : reqs = q \o <<Sync>> /\ \A r \in ToSet(q) : r.op = "create_screen"
    BY <1>0, <1>4 DEF Receives, Sync
  <2>2. Sync \in Requests
    BY RequestTypes DEF Sync
  <2>3. ToSet(reqs) = ToSet(q) \cup {Sync}
    BY <2>1, <2>2, SetOfMore
  <2> QED BY <2>1, <2>3 DEF Sync
<1>5. CASE e.ev = "surface" /\ reqs # <<>>
  <2>1. reqs = <<[op |-> "surface_screenshot", n |-> e.n, size |-> e.size]>>
    BY <1>0, <1>5 DEF Receives
  <2> QED BY <1>5, <2>1, SetOfOne
<1> QED BY <1>0, <1>1, <1>2, <1>3, <1>4, <1>5, EventFields DEF Receives

LEMMA CallSends ==
    ASSUME NEW c, NEW reqs \in Seq(Requests), NEW k, NEW st, Calling(c, reqs, k, st)
    PROVE  /\ SetsOrder(c, reqs, k, st) => \A r \in ToSet(reqs) : r.op \in {"clear", "add", "remove"}
           /\ ~SetsOrder(c, reqs, k, st) =>
                 \A r \in ToSet(reqs) : \/ r.op = "get_registry" /\ stage[c] = "off"
                                        \/ r.op \in {"sync", "get", "commit", "screen_destroy", "disconnect",
                                                      "screenshot", "surface_get"}
<1>0. Sync \in Requests
  BY RequestTypes DEF Sync
<1>1. CASE Begins(c, reqs, k, st)
  <2>1. PICK a : a = [op |-> "get_registry"]
    OBVIOUS
  <2>2. reqs = <<a, Sync>> /\ stage[c] = "off"
    BY <1>1, <2>1 DEF Begins
  <2>3. ToSet(reqs) = {a, Sync}
    BY <2>2, SetOfTwo
  <2>4. ~SetsOrder(c, reqs, k, st)
    BY <1>1 DEF Begins, SetsOrder
  <2> QED BY <2>1, <2>2, <2>3, <2>4 DEF Sync
<1>2. CASE SetsOrder(c, reqs, k, st)
  BY <1>2 DEF SetsOrder
<1>3. CASE Waits(c, reqs, k, st)
  <2>1. PICK q \in Seq(Requests) :
          /\ reqs = q \o <<Sync>>
          /\ \/ \E x \in ToSet(ctx[c]) : k = Request("layers", x.n) /\ q = <<Request("get", x.n)>>
             \/ k \in {Request("screens", 0), Request("commit", 0)} /\ \A r \in ToSet(q) : r.op = "commit"
    BY <1>3 DEF Waits
  <2>2. \A r \in ToSet(q) : r.op \in {"get", "commit"}
    <3>1. \A n : Request("get", n).op = "get"
      BY DEF Request
    <3> QED BY <2>1, <3>1, SetOfOne
  <2>3. ToSet(reqs) = ToSet(q) \cup {Sync}
    BY <1>0, <2>1, SetOfMore
  <2> QED BY <1>2, <2>2, <2>3 DEF Sync
<1>4. CASE Ends(c, reqs, k, st)
  BY <1>2, <1>4, SetOfNone DEF Ends
<1>5. CASE Shoots(c, reqs, k, st)
  <2>1. CASE reqs = <<>>
    BY <2>1, SetOfNone
  <2>2. CASE \E n \in Nat : reqs = <<[op |-> "screenshot", n |-> n, shot |-> Shot]>>
    <3>1. \A r \in ToSet(reqs) : r.op = "screenshot"
      BY <2>2, SetOfOne
    <3> QED BY <1>2, <3>1
  <2>3. CASE reqs = <<Request("surface_get", Shot)>>
    <3>1. Request("surface_get", Shot).op = "surface_get"
      BY DEF Request
    <3>2. \A r \in ToSet(reqs) : r.op = "surface_get"
      BY <2>3, <3>1, SetOfOne
    <3> QED BY <1>2, <3>2
  <2> QED BY <1>5, <2>1, <2>2, <2>3 DEF Shoots
<1> QED BY <1>1, <1>2, <1>3, <1>4, <1>5 DEF Calling

-----------------------------------------------------------------------------
(* A client is registered in every state.                                  *)

LEMMA IdlesRegistered ==
    ASSUME Base, NEW c \in Clients,
           Idles(c) \/ Appears(c) \/ Vanishes(c) \/ Resizes(c) \/ Leaves(c) \/ Answers(c)
    PROVE  Registered(c)'
<1>0. Typed /\ Registered(c)
  BY DEF Base
<1>1. CASE Idles(c)
  BY <1>0, <1>1 DEF Idles, SameClient, SameObjects, SameShots, Registered, Owns
<1>2. CASE Leaves(c)
  BY <1>2 DEF Leaves, Registered, Owns
<1>3. ASSUME SameClient(c), c \in listening' <=> c \in listening,
             \A n : <<c, n>> \in resources' => <<c, n>> \in resources,
             \A n : <<c, n>> \in viewers' => <<c, n>> \in viewers,
             \A n : <<c, n>> \in shots' <=> <<c, n>> \in shots,
             \A n : <<c, n>> \in contexts' <=> <<c, n>> \in contexts,
             NEW e, Told(c, e) \/ inbox'[c] = inbox[c], e # IviWm,
             c \notin listening => inbox'[c] = inbox[c]
      PROVE  Registered(c)'
  <2>1. CASE c \in listening
    <3>1. CASE Told(c, e)
      <4>1. Once(inbox'[c], {IviWm})
        BY <1>0, <1>3, <2>1, <3>1, OnceTold DEF Registered
      <4>2. IviWm \in ToSet(inbox'[c]) => IviWm \in ToSet(inbox[c])
        <5>1. ToSet(inbox'[c]) = ToSet(inbox[c]) \cup {e}
          BY <1>0, <3>1, ToldInbox
        <5> QED BY <5>1, <1>3
      <4> QED BY <1>0, <1>3, <2>1, <4>1, <4>2 DEF Registered, SameClient
    <3>2. CASE inbox'[c] = inbox[c]
      BY <1>0, <1>3, <2>1, <3>2 DEF Registered, SameClient
    <3> QED BY <1>3, <3>1, <3>2
  <2>2. CASE c \notin listening
    <3>1. inbox'[c] = inbox[c]
      BY <1>3, <2>2
    <3> QED BY <1>0, <1>3, <2>2, <3>1 DEF Registered, SameClient, Owns
  <2> QED BY <2>1, <2>2
<1>4. CASE Appears(c)
  <2>1. Event("global", Len(head) + 1) # IviWm
    BY EventDiffers DEF IviWm
  <2>2. /\ c \in listening' <=> c \in listening
        /\ \A n : <<c, n>> \in resources' => <<c, n>> \in resources
        /\ \A n : <<c, n>> \in viewers' => <<c, n>> \in viewers
        /\ \A n : <<c, n>> \in shots' <=> <<c, n>> \in shots
        /\ \A n : <<c, n>> \in contexts' <=> <<c, n>> \in contexts
    BY <1>4 DEF Appears, SameObjects, SameShots
  <2>3. /\ SameClient(c)
        /\ Told(c, Event("global", Len(head) + 1)) \/ inbox'[c] = inbox[c]
        /\ c \notin listening => inbox'[c] = inbox[c]
    BY <1>4 DEF Appears, ToldIf
  <2> QED BY <2>1, <2>2, <2>3, <1>3
<1>5. CASE Vanishes(c)
  <2>1. PICK n \in screens : /\ ToldIf(c, c \in listening, Event("gone", n))
                             /\ \A k : k # n => (<<c, k>> \in viewers' <=> <<c, k>> \in viewers)
                             /\ <<c, n>> \notin viewers'
    BY <1>5 DEF Vanishes
  <2>2. Event("gone", n) # IviWm
    BY DEF Event, IviWm
  <2>3. /\ \A k : <<c, k>> \in resources' => <<c, k>> \in resources
        /\ c \in listening' <=> c \in listening
    BY <1>5 DEF Vanishes
  <2>4. \A k : <<c, k>> \in viewers' => <<c, k>> \in viewers
    BY <2>1
  <2>5. /\ SameClient(c)
        /\ \A k : <<c, k>> \in shots' <=> <<c, k>> \in shots
        /\ \A k : <<c, k>> \in contexts' <=> <<c, k>> \in contexts
    BY <1>5 DEF Vanishes, SameShots
  <2>6. /\ Told(c, Event("gone", n)) \/ inbox'[c] = inbox[c]
        /\ c \notin listening => inbox'[c] = inbox[c]
    BY <2>1 DEF ToldIf
  <2> QED BY <1>3, <2>2, <2>3, <2>4, <2>5, <2>6
<1>6. CASE Resizes(c)
  <2>1. PICK n \in screens : ToldIf(c, <<c, n>> \in viewers, ModeOf(head', n))
    BY <1>6 DEF Resizes
  <2>2. ModeOf(head', n) # IviWm
    BY DEF ModeOf, IviWm
  <2>3. <<c, n>> \in viewers => c \in listening
    BY <1>0 DEF Registered, Owns
  <2> QED BY <1>3, <1>6, <2>1, <2>2, <2>3 DEF Resizes, SameObjects, SameShots, ToldIf
<1>7. CASE Answers(c)
  <2>1. PICK s \in held, ok \in BOOLEAN : ToldIf(c, <<c, s.shot>> \in shots, Answer(s.shot, ok))
    BY <1>7 DEF Answers
  <2>2. Answer(s.shot, ok) # IviWm
    BY DEF Answer, IviWm
  <2>3. <<c, s.shot>> \in shots => c \in listening
    BY <1>0 DEF Registered, Owns
  <2> QED BY <1>3, <1>7, <2>1, <2>2, <2>3 DEF Answers, SameObjects, ToldIf
<1> QED BY <1>1, <1>2, <1>4, <1>5, <1>6, <1>7

LEMMA ServesRegistered ==
    ASSUME Base, NEW c \in Clients, Serves(c)
    PROVE  Registered(c)'
<1>0. Typed /\ Registered(c) /\ wire[c] # <<>>
  BY DEF Base, Serves
<1>1. PICK r \in Requests : r = Head(wire[c]) /\ Served(c, r)
  BY DEF Serves
<1>2. PICK evs \in Seq(Events) : Reply(c, evs) /\ EventsAfter(c, r, evs)
  BY <1>1 DEF Served
<1>3. stage'[c] = stage[c] /\ ctx'[c] = ctx[c] /\ Handled(c) /\ ObjectsAfter(c, r)
  BY <1>1 DEF Served
<1>4. CASE c \in listening
  <2>1. r.op # "get_registry" /\ \A q \in ToSet(wire'[c]) : q.op # "get_registry"
    BY <1>0, <1>1, <1>3, <1>4, HandledWire DEF Registered
  <2>2. IviWm \notin ToSet(evs)
    <3>1. <<r.op, "ivi_wm">> \notin Answering
      BY <2>1 DEF Answering
    <3> QED BY <1>2, <3>1 DEF EventsAfter, IviWm
  <2>3. Once(evs, {IviWm})
    BY <2>2, OnceApart
  <2>4. Once(inbox'[c], {IviWm})
    BY <1>0, <1>2, <1>4, <2>2, <2>3, OnceReplied DEF Registered
  <2>5. IviWm \in ToSet(inbox'[c]) => IviWm \in ToSet(inbox[c])
    BY <1>0, <1>2, <2>2, RepliedInbox
  <2>6. c \in listening'
    BY <1>3, <1>4 DEF ObjectsAfter
  <2> QED BY <1>0, <1>3, <1>4, <2>1, <2>4, <2>5, <2>6 DEF Registered
<1>5. CASE c \notin listening
  <2>1. wire[c] = <<[op |-> "get_registry"], Sync>> /\ stage[c] = "globals" /\ inbox[c] = <<>>
    BY <1>0, <1>5 DEF Registered
  <2>2. r.op = "get_registry"
    BY <1>1, <2>1
  <2>3. wire'[c] = Tail(wire[c])
    BY <1>0, <1>1, <1>3, HandledWire DEF Cuts
  <2>4. wire'[c] = <<Sync>>
    <3>1. PICK a : a = [op |-> "get_registry"]
      OBVIOUS
    <3>2. Tail(<<a, Sync>>) = <<Sync>>
      OBVIOUS
    <3> QED BY <2>1, <2>3, <3>1, <3>2, Zenon
  <2>5. ToSet(wire'[c]) = {Sync}
    BY <2>4, SetOfOne
  <2>6. Once(evs, {IviWm})
    BY <1>2, <2>2 DEF EventsAfter, Announces, IviWm
  <2>7. inbox'[c] = <<>> \o evs
    BY <1>0, <1>2, <2>1, RepliedInbox
  <2>8. inbox'[c] = evs
    BY <2>7
  <2>9. c \in listening'
    BY <1>3, <2>2 DEF ObjectsAfter
  <2> QED BY <1>3, <2>1, <2>5, <2>6, <2>8, <2>9 DEF Registered, Sync
<1> QED BY <1>4, <1>5

LEMMA HearsRegistered ==
    ASSUME Base, NEW c \in Clients, Hears(c)
    PROVE  Registered(c)'
<1>0. Typed /\ Registered(c) /\ ReceiveFrame(c)
  BY DEF Base, Hears
<1>1. PICK e \in Events : e = Head(inbox[c]) /\ ReceiveSays(c, e)
  BY DEF Hears
<1>2. PICK reqs \in Seq(Requests), C \in Seq(ScreenContexts), k \in Calls, st \in Stages :
        Received(c, e, reqs, C, k, st)
  BY <1>1 DEF ReceiveSays
<1>3. c \in listening /\ c \in listening'
  BY <1>0 DEF Registered, ReceiveFrame
<1>4. \A r \in ToSet(reqs) : r.op # "get_registry"
  BY <1>2, HearsSends
<1>5. \A r \in ToSet(wire'[c]) : r.op # "get_registry"
  <2>1. ToSet(wire'[c]) = ToSet(wire[c]) \cup ToSet(reqs)
    BY <1>0, <1>2, SentWire DEF Received
  <2> QED BY <1>0, <1>3, <1>4, <2>1 DEF Registered
<1>6. Once(inbox'[c], {IviWm}) /\ (e = IviWm => IviWm \notin ToSet(inbox'[c]))
  BY <1>0, <1>1, <1>3, OnceHeard DEF Registered
<1>7. ToSet(inbox'[c]) \subseteq ToSet(inbox[c]) /\ e \in ToSet(inbox[c])
  BY <1>0, <1>1, HeardInbox
<1>8. stage'[c] = st
  BY <1>0, <1>2 DEF Received, Typed, ClientTypes
<1>9. CASE e.ev = "ivi_wm"
  <2>1. e = IviWm /\ st = "bound"
    BY <1>2, <1>9, EventFields DEF Received, Receives, IviWm
  <2> QED BY <1>3, <1>5, <1>6, <1>8, <2>1 DEF Registered
<1>10. CASE e.ev # "ivi_wm"
  <2>1. \/ st = stage[c]
        \/ stage[c] \in {"bound", "ids"} /\ st \in {"ids", "on"}
    BY <1>2, <1>10, EventFields DEF Received, Receives
  <2> QED BY <1>0, <1>3, <1>5, <1>6, <1>7, <1>8, <2>1 DEF Registered
<1> QED BY <1>9, <1>10

LEMMA AsksRegistered ==
    ASSUME Base, NEW c \in Clients, Asks(c)
    PROVE  Registered(c)'
<1>0. Typed /\ Registered(c) /\ CallFrame(c)
  BY DEF Base, Asks
<1>1. PICK reqs \in Seq(Requests), k \in Calls, st \in Stages : CallMade(c, reqs, k, st)
  BY DEF Asks, CallSays
<1>2. /\ stage'[c] = st /\ inbox'[c] = inbox[c] /\ ctx'[c] = ctx[c]
      /\ UNCHANGED <<listening, resources, viewers>>
  BY <1>0, <1>1 DEF CallMade, CallFrame, Typed, ClientTypes
<1>3. wire'[c] = wire[c] \o reqs /\ ToSet(wire'[c]) = ToSet(wire[c]) \cup ToSet(reqs)
  BY <1>0, <1>1, SentWire DEF CallMade
<1>4. CASE Begins(c, reqs, k, st)
  <2>1. stage[c] = "off" /\ c \notin listening /\ wire[c] = <<>>
    BY <1>0, <1>4 DEF Begins, Registered
  <2>2. wire'[c] = reqs
    BY <1>3, <2>1
  <2>3. \A n : ~Owns(c, n)'
    BY <1>0, <1>2, <1>4, <2>1 DEF Registered, Owns, Begins, Follow
  <2> QED BY <1>0, <1>2, <1>4, <2>1, <2>2, <2>3 DEF Registered, Begins
<1>5. CASE Ends(c, reqs, k, st) /\ stage[c] = "lost"
  <2>1. c \notin listening /\ wire[c] = <<>> /\ st = "off" /\ reqs = <<>>
    BY <1>0, <1>5 DEF Ends, Registered
  <2>2. wire'[c] = <<>>
    BY <1>3, <2>1
  <2>3. \A n : ~Owns(c, n)'
    BY <1>0, <1>2, <1>5, <2>1 DEF Registered, Owns, Ends, Follow
  <2> QED BY <1>0, <1>2, <2>1, <2>2, <2>3 DEF Registered
<1>6. ASSUME stage[c] = "on", st \in {"on", "closing"}, \A r \in ToSet(reqs) : r.op # "get_registry"
      PROVE  Registered(c)'
  <2>1. c \in listening
    BY <1>0, <1>6 DEF Registered
  <2> QED BY <1>0, <1>2, <1>3, <1>6, <2>1 DEF Registered
<1>7. CASE ~Begins(c, reqs, k, st) /\ ~(Ends(c, reqs, k, st) /\ stage[c] = "lost")
  <2>1. stage[c] = "on" /\ st \in {"on", "closing"} /\ Calling(c, reqs, k, st)
    BY <1>1, <1>7 DEF CallMade, Calling, Waits, SetsOrder, Ends, Shoots
  <2>2. \A r \in ToSet(reqs) : r.op # "get_registry"
    BY <2>1, CallSends
  <2> QED BY <1>6, <2>1, <2>2
<1> QED BY <1>4, <1>5, <1>7

LEMMA BaseInit == ShotsInit => Base
<1>1. ASSUME ShotsInit, NEW c \in Clients PROVE Registered(c)
  BY <1>1 DEF ShotsInit, Init, Registered, Owns
<1> QED BY <1>1, TypedInit DEF Base

LEMMA BaseStep == Base /\ [Next]_vars => Base'
<1> SUFFICES ASSUME Base, [Next]_vars PROVE Base'
  OBVIOUS
<1>1. ASSUME NEW c \in Clients PROVE Registered(c)'
  BY StepCases, IdlesRegistered, ServesRegistered, HearsRegistered, AsksRegistered
<1>2. Typed'
  BY TypedStep DEF Base
<1> QED BY <1>1, <1>2 DEF Base

LEMMA BaseSound == Base => ResourcesSound
<1> SUFFICES ASSUME Base, NEW r \in resources PROVE r[2] \in screens /\ r[1] \in listening
  BY DEF ResourcesSound
<1>1. r \in Clients \X screens
  BY DEF Base, Typed, ObjectTypes
<1>2. PICK c \in Clients, n \in screens : r = <<c, n>>
  BY <1>1
<1>3. c \in listening
  BY <1>2 DEF Base, Registered, Owns
<1> QED BY <1>2, <1>3

\* No ivi_wm_screen object outlives the screen it points to or its client
\* (destroy_screen, ivi_shell_destroy, controller_create_screen).
THEOREM ResourcesAlwaysSound == Spec => []ResourcesSound
<1>1. ShotsInit => Base
  BY BaseInit
<1>2. Base /\ [Next]_vars => Base'
  BY BaseStep
<1>3. Base => ResourcesSound
  BY BaseSound
<1> QED BY <1>1, <1>2, <1>3, PTL DEF Spec

-----------------------------------------------------------------------------
(* Where a screenshot is: on the wire, with weston or in the inbox.        *)

ShotRequests(k) ==
    {r \in Requests : \/ r.op = "screenshot" /\ r.shot = k
                      \/ r.op \in {"surface_get", "surface_screenshot"} /\ r.n = k}
ShotAnswers(k) == {e \in Events : e.ev \in {"surface", "shot"} /\ e.n = k}

Wired(c, k) == ToSet(wire[c]) \cap ShotRequests(k)
Boxed(c, k) == ToSet(inbox[c]) \cap ShotAnswers(k)
Holding(c, k) == {s \in held : s.client = c /\ s.shot = k}

Waiting(c, k) ==
    \/ \E r \in Wired(c, k) : r.op # "surface_get"
    \/ Holding(c, k) # {} /\ <<c, k>> \in shots
    \/ \E e \in Boxed(c, k) : e.ev = "shot"

\* The shot k of c is in one place, its struct is there, and so is what its
\* call waits for.
ShotOf(c, k) ==
    /\ Once(wire[c], ShotRequests(k)) /\ Once(inbox[c], ShotAnswers(k))
    /\ \A s, t \in Holding(c, k) : s = t
    /\ Wired(c, k) = {} \/ Boxed(c, k) = {}
    /\ Wired(c, k) = {} \/ Holding(c, k) = {}
    /\ Boxed(c, k) = {} \/ Holding(c, k) = {}
    /\ Wired(c, k) # {} \/ Boxed(c, k) # {} \/ Holding(c, k) # {} => k \in 0 .. calls
    /\ \A r \in Wired(c, k) : r.op # "surface_get" => <<c, k>> \in contexts
    /\ \A e \in Boxed(c, k) : e.ev = "shot" => <<c, k>> \in contexts
    /\ Holding(c, k) # {} /\ <<c, k>> \in shots => <<c, k>> \in contexts
    /\ call[c].op = "shot" /\ call[c].n = k => Waiting(c, k)

\* A step that has nothing to do with the shot.
Untouched(c, k) ==
    /\ Wired(c, k)' = Wired(c, k) /\ Once(wire'[c], ShotRequests(k))
    /\ Boxed(c, k)' = Boxed(c, k) /\ Once(inbox'[c], ShotAnswers(k))
    /\ Holding(c, k)' = Holding(c, k)
    /\ <<c, k>> \in shots' <=> <<c, k>> \in shots
    /\ <<c, k>> \in contexts' <=> <<c, k>> \in contexts
    /\ calls <= calls'
    /\ call'[c] = call[c] \/ call'[c].op # "shot" \/ call'[c].n # k

LEMMA UntouchedStays ==
    ASSUME Typed, Typed', NEW c \in Clients, NEW k, ShotOf(c, k), Untouched(c, k)
    PROVE  ShotOf(c, k)'
<1>1. calls \in Nat /\ calls' \in Nat
  BY DEF Typed, ClientTypes
<1>2. ShotRequests(k)' = ShotRequests(k) /\ ShotAnswers(k)' = ShotAnswers(k)
  BY DEF ShotRequests, ShotAnswers
<1>3. Waiting(c, k) => Waiting(c, k)'
  BY DEF Untouched, Waiting
<1>4. /\ Once(wire'[c], ShotRequests(k)) /\ Once(inbox'[c], ShotAnswers(k))
      /\ \A s, t \in Holding(c, k)' : s = t
      /\ Wired(c, k)' = {} \/ Boxed(c, k)' = {}
      /\ Wired(c, k)' = {} \/ Holding(c, k)' = {}
      /\ Boxed(c, k)' = {} \/ Holding(c, k)' = {}
  BY DEF ShotOf, Untouched
<1>5. Wired(c, k)' # {} \/ Boxed(c, k)' # {} \/ Holding(c, k)' # {} => k \in 0 .. calls'
  <2>1. k \in 0 .. calls => k \in 0 .. calls'
    BY <1>1 DEF Untouched
  <2> QED BY <2>1 DEF ShotOf, Untouched
<1>6. /\ \A r \in Wired(c, k)' : r.op # "surface_get" => <<c, k>> \in contexts'
      /\ \A e \in Boxed(c, k)' : e.ev = "shot" => <<c, k>> \in contexts'
      /\ Holding(c, k)' # {} /\ <<c, k>> \in shots' => <<c, k>> \in contexts'
  BY DEF ShotOf, Untouched
<1>7. call'[c].op = "shot" /\ call'[c].n = k => Waiting(c, k)'
  BY <1>3 DEF ShotOf, Untouched
<1> QED BY <1>2, <1>4, <1>5, <1>6, <1>7 DEF ShotOf

LEMMA HoldingSame ==
    ASSUME NEW c, NEW k, SameShots(c)
    PROVE  /\ Holding(c, k)' = Holding(c, k)
           /\ <<c, k>> \in shots' <=> <<c, k>> \in shots
           /\ <<c, k>> \in contexts' <=> <<c, k>> \in contexts
BY DEF SameShots, Holding

LEMMA WiredSend ==
    ASSUME Typed, NEW c \in Clients, NEW q \in Seq(Requests), Send(c, q), NEW k,
           Once(wire[c], ShotRequests(k)), ToSet(q) \cap ShotRequests(k) = {}
    PROVE  Wired(c, k)' = Wired(c, k) /\ Once(wire'[c], ShotRequests(k))
<1>1. /\ wire'[c] = wire[c] \o q /\ wire[c] \in Seq(Requests)
      /\ ToSet(wire'[c]) = ToSet(wire[c]) \cup ToSet(q)
  BY SentWire
<1>2. Once(q, ShotRequests(k))
  BY OnceApart
<1>3. Once(wire'[c], ShotRequests(k))
  BY <1>1, <1>2, OnceJoin
<1>4. ShotRequests(k)' = ShotRequests(k)
  BY DEF ShotRequests
<1>5. Wired(c, k)' = Wired(c, k)
  BY <1>1, <1>4 DEF Wired
<1> QED BY <1>3, <1>5

LEMMA WiredHandled ==
    ASSUME Typed, NEW c \in Clients, wire[c] # <<>>, Handled(c), NEW r, r = Head(wire[c]), NEW k,
           Once(wire[c], ShotRequests(k))
    PROVE  /\ Once(wire'[c], ShotRequests(k)) /\ r \in ToSet(wire[c])
           /\ r \notin ShotRequests(k) => Wired(c, k)' = Wired(c, k)
           /\ r \in ShotRequests(k) => r \in Wired(c, k) /\ Wired(c, k)' = {}
<1>1. /\ Cuts(wire[c], r, wire'[c]) /\ wire[c] \in Seq(Requests)
      /\ ToSet(wire[c]) = {r} \cup ToSet(wire'[c])
  BY HandledWire
<1>2. Once(wire'[c], ShotRequests(k)) /\ (r \in ShotRequests(k) => ToSet(wire'[c]) \cap ShotRequests(k) = {})
  BY <1>1, OnceTail
<1>3. ShotRequests(k)' = ShotRequests(k)
  BY DEF ShotRequests
<1> QED BY <1>1, <1>2, <1>3 DEF Wired

LEMMA BoxedHeard ==
    ASSUME Typed, NEW c \in Clients, ReceiveFrame(c), NEW e, e = Head(inbox[c]), NEW k,
           Once(inbox[c], ShotAnswers(k))
    PROVE  /\ Once(inbox'[c], ShotAnswers(k)) /\ e \in ToSet(inbox[c])
           /\ e \notin ShotAnswers(k) => Boxed(c, k)' = Boxed(c, k)
           /\ e \in ShotAnswers(k) => e \in Boxed(c, k) /\ Boxed(c, k)' = {}
<1>1. ToSet(inbox[c]) = {e} \cup ToSet(inbox'[c])
  BY HeardInbox
<1>2. Once(inbox'[c], ShotAnswers(k)) /\ (e \in ShotAnswers(k) => ToSet(inbox'[c]) \cap ShotAnswers(k) = {})
  BY OnceHeard
<1>3. ShotAnswers(k)' = ShotAnswers(k)
  BY DEF ShotAnswers
<1> QED BY <1>1, <1>2, <1>3 DEF Boxed

LEMMA BoxedReplied ==
    ASSUME Typed, NEW c \in Clients, NEW q \in Seq(Events), Reply(c, q), NEW k,
           Once(inbox[c], ShotAnswers(k)), ToSet(q) \cap ShotAnswers(k) = {}
    PROVE  Boxed(c, k)' = Boxed(c, k) /\ Once(inbox'[c], ShotAnswers(k))
<1>1. ToSet(inbox'[c]) = ToSet(inbox[c]) \cup ToSet(q)
  BY RepliedInbox
<1>2. Once(q, ShotAnswers(k))
  BY OnceApart
<1>3. Once(inbox'[c], ShotAnswers(k))
  BY <1>2, OnceReplied
<1>4. ShotAnswers(k)' = ShotAnswers(k)
  BY DEF ShotAnswers
<1>5. Boxed(c, k)' = Boxed(c, k)
  BY <1>1, <1>4 DEF Boxed
<1> QED BY <1>3, <1>5

LEMMA BoxedTold ==
    ASSUME Typed, NEW c \in Clients, NEW e, Told(c, e), NEW k, Once(inbox[c], ShotAnswers(k))
    PROVE  /\ e \notin ShotAnswers(k) => Boxed(c, k)' = Boxed(c, k) /\ Once(inbox'[c], ShotAnswers(k))
           /\ Boxed(c, k) = {} => Once(inbox'[c], ShotAnswers(k))
           /\ Boxed(c, k)' \subseteq Boxed(c, k) \cup {e}
           /\ e \in ShotAnswers(k) => e \in Boxed(c, k)'
<1>1. ToSet(inbox'[c]) = ToSet(inbox[c]) \cup {e}
  BY ToldInbox
<1>2. e \notin ShotAnswers(k) \/ Boxed(c, k) = {} => Once(inbox'[c], ShotAnswers(k))
  BY OnceTold DEF Boxed
<1>3. ShotAnswers(k)' = ShotAnswers(k)
  BY DEF ShotAnswers
<1> QED BY <1>1, <1>2, <1>3 DEF Boxed

\* Answering with one event is telling it.
LEMMA ReplyTells ==
    ASSUME Typed, NEW c \in Clients, NEW e \in Events, Reply(c, <<e>>)
    PROVE  Told(c, e)
BY DEF Reply, Told, Typed, WireTypes

\* The objects of a client that stays are not touched when others go.
LEMMA FollowKeeps ==
    ASSUME Base, Base', Follow, NEW c \in Clients, c \in listening => c \in listening', held' = held
    PROVE  SameShots(c)
<1>1. ASSUME NEW k, <<c, k>> \in shots \/ <<c, k>> \in contexts
      PROVE  Connected(c)'
  <2>1. c \in listening'
    BY <1>1 DEF Base, Registered, Owns
  <2>2. Registered(c)'
    BY DEF Base
  <2> QED BY <2>1, <2>2 DEF Registered, Connected
<1>2. \A k : <<c, k>>[1] = c
  OBVIOUS
<1> QED BY <1>1, <1>2 DEF Follow, SameShots

ShotsInPlace == \A c \in Clients : \A k : ShotOf(c, k)
InPlace == Base /\ ShotsInPlace

LEMMA OutsideInPlace ==
    ASSUME Base, Base', NEW c \in Clients, NEW k, ShotOf(c, k),
           Idles(c) \/ Appears(c) \/ Vanishes(c) \/ Resizes(c)
    PROVE  ShotOf(c, k)'
<1>0. Typed /\ Typed'
  BY DEF Base
<1>1. SameClient(c) /\ SameShots(c) /\ calls <= calls'
  BY <1>0 DEF Idles, Appears, Vanishes, Resizes, Typed, ClientTypes
<1>2. inbox'[c] = inbox[c] \/ \E e : Told(c, e) /\ e.ev \notin {"surface", "shot"}
  <2>1. /\ Event("global", Len(head) + 1).ev = "global"
        /\ \A n : Event("gone", n).ev = "gone" /\ ModeOf(head', n).ev = "mode"
    BY DEF Event, ModeOf
  <2>2. CASE Idles(c)
    BY <2>2 DEF Idles
  <2>3. CASE Appears(c)
    BY <2>1, <2>3 DEF Appears, ToldIf
  <2>4. CASE Vanishes(c)
    BY <2>1, <2>4 DEF Vanishes, ToldIf
  <2>5. CASE Resizes(c)
    BY <2>1, <2>5 DEF Resizes, ToldIf
  <2> QED BY <2>2, <2>3, <2>4, <2>5
<1>3. Boxed(c, k)' = Boxed(c, k) /\ Once(inbox'[c], ShotAnswers(k))
  <2>1. CASE inbox'[c] = inbox[c]
    BY <2>1 DEF Boxed, ShotAnswers, ShotOf
  <2>2. CASE \E e : Told(c, e) /\ e.ev \notin {"surface", "shot"}
    <3>1. PICK e : Told(c, e) /\ e.ev \notin {"surface", "shot"}
      BY <2>2
    <3>2. e \notin ShotAnswers(k)
      BY <3>1 DEF ShotAnswers
    <3> QED BY <1>0, <3>1, <3>2, BoxedTold DEF ShotOf
  <2> QED BY <1>2, <2>1, <2>2
<1>4. Wired(c, k)' = Wired(c, k) /\ Once(wire'[c], ShotRequests(k))
  BY <1>1 DEF Wired, ShotRequests, ShotOf, SameClient
<1>5. call'[c] = call[c]
  BY <1>1 DEF SameClient
<1>6. Untouched(c, k)
  BY <1>1, <1>3, <1>4, <1>5, HoldingSame DEF Untouched
<1> QED BY <1>0, <1>6, UntouchedStays

LEMMA LeavesInPlace ==
    ASSUME Base, Base', NEW c \in Clients, NEW k, ShotOf(c, k), Leaves(c)
    PROVE  ShotOf(c, k)'
<1>1. Wired(c, k)' = {} /\ Boxed(c, k)' = {}
  BY SetOfNone DEF Leaves, Wired, Boxed
<1>2. Once(wire'[c], ShotRequests(k)') /\ Once(inbox'[c], ShotAnswers(k)')
  BY OnceNone DEF Leaves
<1>3. Holding(c, k)' = Holding(c, k) /\ calls' = calls /\ <<c, k>> \notin shots'
  BY DEF Leaves, Holding
<1>4. call'[c].op = "none"
  BY DEF Leaves, Idle
<1> QED BY <1>1, <1>2, <1>3, <1>4 DEF ShotOf

LEMMA AnswersInPlace ==
    ASSUME Base, Base', NEW c \in Clients, NEW k, ShotOf(c, k), Answers(c)
    PROVE  ShotOf(c, k)'
<1>0. Typed /\ Typed'
  BY DEF Base
<1>1. PICK s \in held : /\ s.client = c /\ held' = held \ {s}
                        /\ \E ok \in BOOLEAN : ToldIf(c, <<c, s.shot>> \in shots, Answer(s.shot, ok))
  BY DEF Answers
<1>2. PICK ok \in BOOLEAN : ToldIf(c, <<c, s.shot>> \in shots, Answer(s.shot, ok))
  BY <1>1
<1>3. PICK e : e = Answer(s.shot, ok)
  OBVIOUS
<1>4. e.ev = "shot" /\ e.n = s.shot
  BY <1>3 DEF Answer
<1>5. /\ Wired(c, k)' = Wired(c, k) /\ Once(wire'[c], ShotRequests(k)) /\ calls' = calls
      /\ UNCHANGED <<shots, contexts>> /\ call'[c] = call[c]
  BY DEF Answers, SameClient, Wired, ShotRequests, ShotOf
<1>6. CASE k # s.shot
  <2>1. e \notin ShotAnswers(k)
    BY <1>4, <1>6 DEF ShotAnswers
  <2>2. Boxed(c, k)' = Boxed(c, k) /\ Once(inbox'[c], ShotAnswers(k))
    <3>1. CASE Told(c, e)
      BY <1>0, <2>1, <3>1, BoxedTold DEF ShotOf
    <3>2. CASE inbox'[c] = inbox[c]
      BY <3>2 DEF Boxed, ShotAnswers, ShotOf
    <3> QED BY <1>2, <1>3, <3>1, <3>2 DEF ToldIf
  <2>3. Holding(c, k)' = Holding(c, k)
    BY <1>1, <1>6 DEF Holding
  <2>4. Untouched(c, k)
    BY <1>0, <1>5, <2>2, <2>3 DEF Untouched, Typed, ClientTypes
  <2> QED BY <1>0, <2>4, UntouchedStays
<1>7. CASE k = s.shot
  <2>1. s \in Holding(c, k)
    BY <1>1, <1>7 DEF Holding
  <2>2. Holding(c, k)' = {}
    BY <1>1, <2>1 DEF ShotOf, Holding
  <2>3. Wired(c, k) = {} /\ Boxed(c, k) = {} /\ k \in 0 .. calls
    BY <2>1 DEF ShotOf
  <2>4. CASE <<c, k>> \in shots
    <3>1. Told(c, e)
      BY <1>2, <1>3, <1>7, <2>4 DEF ToldIf
    <3>2. e \in ShotAnswers(k)
      BY <1>0, <1>4, <1>7, <3>1, ToldInbox DEF ShotAnswers
    <3>3. Once(inbox'[c], ShotAnswers(k)) /\ Boxed(c, k)' \subseteq {e} /\ e \in Boxed(c, k)'
      BY <1>0, <2>3, <3>1, <3>2, BoxedTold DEF ShotOf
    <3>4. <<c, k>> \in contexts
      BY <2>1, <2>4 DEF ShotOf
    <3>5. Waiting(c, k)'
      BY <3>3, <1>4 DEF Waiting
    <3>6. ShotRequests(k)' = ShotRequests(k) /\ ShotAnswers(k)' = ShotAnswers(k)
      BY DEF ShotRequests, ShotAnswers
    <3> QED BY <1>5, <2>2, <2>3, <3>3, <3>4, <3>5, <3>6 DEF ShotOf
  <2>5. CASE <<c, k>> \notin shots
    <3>1. inbox'[c] = inbox[c]
      BY <1>2, <1>7, <2>5 DEF ToldIf
    <3>2. Boxed(c, k)' = {} /\ Once(inbox'[c], ShotAnswers(k))
      BY <2>3, <3>1 DEF Boxed, ShotAnswers, ShotOf
    <3>3. ~Waiting(c, k)
      BY <2>3, <2>5 DEF Waiting
    <3>4. ~(call'[c].op = "shot" /\ call'[c].n = k)
      BY <1>5, <3>3 DEF ShotOf
    <3>6. ShotRequests(k)' = ShotRequests(k) /\ ShotAnswers(k)' = ShotAnswers(k)
      BY DEF ShotRequests, ShotAnswers
    <3> QED BY <1>5, <2>2, <2>3, <3>2, <3>4, <3>6 DEF ShotOf
  <2> QED BY <2>4, <2>5
<1> QED BY <1>6, <1>7

LEMMA ServesInPlace ==
    ASSUME Base, Base', NEW c \in Clients, NEW k, ShotOf(c, k), Serves(c)
    PROVE  ShotOf(c, k)'
<1>0. Typed /\ Typed' /\ wire[c] # <<>> /\ calls' = calls
  BY DEF Base, Serves, HandleFrame
<1>1. PICK r \in Requests : r = Head(wire[c]) /\ Served(c, r)
  BY DEF Serves
<1>2. PICK evs \in Seq(Events) : Reply(c, evs) /\ EventsAfter(c, r, evs)
  BY <1>1 DEF Served
<1>3. /\ Once(wire'[c], ShotRequests(k)) /\ r \in ToSet(wire[c])
      /\ r \notin ShotRequests(k) => Wired(c, k)' = Wired(c, k)
      /\ r \in ShotRequests(k) => r \in Wired(c, k) /\ Wired(c, k)' = {}
  BY <1>0, <1>1, WiredHandled DEF Served, ShotOf
<1>4. call'[c] = call[c] /\ ShotsAfter(c, r)
  BY <1>1 DEF Served
<1>5. r.op # "screenshot" => SameShots(c)
  <2>1. r.op # "screenshot" => held' = held /\ (Follow \/ UNCHANGED <<shots, contexts>>)
    BY <1>4 DEF ShotsAfter
  <2>2. c \in listening => c \in listening'
    BY <1>1 DEF Served, ObjectsAfter
  <2>3. held' = held /\ UNCHANGED <<shots, contexts>> => SameShots(c)
    BY DEF SameShots
  <2> QED BY <2>1, <2>2, <2>3, FollowKeeps
<1>6. ShotRequests(k)' = ShotRequests(k) /\ ShotAnswers(k)' = ShotAnswers(k)
  BY DEF ShotRequests, ShotAnswers
<1>7. CASE r \notin ShotRequests(k)
  <2>1. ToSet(evs) \cap ShotAnswers(k) = {}
    <3>1. ASSUME NEW e \in ToSet(evs), e \in ShotAnswers(k) PROVE FALSE
      <4>1. <<r.op, e.ev>> \in Answering /\ e.ev \in {"surface", "shot"} /\ e.n = k
        BY <1>2, <3>1 DEF EventsAfter, ShotAnswers
      <4>2. r.op \in {"surface_get", "surface_screenshot"}
        BY <4>1 DEF Answering
      <4>3. e.n = r.n
        <5>1. CASE r.op = "surface_get"
          <6>1. evs = <<[ev |-> "surface", n |-> r.n, size |-> surf]>>
            BY <1>2, <5>1 DEF EventsAfter
          <6>2. e = [ev |-> "surface", n |-> r.n, size |-> surf]
            BY <3>1, <6>1, SetOfOne
          <6> QED BY <6>2
        <5>2. CASE r.op = "surface_screenshot"
          <6>1. PICK ok \in BOOLEAN : evs = <<Answer(r.n, ok)>>
            BY <1>2, <5>2 DEF EventsAfter
          <6>2. e = Answer(r.n, ok)
            BY <3>1, <6>1, SetOfOne
          <6> QED BY <6>2 DEF Answer
        <5> QED BY <4>2, <5>1, <5>2
      <4> QED BY <1>7, <4>1, <4>2, <4>3 DEF ShotRequests
    <3> QED BY <3>1
  <2>2. Boxed(c, k)' = Boxed(c, k) /\ Once(inbox'[c], ShotAnswers(k))
    BY <1>0, <1>2, <2>1, BoxedReplied DEF ShotOf
  <2>3. /\ Holding(c, k)' = Holding(c, k)
        /\ <<c, k>> \in shots' <=> <<c, k>> \in shots
        /\ <<c, k>> \in contexts' <=> <<c, k>> \in contexts
    <3>1. CASE r.op = "screenshot"
      <4>1. r.shot # k
        BY <1>7, <3>1 DEF ShotRequests
      <4>2. [client |-> c, shot |-> r.shot, n |-> r.n].shot = r.shot
        OBVIOUS
      <4>3. <<c, k>> # <<c, r.shot>>
        BY <4>1
      <4> QED BY <1>4, <3>1, <4>1, <4>2, <4>3 DEF ShotsAfter, Holding
    <3>2. CASE r.op # "screenshot"
      BY <1>5, <3>2, HoldingSame
    <3> QED BY <3>1, <3>2
  <2>4. Untouched(c, k)
    BY <1>0, <1>3, <1>4, <1>7, <2>2, <2>3 DEF Untouched, Typed, ClientTypes
  <2> QED BY <1>0, <2>4, UntouchedStays
<1>8. CASE r \in ShotRequests(k)
  <2>1. /\ r \in Wired(c, k) /\ Wired(c, k)' = {} /\ Boxed(c, k) = {} /\ Holding(c, k) = {}
        /\ k \in 0 .. calls
    BY <1>3, <1>8 DEF ShotOf
  <2>2. \A x \in Wired(c, k) : x = r
    <3>1. wire[c] \in Seq(Requests)
      BY <1>0 DEF Typed, WireTypes
    <3>2. ASSUME NEW x \in Wired(c, k) PROVE x = r
      <4>1. PICK i \in 1 .. Len(wire[c]) : x = wire[c][i]
        BY <3>1, SetOf DEF Wired
      <4>2. PICK j \in 1 .. Len(wire[c]) : r = wire[c][j]
        BY <1>3, <3>1, SetOf
      <4>3. i = j
        BY <1>8, <4>1, <4>2 DEF ShotOf, Once, Wired
      <4> QED BY <4>1, <4>2, <4>3
    <3> QED BY <3>2
  <2>3. CASE r.op = "screenshot"
    <3>1. r.shot = k
      BY <1>8, <2>3 DEF ShotRequests
    <3>2. /\ held' = held \cup {[client |-> c, shot |-> k, n |-> r.n]}
          /\ shots' = shots \cup {<<c, k>>} /\ contexts' = contexts
      BY <1>4, <2>3, <3>1 DEF ShotsAfter
    <3>3. Holding(c, k)' = {[client |-> c, shot |-> k, n |-> r.n]}
      BY <2>1, <3>2 DEF Holding
    <3>4. <<c, k>> \in contexts
      BY <2>1, <2>3 DEF ShotOf
    <3>5. ToSet(evs) \cap ShotAnswers(k) = {}
      <4>1. \A e \in ToSet(evs) : <<"screenshot", e.ev>> \in Answering
        BY <1>2, <2>3 DEF EventsAfter
      <4> QED BY <4>1 DEF Answering
    <3>6. Boxed(c, k)' = {} /\ Once(inbox'[c], ShotAnswers(k))
      BY <1>0, <1>2, <2>1, <3>5, BoxedReplied DEF ShotOf
    <3>7. Waiting(c, k)'
      BY <3>2, <3>3 DEF Waiting
    <3> QED BY <1>0, <1>3, <1>6, <2>1, <3>2, <3>3, <3>4, <3>6, <3>7 DEF ShotOf
  <2>4. CASE r.op # "screenshot"
    <3>1. r.op \in {"surface_get", "surface_screenshot"} /\ r.n = k
      BY <1>8, <2>4 DEF ShotRequests
    <3>2. PICK e : /\ Told(c, e) /\ e.n = k
                   /\ e.ev = IF r.op = "surface_get" THEN "surface" ELSE "shot"
      <4>1. CASE r.op = "surface_get"
        <5>1. PICK e : e = [ev |-> "surface", n |-> r.n, size |-> surf]
          OBVIOUS
        <5>2. evs = <<e>>
          BY <1>2, <4>1, <5>1 DEF EventsAfter
        <5>3. e \in Events
          BY <1>0, <3>1, <4>1, <5>1 DEF Events, Typed, ShotTypes, Requests
        <5>4. Told(c, e)
          BY <1>0, <1>2, <5>2, <5>3, ReplyTells
        <5> QED BY <3>1, <4>1, <5>1, <5>4
      <4>2. CASE r.op = "surface_screenshot"
        <5>1. PICK ok \in BOOLEAN : evs = <<Answer(r.n, ok)>>
          BY <1>2, <4>2 DEF EventsAfter
        <5>2. PICK e : e = Answer(r.n, ok)
          OBVIOUS
        <5>3. e \in Events
          BY <4>2, <5>2 DEF Events, Answer, Requests
        <5>4. Told(c, e)
          BY <1>0, <1>2, <5>1, <5>2, <5>3, ReplyTells
        <5> QED BY <3>1, <4>2, <5>2, <5>4 DEF Answer
      <4> QED BY <3>1, <4>1, <4>2
    <3>3. e \in ShotAnswers(k)
      BY <1>0, <3>2, ToldInbox DEF ShotAnswers
    <3>4. Once(inbox'[c], ShotAnswers(k)) /\ Boxed(c, k)' \subseteq {e} /\ e \in Boxed(c, k)'
      BY <1>0, <2>1, <3>2, <3>3, BoxedTold DEF ShotOf
    <3>5. Holding(c, k)' = {} /\ (<<c, k>> \in contexts' <=> <<c, k>> \in contexts)
      BY <1>5, <2>1, <2>4, HoldingSame
    <3>6. e.ev = "shot" => <<c, k>> \in contexts'
      BY <2>1, <3>1, <3>2, <3>5 DEF ShotOf
    <3>7. call'[c].op = "shot" /\ call'[c].n = k => Waiting(c, k)'
      <4>1. Waiting(c, k) => r.op # "surface_get"
        BY <2>1, <2>2 DEF Waiting
      <4>2. r.op # "surface_get" => Waiting(c, k)'
        BY <3>2, <3>4 DEF Waiting
      <4> QED BY <1>4, <4>1, <4>2 DEF ShotOf
    <3> QED BY <1>0, <1>3, <1>6, <2>1, <3>4, <3>5, <3>6, <3>7 DEF ShotOf
  <2> QED BY <2>3, <2>4
<1> QED BY <1>7, <1>8

\* Requests that have nothing to do with screenshots.
LEMMA NoShotRequests ==
    ASSUME NEW q, \A r \in ToSet(q) : r.op \notin {"screenshot", "surface_get", "surface_screenshot"}
    PROVE  \A k : ToSet(q) \cap ShotRequests(k) = {}
BY DEF ShotRequests

LEMMA HearsInPlace ==
    ASSUME Base, Base', NEW c \in Clients, NEW k, ShotOf(c, k), Hears(c)
    PROVE  ShotOf(c, k)'
<1>0. Typed /\ Typed' /\ ReceiveFrame(c) /\ Registered(c) /\ Registered(c)'
  BY DEF Base, Hears
<1>1. PICK e \in Events : e = Head(inbox[c]) /\ ReceiveSays(c, e)
  BY DEF Hears
<1>2. PICK reqs \in Seq(Requests), C \in Seq(ScreenContexts), j \in Calls, st \in Stages :
        Received(c, e, reqs, C, j, st)
  BY <1>1 DEF ReceiveSays
<1>3. /\ Once(inbox'[c], ShotAnswers(k)) /\ e \in ToSet(inbox[c])
      /\ e \notin ShotAnswers(k) => Boxed(c, k)' = Boxed(c, k)
      /\ e \in ShotAnswers(k) => e \in Boxed(c, k) /\ Boxed(c, k)' = {}
  BY <1>0, <1>1, BoxedHeard DEF ShotOf
<1>4. /\ call'[c] = j /\ Send(c, reqs) /\ held' = held /\ calls' = calls /\ calls \in Nat
      /\ c \in listening' <=> c \in listening
  BY <1>0, <1>2 DEF Received, ReceiveFrame, Typed, ClientTypes
<1>a. calls <= calls'
  BY <1>4
<1>5. Holding(c, k)' = Holding(c, k)
  BY <1>4 DEF Holding
<1>6. ShotRequests(k)' = ShotRequests(k) /\ ShotAnswers(k)' = ShotAnswers(k)
  BY DEF ShotRequests, ShotAnswers
<1>7. CASE e.ev \notin {"surface", "shot"}
  <2>1. e \notin ShotAnswers(k)
    BY <1>7 DEF ShotAnswers
  <2>2. \A r \in ToSet(reqs) : r.op \notin {"screenshot", "surface_get", "surface_screenshot"}
    BY <1>2, <1>7, HearsSends
  <2>3. ToSet(reqs) \cap ShotRequests(k) = {}
    BY <2>2, NoShotRequests
  <2>4. Wired(c, k)' = Wired(c, k) /\ Once(wire'[c], ShotRequests(k))
    BY <1>0, <1>4, <2>3, WiredSend DEF ShotOf
  <2>5. SameShots(c)
    <3>1. Follow
      BY <1>2, <1>7 DEF Received, Receives
    <3> QED BY <1>4, <3>1, FollowKeeps
  <2>6. j = call[c] \/ j.op # "shot"
    <3>1. CASE e.ev = "done"
      <4>1. Receives(c, e, reqs, C, j, st)
        BY <1>2 DEF Received
      <4>2. j = call[c] \/ j = Idle
        BY <3>1, <4>1 DEF Receives
      <4> QED BY <4>2 DEF Idle
    <3>2. CASE e.ev # "done"
      BY <1>2, <1>7, <3>2, EventFields DEF Received, Receives
    <3> QED BY <3>1, <3>2
  <2>7. Untouched(c, k)
    <3>1. /\ <<c, k>> \in shots' <=> <<c, k>> \in shots
          /\ <<c, k>> \in contexts' <=> <<c, k>> \in contexts
      BY <2>5, HoldingSame
    <3>2. call'[c] = call[c] \/ call'[c].op # "shot" \/ call'[c].n # k
      BY <1>4, <2>6
    <3> QED BY <1>a, <1>3, <1>5, <2>1, <2>4, <3>1, <3>2 DEF Untouched
  <2> QED BY <1>0, <2>7, UntouchedStays
<1>8. CASE e.ev = "shot"
  <2>1. /\ reqs = <<>> /\ j = (IF call[c] = Request("shot", e.n) THEN Idle ELSE call[c])
        /\ contexts' = contexts \ {<<c, e.n>>} /\ shots' = shots
    BY <1>2, <1>8 DEF Received, Receives
  <2>2. ToSet(reqs) \cap ShotRequests(k) = {}
    BY <2>1, SetOfNone
  <2>3. Wired(c, k)' = Wired(c, k) /\ Once(wire'[c], ShotRequests(k))
    BY <1>0, <1>4, <2>2, WiredSend DEF ShotOf
  <2>4. j = call[c] \/ j.op # "shot"
    BY <2>1 DEF Idle
  <2>5. CASE e.n # k
    <3>1. e \notin ShotAnswers(k)
      BY <2>5 DEF ShotAnswers
    <3>2. <<c, k>> # <<c, e.n>>
      BY <2>5
    <3>3. Untouched(c, k)
      BY <1>3, <1>4, <1>5, <2>1, <2>3, <2>4, <3>1, <3>2 DEF Untouched
    <3> QED BY <1>0, <3>3, UntouchedStays
  <2>6. CASE e.n = k
    <3>1. e \in ShotAnswers(k)
      BY <1>8, <2>6 DEF ShotAnswers
    <3>2. Boxed(c, k)' = {} /\ Wired(c, k)' = {} /\ Holding(c, k)' = {}
      BY <1>3, <1>5, <2>3, <3>1 DEF ShotOf
    <3>3. ~(call'[c].op = "shot" /\ call'[c].n = k)
      <4>1. call[c].op = "shot" /\ call[c].n = k => call[c] = Request("shot", k)
        <5>1. call[c] \in Calls
          BY <1>0, ClientHas
        <5> QED BY <5>1 DEF Calls, Request
      <4> QED BY <1>4, <2>1, <2>6, <4>1 DEF Idle
    <3> QED BY <1>3, <1>6, <2>3, <3>2, <3>3 DEF ShotOf
  <2> QED BY <2>5, <2>6
<1>9. CASE e.ev = "surface"
  <2>1. /\ shots' = shots
        /\ \/ j = Idle /\ reqs = <<>> /\ contexts' = contexts
           \/ /\ j \in {Idle, Request("shot", e.n)} /\ e.size \in Sizes
              /\ reqs = <<[op |-> "surface_screenshot", n |-> e.n, size |-> e.size]>>
              /\ contexts' = contexts \cup {<<c, e.n>>}
    BY <1>2, <1>9 DEF Received, Receives
  <2>2. CASE e.n # k
    <3>1. e \notin ShotAnswers(k)
      BY <2>2 DEF ShotAnswers
    <3>2. <<c, k>> # <<c, e.n>>
      BY <2>2
    <3>3. ToSet(reqs) \cap ShotRequests(k) = {}
      <4>1. CASE reqs = <<>>
        BY <4>1, SetOfNone
      <4>2. CASE reqs = <<[op |-> "surface_screenshot", n |-> e.n, size |-> e.size]>>
        <5>1. PICK a : a = [op |-> "surface_screenshot", n |-> e.n, size |-> e.size]
          OBVIOUS
        <5>2. ToSet(reqs) = {a}
          BY <4>2, <5>1, SetOfOne
        <5> QED BY <2>2, <5>1, <5>2 DEF ShotRequests
      <4> QED BY <2>1, <4>1, <4>2
    <3>4. Wired(c, k)' = Wired(c, k) /\ Once(wire'[c], ShotRequests(k))
      BY <1>0, <1>4, <3>3, WiredSend DEF ShotOf
    <3>5. j.op # "shot" \/ j.n # k
      BY <2>1, <2>2 DEF Idle, Request
    <3>6. Untouched(c, k)
      BY <1>3, <1>4, <1>5, <2>1, <3>1, <3>2, <3>4, <3>5 DEF Untouched
    <3> QED BY <1>0, <3>6, UntouchedStays
  <2>3. CASE e.n = k
    <3>1. e \in ShotAnswers(k)
      BY <1>9, <2>3 DEF ShotAnswers
    <3>2. /\ Boxed(c, k)' = {} /\ Wired(c, k) = {} /\ Holding(c, k)' = {} /\ k \in 0 .. calls
      BY <1>3, <1>5, <3>1 DEF ShotOf
    <3>3. CASE reqs = <<>> /\ j = Idle
      <4>1. ToSet(reqs) \cap ShotRequests(k) = {}
        BY <3>3, SetOfNone
      <4>2. Wired(c, k)' = {} /\ Once(wire'[c], ShotRequests(k))
        BY <1>0, <1>4, <3>2, <4>1, WiredSend DEF ShotOf
      <4>3. call'[c].op # "shot"
        BY <1>4, <3>3 DEF Idle
      <4> QED BY <1>3, <1>6, <3>2, <4>2, <4>3 DEF ShotOf
    <3>4. CASE /\ reqs = <<[op |-> "surface_screenshot", n |-> e.n, size |-> e.size]>>
               /\ contexts' = contexts \cup {<<c, e.n>>} /\ e.size \in Sizes
      <4>1. PICK a : a = [op |-> "surface_screenshot", n |-> e.n, size |-> e.size]
        OBVIOUS
      <4>2. reqs = <<a>> /\ ToSet(reqs) = {a}
        BY <3>4, <4>1, SetOfOne
      <4>3. a \in ShotRequests(k) /\ a.op = "surface_screenshot"
        <5>1. e.n \in Nat
          BY <1>9, EventFields
        <5> QED BY <2>3, <3>4, <4>1, <5>1 DEF ShotRequests, Requests
      <4>4. ToSet(wire'[c]) = ToSet(wire[c]) \cup {a} /\ wire'[c] = wire[c] \o reqs /\ wire[c] \in Seq(Requests)
        BY <1>0, <1>4, <4>2, SentWire
      <4>5. Wired(c, k)' = {a}
        BY <1>6, <3>2, <4>3, <4>4 DEF Wired
      <4>6. Once(reqs, ShotRequests(k))
        BY <4>2, OnceOne
      <4>7. Once(wire'[c], ShotRequests(k))
        BY <3>2, <4>4, <4>6, OnceJoin DEF Wired, ShotOf
      <4>8. Waiting(c, k)'
        BY <4>3, <4>5 DEF Waiting
      <4>9. <<c, k>> \in contexts'
        BY <2>3, <3>4
      <4> QED BY <1>3, <1>4, <1>6, <3>2, <4>5, <4>7, <4>8, <4>9 DEF ShotOf
    <3> QED BY <2>1, <3>3, <3>4
  <2> QED BY <2>2, <2>3
<1> QED BY <1>7, <1>8, <1>9

LEMMA AsksInPlace ==
    ASSUME Base, Base', NEW c \in Clients, NEW k, ShotOf(c, k), Asks(c)
    PROVE  ShotOf(c, k)'
<1>0. Typed /\ Typed' /\ CallFrame(c) /\ Registered(c) /\ Registered(c)'
  BY DEF Base, Asks
<1>1. PICK reqs \in Seq(Requests), j \in Calls, st \in Stages : CallMade(c, reqs, j, st)
  BY DEF Asks, CallSays
<1>2. /\ call'[c] = j /\ Send(c, reqs) /\ inbox'[c] = inbox[c] /\ held' = held
      /\ c \in listening' <=> c \in listening
      /\ calls \in Nat /\ calls' = calls + 1
  BY <1>0, <1>1 DEF CallMade, CallFrame, Typed, ClientTypes
<1>3. Holding(c, k)' = Holding(c, k) /\ Boxed(c, k)' = Boxed(c, k) /\ Once(inbox'[c], ShotAnswers(k))
  BY <1>2 DEF Holding, Boxed, ShotAnswers, ShotOf
<1>4. ASSUME ToSet(reqs) \cap ShotRequests(k) = {}, SameShots(c), j.op # "shot" \/ j.n # k
      PROVE  ShotOf(c, k)'
  <2>1. Wired(c, k)' = Wired(c, k) /\ Once(wire'[c], ShotRequests(k))
    BY <1>0, <1>2, <1>4, WiredSend DEF ShotOf
  <2>2. calls <= calls'
    BY <1>2
  <2>3. Untouched(c, k)
    BY <1>2, <1>3, <1>4, <2>1, <2>2, HoldingSame DEF Untouched
  <2> QED BY <1>0, <2>3, UntouchedStays
<1>5. ASSUME Follow, \A r \in ToSet(reqs) : r.op \notin {"screenshot", "surface_get", "surface_screenshot"},
             j.op # "shot"
      PROVE  ShotOf(c, k)'
  <2>1. ToSet(reqs) \cap ShotRequests(k) = {}
    BY <1>5, NoShotRequests
  <2>2. SameShots(c)
    BY <1>2, <1>5, FollowKeeps
  <2> QED BY <1>4, <1>5, <2>1, <2>2
<1>6. CASE Begins(c, reqs, j, st)
  <2>1. PICK a : a = [op |-> "get_registry"]
    OBVIOUS
  <2>2. reqs = <<a, Sync>>
    BY <1>6, <2>1 DEF Begins
  <2>3. \A r \in ToSet(reqs) : r.op \notin {"screenshot", "surface_get", "surface_screenshot"}
    BY <2>1, <2>2, SetOfTwo DEF Sync
  <2> QED BY <1>5, <1>6, <2>3 DEF Begins, Idle
<1>7. CASE Waits(c, reqs, j, st)
  <2>1. PICK q \in Seq(Requests) :
          /\ reqs = q \o <<Sync>>
          /\ \/ \E x \in ToSet(ctx[c]) : j = Request("layers", x.n) /\ q = <<Request("get", x.n)>>
             \/ j \in {Request("screens", 0), Request("commit", 0)} /\ \A r \in ToSet(q) : r.op = "commit"
    BY <1>7 DEF Waits
  <2>2. \A r \in ToSet(q) : r.op \in {"get", "commit"}
    <3>1. \A n : Request("get", n).op = "get"
      BY DEF Request
    <3> QED BY <2>1, <3>1, SetOfOne
  <2>3. Sync \in Requests
    BY RequestTypes DEF Sync
  <2>4. ToSet(reqs) = ToSet(q) \cup {Sync}
    BY <2>1, <2>3, SetOfMore
  <2>5. \A r \in ToSet(reqs) : r.op \notin {"screenshot", "surface_get", "surface_screenshot"}
    BY <2>2, <2>4 DEF Sync
  <2>6. j.op # "shot"
    BY <2>1 DEF Request
  <2> QED BY <1>5, <1>7, <2>5, <2>6 DEF Waits
<1>8. CASE SetsOrder(c, reqs, j, st)
  <2>1. \A r \in ToSet(reqs) : r.op \notin {"screenshot", "surface_get", "surface_screenshot"}
    BY <1>8 DEF SetsOrder
  <2> QED BY <1>5, <1>8, <2>1 DEF SetsOrder, Idle
<1>9. CASE Ends(c, reqs, j, st)
  <2>1. \A r \in ToSet(reqs) : r.op \notin {"screenshot", "surface_get", "surface_screenshot"}
    BY <1>9, SetOfNone DEF Ends
  <2> QED BY <1>5, <1>9, <2>1 DEF Ends, Idle
<1>10. CASE Shoots(c, reqs, j, st)
  <2>1. shots' = shots
    BY <1>10 DEF Shoots
  <2>2. CASE reqs = <<>> /\ j = Idle /\ contexts' = contexts
    <3>1. SameShots(c)
      BY <1>2, <2>1, <2>2 DEF SameShots
    <3>2. ToSet(reqs) \cap ShotRequests(k) = {} /\ j.op # "shot"
      BY <2>2, SetOfNone DEF Idle
    <3> QED BY <1>4, <3>1, <3>2
  <2>3. ASSUME NEW a \in Requests, reqs = <<a>>, a.op \in {"screenshot", "surface_get"},
               a.op = "screenshot" => a.shot = Shot, a.op = "surface_get" => a.n = Shot,
               \/ /\ a.op = "screenshot" /\ j \in {Idle, Request("shot", Shot)}
                  /\ contexts' = contexts \cup {<<c, Shot>>}
               \/ /\ a.op = "surface_get" /\ j.op \in {"async", "sized"}
                  /\ contexts' = contexts
        PROVE  ShotOf(c, k)'
    <3>0. ToSet(reqs) = {a} /\ Shot \in Nat /\ Shot = calls + 1
      BY <1>2, <2>3, SetOfOne DEF Shot
    <3>1. CASE k # Shot
      <4>1. ToSet(reqs) \cap ShotRequests(k) = {}
        BY <2>3, <3>0, <3>1 DEF ShotRequests
      <4>2. Wired(c, k)' = Wired(c, k) /\ Once(wire'[c], ShotRequests(k))
        BY <1>0, <1>2, <4>1, WiredSend DEF ShotOf
      <4>3. <<c, k>> # <<c, Shot>>
        BY <3>1
      <4>4. (<<c, k>> \in contexts' <=> <<c, k>> \in contexts) /\ (<<c, k>> \in shots' <=> <<c, k>> \in shots)
        BY <2>1, <2>3, <4>3
      <4>5. j.op # "shot" \/ j.n # k
        BY <2>3, <3>1 DEF Idle, Request
      <4>6. calls <= calls'
        BY <1>2
      <4>7. Untouched(c, k)
        BY <1>2, <1>3, <4>2, <4>4, <4>5, <4>6 DEF Untouched
      <4> QED BY <1>0, <4>7, UntouchedStays
    <3>2. CASE k = Shot
      <4>1. k \notin 0 .. calls /\ k \in 0 .. calls'
        BY <1>2, <3>0, <3>2
      <4>2. Wired(c, k) = {} /\ Boxed(c, k)' = {} /\ Holding(c, k)' = {}
        BY <1>3, <4>1 DEF ShotOf
      <4>3. a \in ShotRequests(k)
        BY <2>3, <3>2 DEF ShotRequests
      <4>4. ToSet(wire'[c]) = ToSet(wire[c]) \cup {a} /\ wire'[c] = wire[c] \o reqs /\ wire[c] \in Seq(Requests)
        BY <1>0, <1>2, <3>0, SentWire
      <4>5. ShotRequests(k)' = ShotRequests(k) /\ ShotAnswers(k)' = ShotAnswers(k)
        BY DEF ShotRequests, ShotAnswers
      <4>6. Wired(c, k)' = {a}
        BY <4>2, <4>3, <4>4, <4>5 DEF Wired
      <4>7. Once(reqs, ShotRequests(k))
        BY <2>3, OnceOne
      <4>8. Once(wire'[c], ShotRequests(k))
        BY <4>2, <4>4, <4>7, OnceJoin DEF Wired, ShotOf
      <4>9. a.op # "surface_get" => <<c, k>> \in contexts' /\ Waiting(c, k)'
        BY <2>3, <3>2, <4>6 DEF Waiting
      <4>10. a.op = "surface_get" => call'[c].op # "shot"
        BY <1>2, <2>3
      <4> QED BY <1>3, <4>1, <4>2, <4>5, <4>6, <4>8, <4>9, <4>10 DEF ShotOf
    <3> QED BY <3>1, <3>2
  <2>4. CASE /\ \E n \in Nat : reqs = <<[op |-> "screenshot", n |-> n, shot |-> Shot]>>
             /\ j \in {Idle, Request("shot", Shot)}
             /\ contexts' = contexts \cup {<<c, Shot>>}
    <3>1. PICK n \in Nat : reqs = <<[op |-> "screenshot", n |-> n, shot |-> Shot]>>
      BY <2>4
    <3>2. PICK a : a = [op |-> "screenshot", n |-> n, shot |-> Shot]
      OBVIOUS
    <3>3. a \in Requests /\ a.op = "screenshot" /\ a.shot = Shot
      BY <1>2, <3>2 DEF Requests, Shot
    <3> QED BY <2>3, <2>4, <3>1, <3>2, <3>3
  <2>5. CASE /\ reqs = <<Request("surface_get", Shot)>>
             /\ j \in {Request("async", Shot), Request("sized", Shot)}
             /\ contexts' = contexts
    <3>1. PICK a : a = Request("surface_get", Shot)
      OBVIOUS
    <3>2. a \in Requests /\ a.op = "surface_get" /\ a.n = Shot
      BY <1>2, <3>1 DEF Requests, Shot, Request
    <3>3. j.op \in {"async", "sized"}
      BY <2>5 DEF Request
    <3> QED BY <2>3, <2>5, <3>1, <3>2, <3>3
  <2> QED BY <1>10, <2>2, <2>4, <2>5 DEF Shoots
<1> QED BY <1>1, <1>6, <1>7, <1>8, <1>9, <1>10 DEF CallMade, Calling

LEMMA InPlaceInit == ShotsInit => InPlace
<1>1. ASSUME ShotsInit, NEW c \in Clients, NEW k PROVE ShotOf(c, k)
  <2>1. wire[c] = <<>> /\ inbox[c] = <<>> /\ held = {} /\ shots = {} /\ call[c] = Idle
    BY <1>1 DEF ShotsInit, Init
  <2>2. Wired(c, k) = {} /\ Boxed(c, k) = {} /\ Holding(c, k) = {}
    BY <2>1, SetOfNone DEF Wired, Boxed, Holding
  <2> QED BY <2>1, <2>2, OnceNone DEF ShotOf, Idle
<1> QED BY <1>1, BaseInit DEF InPlace, ShotsInPlace

LEMMA InPlaceStep == InPlace /\ [Next]_vars => InPlace'
<1> SUFFICES ASSUME InPlace, [Next]_vars PROVE InPlace'
  OBVIOUS
<1>1. Base /\ Base'
  BY BaseStep DEF InPlace
<1>2. ASSUME NEW c \in Clients, NEW k PROVE ShotOf(c, k)'
  <2>1. ShotOf(c, k)
    BY DEF InPlace, ShotsInPlace
  <2>2. \/ Idles(c) \/ Appears(c) \/ Vanishes(c) \/ Resizes(c) \/ Leaves(c) \/ Answers(c)
        \/ Serves(c) \/ Hears(c) \/ Asks(c)
    BY <1>1, StepCases
  <2> QED BY <1>1, <2>1, <2>2, OutsideInPlace, LeavesInPlace, AnswersInPlace, ServesInPlace,
             HearsInPlace, AsksInPlace
<1> QED BY <1>1, <1>2 DEF InPlace, ShotsInPlace

LEMMA InPlaceFinds == InPlace => AnswersFindTheirShot
<1> SUFFICES ASSUME InPlace, NEW c \in Clients, NEW i \in ShotEvents(c)
             PROVE  /\ <<c, inbox[c][i].n>> \in contexts
                    /\ ~\E s \in held : s.client = c /\ s.shot = inbox[c][i].n
                    /\ \A j \in ShotEvents(c) : inbox[c][j].n = inbox[c][i].n => i = j
  BY DEF AnswersFindTheirShot
<1>0. inbox[c] \in Seq(Events) /\ DOMAIN inbox[c] = 1 .. Len(inbox[c])
  BY DEF InPlace, Base, Typed, WireTypes
<1>1. PICK k : k = inbox[c][i].n
  OBVIOUS
<1>2. ShotOf(c, k)
  BY DEF InPlace, ShotsInPlace
<1>3. \A j \in ShotEvents(c) : /\ j \in 1 .. Len(inbox[c]) /\ inbox[c][j] \in ToSet(inbox[c])
                               /\ inbox[c][j] \in Events /\ inbox[c][j].ev = "shot"
  BY <1>0, SetOf DEF ShotEvents
<1>4. inbox[c][i] \in Boxed(c, k)
  BY <1>1, <1>3 DEF Boxed, ShotAnswers
<1>5. <<c, k>> \in contexts
  BY <1>2, <1>3, <1>4 DEF ShotOf
<1>6. Holding(c, k) = {}
  BY <1>2, <1>4 DEF ShotOf
<1>7. ASSUME NEW j \in ShotEvents(c), inbox[c][j].n = k PROVE i = j
  <2>1. inbox[c][j] \in ShotAnswers(k) /\ inbox[c][i] \in ShotAnswers(k)
    BY <1>1, <1>3, <1>7 DEF ShotAnswers
  <2> QED BY <1>2, <1>3, <2>1 DEF ShotOf, Once
<1> QED BY <1>1, <1>5, <1>6, <1>7 DEF Holding

LEMMA InPlaceAwaited == InPlace => ShotsAwaited
<1> SUFFICES ASSUME InPlace, NEW c \in Clients, call[c].op = "shot" PROVE ShotAwaited(c) \/ Stranded(c)
  BY DEF ShotsAwaited
<1>0. /\ inbox[c] \in Seq(Events) /\ DOMAIN inbox[c] = 1 .. Len(inbox[c])
      /\ wire[c] \in Seq(Requests) /\ DOMAIN wire[c] = 1 .. Len(wire[c])
  BY DEF InPlace, Base, Typed, WireTypes
<1>1. PICK k : k = call[c].n
  OBVIOUS
<1>2. Waiting(c, k)
  BY <1>1 DEF InPlace, ShotsInPlace, ShotOf
<1>3. CASE \E r \in Wired(c, k) : r.op # "surface_get"
  <2>1. PICK r \in Wired(c, k) : r.op # "surface_get"
    BY <1>3
  <2>2. PICK i \in 1 .. Len(wire[c]) : r = wire[c][i]
    BY <1>0, <2>1, SetOf DEF Wired
  <2>3. (r.op = "screenshot" /\ r.shot = k) \/ (r.op = "surface_screenshot" /\ r.n = k)
    BY <2>1 DEF Wired, ShotRequests
  <2>4. \E m \in DOMAIN wire[c] :
          \/ wire[c][m].op = "screenshot" /\ wire[c][m].shot = k
          \/ wire[c][m].op = "surface_screenshot" /\ wire[c][m].n = k
    BY <1>0, <2>2, <2>3
  <2> QED BY <1>1, <2>4 DEF ShotAwaited
<1>4. CASE Holding(c, k) # {}
  BY <1>1, <1>4 DEF Holding, ShotAwaited, Stranded
<1>5. CASE \E e \in Boxed(c, k) : e.ev = "shot"
  <2>1. PICK e \in Boxed(c, k) : e.ev = "shot"
    BY <1>5
  <2>2. PICK i \in 1 .. Len(inbox[c]) : e = inbox[c][i]
    BY <1>0, <2>1, SetOf DEF Boxed
  <2>3. e.n = k
    BY <2>1 DEF Boxed, ShotAnswers
  <2> QED BY <1>0, <1>1, <2>1, <2>2, <2>3 DEF ShotAwaited, ShotEvents
<1> QED BY <1>2, <1>3, <1>4, <1>5 DEF Waiting

\* The answer to a screenshot finds the struct screenshot_context of the call
\* that asked for it (screenshot_done, screenshot_error).
THEOREM AnswersAlwaysFindTheirShot == Spec => []AnswersFindTheirShot
<1>1. ShotsInit => InPlace
  BY InPlaceInit
<1>2. InPlace /\ [Next]_vars => InPlace'
  BY InPlaceStep
<1>3. InPlace => AnswersFindTheirShot
  BY InPlaceFinds
<1> QED BY <1>1, <1>2, <1>3, PTL DEF Spec

\* A call that waits for a screenshot waits for one that was asked for and is
\* still to be answered, or weston holds it for an output that is gone
\* (ilm_takeShoot, ilm_takeSurfaceShoot).
THEOREM ShotsAlwaysAwaited == Spec => []ShotsAwaited
<1>1. ShotsInit => InPlace
  BY InPlaceInit
<1>2. InPlace /\ [Next]_vars => InPlace'
  BY InPlaceStep
<1>3. InPlace => ShotsAwaited
  BY InPlaceAwaited
<1> QED BY <1>1, <1>2, <1>3, PTL DEF Spec

-----------------------------------------------------------------------------
(* The names of screens.                                                   *)

HeadsStay ==
    /\ \A n \in 1 .. Len(head) : n \in 1 .. Len(head') /\ ScreenId(n)' = ScreenId(n)

LEMMA NameStays ==
    ASSUME NEW n, head'[n].output = head[n].output, head'[n].id = head[n].id
    PROVE  ScreenId(n)' = ScreenId(n)
BY DEF ScreenId

LEMMA SameHeadsStay ==
    ASSUME Typed, head' = head
    PROVE  HeadsStay
BY DEF HeadsStay, ScreenId

LEMMA AppearsHeads ==
    ASSUME Typed, NEW h \in Heads, head' = Append(head, h)
    PROVE  /\ Len(head') = Len(head) + 1 /\ Len(head) \in Nat
           /\ \A n \in 1 .. Len(head) : n \in 1 .. Len(head') /\ head'[n] = head[n]
           /\ HeadsStay
<1>1. head \in Seq(Heads)
  BY DEF Typed, OutputTypes
<1>2. /\ Len(head') = Len(head) + 1 /\ Len(head) \in Nat
      /\ \A n \in 1 .. Len(head) : n \in 1 .. Len(head') /\ head'[n] = head[n]
  BY <1>1
<1>3. \A n \in 1 .. Len(head) : ScreenId(n)' = ScreenId(n)
  BY <1>2, NameStays
<1> QED BY <1>2, <1>3 DEF HeadsStay

LEMMA ResizedHeads ==
    ASSUME Typed, NEW n \in screens, NEW m \in Modes, head' = [head EXCEPT ![n].mode = m]
    PROVE  /\ HeadsStay /\ Len(head') = Len(head)
           /\ \A k \in 1 .. Len(head) : k # n => head'[k] = head[k]
           /\ ModeOf(head', n) \in Events
<1>1. /\ Len(head') = Len(head) /\ ModeOf(head', n) \in Events
      /\ head'[n] = [head[n] EXCEPT !.mode = m]
      /\ \A k \in 1 .. Len(head) : k # n => head'[k] = head[k]
  BY ModeEvent DEF Typed
<1>2. head[n] \in Heads
  BY ScreenHas DEF Typed
<1>3. head'[n].output = head[n].output /\ head'[n].id = head[n].id
  BY <1>1, <1>2 DEF Heads
<1>4. \A k \in 1 .. Len(head) : head'[k].output = head[k].output /\ head'[k].id = head[k].id
  BY <1>1, <1>3
<1>5. \A k \in 1 .. Len(head) : ScreenId(k)' = ScreenId(k)
  BY <1>4, NameStays
<1> QED BY <1>1, <1>5 DEF HeadsStay

LEMMA StepHeads ==
    ASSUME Base, [Next]_vars, NEW c \in Clients
    PROVE  HeadsStay
<1>0. Typed
  BY DEF Base
<1>1. CASE head' = head
  BY <1>0, <1>1, SameHeadsStay
<1>2. CASE Appears(c)
  BY <1>0, <1>2, AppearsHeads DEF Appears
<1>3. CASE Resizes(c)
  BY <1>0, <1>3, ResizedHeads DEF Resizes
<1> QED BY <1>1, <1>2, <1>3, StepCases DEF Idles, SameScreens, Vanishes, Leaves, Answers, Serves, HandleFrame,
           Hears, ReceiveFrame, Asks, CallFrame

\* Requests, events and contexts name outputs there have been, by their ids.
Names(e) == /\ e.ev = "global" => e.n \in 1 .. Len(head)
            /\ e.ev = "screen_id" => e.n \in 1 .. Len(head) /\ e.id = ScreenId(e.n)
IdOf(n, isNamed) == IF isNamed THEN ScreenId(n) ELSE 0
Directs(r) == r.op \in {"clear", "add"} => r.n \in 1 .. Len(head) /\ r.asked = IdOf(r.n, r.named)
Knows(x) == x.n \in 1 .. Len(head) /\ x.id = IdOf(x.n, x.named)
Directed(c) ==
    /\ \A e \in ToSet(inbox[c]) : Names(e)
    /\ \A r \in ToSet(wire[c]) : Directs(r)
    /\ \A x \in ToSet(ctx[c]) : Knows(x)

LEMMA NamesStay ==
    ASSUME HeadsStay
    PROVE  \A z : (Names(z) => Names(z)') /\ (Directs(z) => Directs(z)') /\ (Knows(z) => Knows(z)')
BY DEF HeadsStay, Names, Directs, Knows, IdOf

LEMMA DirectedAfter ==
    ASSUME NEW c, Directed(c), HeadsStay,
           \A e \in ToSet(inbox'[c]) : e \in ToSet(inbox[c]) \/ Names(e)',
           \A r \in ToSet(wire'[c]) : r \in ToSet(wire[c]) \/ Directs(r)',
           \A x \in ToSet(ctx'[c]) : x \in ToSet(ctx[c]) \/ Knows(x)'
    PROVE  Directed(c)'
BY NamesStay DEF Directed

\* What the contexts of a client are after it has changed some of them.
LEMMA ChangedSet ==
    ASSUME NEW D \in Seq(ScreenContexts), NEW C \in Seq(ScreenContexts), Len(C) = Len(D)
    PROVE  /\ \A y \in ToSet(C) : \E i \in 1 .. Len(D) : y = C[i] /\ D[i] \in ToSet(D)
           /\ \A x \in ToSet(D) : \E i \in 1 .. Len(D) : x = D[i] /\ C[i] \in ToSet(C)
<1>1. /\ \A i \in 1 .. Len(D) : D[i] \in ToSet(D)
      /\ \A x \in ToSet(D) : \E i \in 1 .. Len(D) : x = D[i]
  BY SetOf
<1>2. /\ \A i \in 1 .. Len(C) : C[i] \in ToSet(C)
      /\ \A x \in ToSet(C) : \E i \in 1 .. Len(C) : x = C[i]
  BY SetOf
<1> QED BY <1>1, <1>2

\* Every context is one there was, changed in the field the event is about.
Becomes(e, k, x, y) ==
    \/ y = x
    \/ e.ev = "mode" /\ e.n = x.n /\ y = [x EXCEPT !.size = IF e.turned THEN <<e.mode[2], e.mode[1]>> ELSE e.mode]
    \/ e.ev = "screen_id" /\ e.n = x.n /\ y = [x EXCEPT !.id = e.id, !.named = TRUE]
    \/ e.ev = "layer" /\ e.n = x.n /\ y = [x EXCEPT !.order = Append(@, e.layer)]
    \/ e.ev = "done" /\ y = [x EXCEPT !.order = <<>>]
    \/ e.ev = "done" /\ y = [x EXCEPT !.made = TRUE]

LEMMA HeardContexts ==
    ASSUME Typed, NEW c \in Clients, NEW e \in Events, NEW reqs \in Seq(Requests), NEW C \in Seq(ScreenContexts),
           NEW k \in Calls, NEW st \in Stages, Received(c, e, reqs, C, k, st),
           e.ev \notin {"global", "gone"}
    PROVE  /\ ctx'[c] = C /\ ctx[c] \in Seq(ScreenContexts) /\ Len(C) = Len(ctx[c])
           /\ \A i \in 1 .. Len(C) : Becomes(e, k, ctx[c][i], C[i])
<1>0. ctx[c] \in Seq(ScreenContexts) /\ ctx'[c] = C /\ Receives(c, e, reqs, C, k, st)
  BY DEF Received, Typed, ClientTypes
<1>1. CASE C = ctx[c]
  BY <1>0, <1>1 DEF Becomes
<1>2. CASE e.ev = "mode"
  <2>1. Resized(ctx[c], C, e)
    BY <1>0, <1>2 DEF Receives
  <2> QED BY <1>0, <1>2, <2>1 DEF Resized, Changed, Becomes
<1>3. CASE e.ev = "screen_id"
  <2>1. Named(ctx[c], C, e)
    BY <1>0, <1>3 DEF Receives
  <2> QED BY <1>0, <1>3, <2>1 DEF Named, Changed, Becomes
<1>4. CASE e.ev = "layer"
  <2>1. Layered(ctx[c], C, e)
    BY <1>0, <1>4 DEF Receives
  <2> QED BY <1>0, <1>4, <2>1 DEF Layered, Changed, Becomes
<1>5. CASE e.ev = "done" /\ C # ctx[c]
  <2>1. Made(ctx[c], C) \/ \E n : Copied(ctx[c], C, n)
    BY <1>0, <1>5 DEF Receives
  <2>2. CASE Made(ctx[c], C)
    BY <1>0, <1>5, <2>2 DEF Made, Becomes
  <2>3. CASE \E n : Copied(ctx[c], C, n)
    <3>1. PICK n : Copied(ctx[c], C, n)
      BY <2>3
    <3> QED BY <1>0, <1>5, <3>1 DEF Copied, Changed, Becomes
  <2> QED BY <2>1, <2>2, <2>3
<1> QED BY <1>0, <1>1, <1>2, <1>3, <1>4, <1>5, EventFields DEF Receives

LEMMA BecomesFields ==
    ASSUME NEW e \in Events, NEW k, NEW x \in ScreenContexts, NEW y, Becomes(e, k, x, y)
    PROVE  /\ y.n = x.n
           /\ y.id = x.id \/ (e.ev = "screen_id" /\ e.n = x.n /\ y.id = e.id)
           /\ y.size = x.size \/ e.ev = "mode"
           /\ e.ev # "done" => y.made = x.made
<1>1. CASE y = x
  BY <1>1
<1>2. CASE e.ev = "mode" /\ y = [x EXCEPT !.size = IF e.turned THEN <<e.mode[2], e.mode[1]>> ELSE e.mode]
  <2>1. PICK z : z = IF e.turned THEN <<e.mode[2], e.mode[1]>> ELSE e.mode
    OBVIOUS
  <2>2. y = [x EXCEPT !.size = z]
    BY <1>2, <2>1
  <2> QED BY <1>2, <2>2 DEF ScreenContexts
<1>3. CASE e.ev = "screen_id" /\ e.n = x.n /\ y = [x EXCEPT !.id = e.id, !.named = TRUE]
  BY <1>3 DEF ScreenContexts
<1>4. CASE e.ev = "layer" /\ y = [x EXCEPT !.order = Append(@, e.layer)]
  <2>1. PICK z : z = Append(x.order, e.layer)
    OBVIOUS
  <2>2. y = [x EXCEPT !.order = z]
    BY <1>4, <2>1
  <2> QED BY <1>4, <2>2 DEF ScreenContexts
<1>5. CASE e.ev = "done" /\ y = [x EXCEPT !.order = <<>>]
  BY <1>5 DEF ScreenContexts
<1>6. CASE e.ev = "done" /\ y = [x EXCEPT !.made = TRUE]
  BY <1>6 DEF ScreenContexts
<1> QED BY <1>1, <1>2, <1>3, <1>4, <1>5, <1>6 DEF Becomes

\* The id of a context is its screen's once it is named.
LEMMA BecomesNamed ==
    ASSUME NEW e \in Events, NEW k, NEW x \in ScreenContexts, NEW y, Becomes(e, k, x, y)
    PROVE  \/ y.id = x.id /\ y.named = x.named
           \/ e.ev = "screen_id" /\ e.n = x.n /\ y.id = e.id /\ y.named = TRUE
<1>1. CASE y = x
  BY <1>1
<1>2. CASE e.ev = "mode" /\ y = [x EXCEPT !.size = IF e.turned THEN <<e.mode[2], e.mode[1]>> ELSE e.mode]
  <2>1. PICK z : z = IF e.turned THEN <<e.mode[2], e.mode[1]>> ELSE e.mode
    OBVIOUS
  <2>2. y = [x EXCEPT !.size = z]
    BY <1>2, <2>1
  <2> QED BY <1>2, <2>2 DEF ScreenContexts
<1>3. CASE e.ev = "screen_id" /\ e.n = x.n /\ y = [x EXCEPT !.id = e.id, !.named = TRUE]
  BY <1>3 DEF ScreenContexts
<1>4. CASE e.ev = "layer" /\ y = [x EXCEPT !.order = Append(@, e.layer)]
  <2>1. PICK z : z = Append(x.order, e.layer)
    OBVIOUS
  <2>2. y = [x EXCEPT !.order = z]
    BY <1>4, <2>1
  <2> QED BY <1>4, <2>2 DEF ScreenContexts
<1>5. CASE e.ev = "done" /\ y = [x EXCEPT !.order = <<>>]
  BY <1>5 DEF ScreenContexts
<1>6. CASE e.ev = "done" /\ y = [x EXCEPT !.made = TRUE]
  BY <1>6 DEF ScreenContexts
<1> QED BY <1>1, <1>2, <1>3, <1>4, <1>5, <1>6 DEF Becomes

\* A step that tells a client something and leaves its contexts and requests.
LEMMA TellsDirected ==
    ASSUME Typed, NEW c \in Clients, Directed(c), HeadsStay, SameClient(c), NEW e,
           Told(c, e) \/ inbox'[c] = inbox[c], Names(e)'
    PROVE  Directed(c)'
<1>1. Told(c, e) => ToSet(inbox'[c]) = ToSet(inbox[c]) \cup {e}
  BY ToldInbox
<1>2. \A d \in ToSet(inbox'[c]) : d \in ToSet(inbox[c]) \/ Names(d)'
  BY <1>1
<1> QED BY <1>2, DirectedAfter DEF SameClient

LEMMA OthersDirected ==
    ASSUME Base, [Next]_vars, NEW c \in Clients, Directed(c),
           Idles(c) \/ Appears(c) \/ Vanishes(c) \/ Resizes(c) \/ Leaves(c) \/ Answers(c)
    PROVE  Directed(c)'
<1>0. Typed /\ HeadsStay
  BY StepHeads DEF Base
<1>1. CASE Idles(c)
  <2>1. Names(IviWm)'
    BY DEF Names, IviWm
  <2> QED BY <1>0, <1>1, <2>1, TellsDirected DEF Idles
<1>2. CASE Appears(c)
  <2>1. PICK h \in Heads : head' = Append(head, h)
    BY <1>2 DEF Appears
  <2>2. Len(head') = Len(head) + 1 /\ Len(head) \in Nat
    BY <1>0, <2>1, AppearsHeads
  <2>3. PICK m : m = Len(head) + 1
    OBVIOUS
  <2>4. Names(Event("global", m))'
    <3>1. m \in 1 .. Len(head') /\ Event("global", m).ev = "global" /\ Event("global", m).n = m
      BY <2>2, <2>3 DEF Event
    <3> QED BY <3>1 DEF Names
  <2>5. SameClient(c) /\ (Told(c, Event("global", m)) \/ inbox'[c] = inbox[c])
    BY <1>2, <2>3 DEF Appears, ToldIf
  <2> QED BY <1>0, <2>4, <2>5, TellsDirected
<1>3. CASE Vanishes(c)
  <2>1. PICK n \in screens : ToldIf(c, c \in listening, Event("gone", n))
    BY <1>3 DEF Vanishes
  <2>2. Names(Event("gone", n))'
    BY DEF Names, Event
  <2> QED BY <1>0, <1>3, <2>1, <2>2, TellsDirected DEF Vanishes, ToldIf
<1>4. CASE Resizes(c)
  <2>1. PICK n \in screens : ToldIf(c, <<c, n>> \in viewers, ModeOf(head', n))
    BY <1>4 DEF Resizes
  <2>2. PICK e : e = ModeOf(head', n)
    OBVIOUS
  <2>3. Names(e)'
    <3>1. e.ev = "mode"
      BY <2>2 DEF ModeOf
    <3> QED BY <3>1 DEF Names
  <2>4. SameClient(c) /\ (Told(c, e) \/ inbox'[c] = inbox[c])
    BY <1>4, <2>1, <2>2 DEF Resizes, ToldIf
  <2> QED BY <1>0, <2>3, <2>4, TellsDirected
<1>5. CASE Leaves(c)
  BY <1>5, SetOfNone DEF Leaves, Directed
<1>6. CASE Answers(c)
  <2>1. PICK s \in held, ok \in BOOLEAN : ToldIf(c, <<c, s.shot>> \in shots, Answer(s.shot, ok))
    BY <1>6 DEF Answers
  <2>2. Names(Answer(s.shot, ok))'
    BY DEF Names, Answer
  <2> QED BY <1>0, <1>6, <2>1, <2>2, TellsDirected DEF Answers, ToldIf
<1> QED BY <1>1, <1>2, <1>3, <1>4, <1>5, <1>6

LEMMA ServesDirected ==
    ASSUME Base, [Next]_vars, NEW c \in Clients, Directed(c), Serves(c)
    PROVE  Directed(c)'
<1>0. Typed /\ HeadsStay /\ wire[c] # <<>> /\ head' = head
  BY StepHeads DEF Base, Serves, HandleFrame
<1>1. PICK r \in Requests : r = Head(wire[c]) /\ Served(c, r)
  BY DEF Serves
<1>2. PICK evs \in Seq(Events) : Reply(c, evs) /\ EventsAfter(c, r, evs)
  BY <1>1 DEF Served
<1>3. ctx'[c] = ctx[c] /\ ToSet(wire'[c]) \subseteq ToSet(wire[c])
  BY <1>0, <1>1, HandledWire DEF Served
<1>4. screens \subseteq 1 .. Len(head)
  BY <1>0 DEF Typed, OutputTypes
<1>5. ASSUME NEW e \in ToSet(evs) PROVE Names(e)
  <2>0. <<r.op, e.ev>> \in Answering
    BY <1>2, <1>5 DEF EventsAfter
  <2>1. CASE e.ev = "global"
    <3>1. r.op = "get_registry"
      BY <2>0, <2>1 DEF Answering
    <3>2. e = [ev |-> "ivi_wm"] \/ \E n \in screens : e = Event("global", n)
      BY <1>2, <3>1, <1>5 DEF EventsAfter, Announces
    <3> QED BY <1>4, <2>1, <3>2 DEF Event, Names
  <2>2. CASE e.ev = "screen_id"
    <3>1. r.op = "create_screen"
      BY <2>0, <2>2 DEF Answering
    <3>2. r.n \in screens
      BY <1>2, <1>5, <3>1, SetOfNone DEF EventsAfter
    <3>3. PICK a : a = [ev |-> "screen_id", n |-> r.n, id |-> ScreenId(r.n)]
      OBVIOUS
    <3>4. evs = <<a>>
      BY <1>2, <3>1, <3>2, <3>3 DEF EventsAfter
    <3>5. e = a
      BY <1>5, <3>4, SetOfOne
    <3> QED BY <1>4, <3>2, <3>3, <3>5 DEF Names
  <2> QED BY <2>1, <2>2 DEF Names
<1>6. \A e \in ToSet(inbox'[c]) : e \in ToSet(inbox[c]) \/ Names(e)'
  <2>1. ToSet(inbox'[c]) = ToSet(inbox[c]) \cup ToSet(evs)
    BY <1>0, <1>2, RepliedInbox
  <2> QED BY <1>0, <1>5, <2>1, NamesStay
<1> QED BY <1>0, <1>3, <1>6, DirectedAfter

LEMMA HearsDirected ==
    ASSUME Base, [Next]_vars, NEW c \in Clients, Directed(c), Hears(c)
    PROVE  Directed(c)'
<1>0. Typed /\ HeadsStay /\ ReceiveFrame(c) /\ head' = head
  BY StepHeads DEF Base, Hears, ReceiveFrame
<1>1. PICK e \in Events : e = Head(inbox[c]) /\ ReceiveSays(c, e)
  BY DEF Hears
<1>2. PICK reqs \in Seq(Requests), C \in Seq(ScreenContexts), k \in Calls, st \in Stages :
        Received(c, e, reqs, C, k, st)
  BY <1>1 DEF ReceiveSays
<1>3. ToSet(inbox[c]) = {e} \cup ToSet(inbox'[c])
  BY <1>0, <1>1, HeardInbox
<1>4. Names(e)
  BY <1>3 DEF Directed
<1>5. \A r \in ToSet(wire'[c]) : r \in ToSet(wire[c]) \/ Directs(r)'
  <2>1. ToSet(wire'[c]) = ToSet(wire[c]) \cup ToSet(reqs)
    BY <1>0, <1>2, SentWire DEF Received
  <2> QED BY <1>2, <2>1, HearsSends DEF Directs
<1>6. ASSUME NEW y \in ToSet(ctx'[c]) PROVE y \in ToSet(ctx[c]) \/ Knows(y)
  <2>0. ctx'[c] = C /\ Receives(c, e, reqs, C, k, st)
    BY <1>0, <1>2 DEF Received, Typed, ClientTypes
  <2>1. CASE e.ev = "global"
    <3>1. PICK b \in BOOLEAN : b = (stage[c] # "globals")
      OBVIOUS
    <3>2. C = <<NewContext(e.n, b)>> \o ctx[c]
      BY <2>0, <2>1, <3>1 DEF Receives
    <3>b. PICK x : x = NewContext(e.n, b)
      OBVIOUS
    <3>3. x = NewContext(e.n, b) /\ x.n = e.n /\ x.id = 0 /\ x.named = FALSE
      BY <3>b DEF NewContext
    <3>4. /\ x \in ScreenContexts /\ <<x>> \in Seq(ScreenContexts) /\ ToSet(<<x>>) = {x}
          /\ ctx[c] \in Seq(ScreenContexts)
      <4>1. x \in ScreenContexts
        <5>1. <<>> \in Seq(Layers) /\ e.n \in Nat
          BY <2>1, EventFields
        <5> QED BY <3>3, <5>1 DEF NewContext, ScreenContexts
      <4>2. ToSet(<<x>>) = {x} /\ ctx[c] \in Seq(ScreenContexts)
        BY <1>0, ClientHas, SetOfOne
      <4> QED BY <4>1, <4>2
    <3>a. C = <<x>> \o ctx[c]
      BY <3>2, <3>3, Zenon
    <3>c. PICK q \in Seq(ScreenContexts) : q = <<x>>
      BY <3>4
    <3>5. ToSet(C) = {x} \cup ToSet(ctx[c])
      <4>1. C = q \o ctx[c] /\ ToSet(q) = {x}
        BY <3>a, <3>c, <3>4, Zenon
      <4> QED BY <4>1, <3>4, SetOfJoin
    <3> QED BY <1>4, <1>6, <2>0, <2>1, <3>3, <3>5 DEF Knows, Names, IdOf
  <2>2. CASE e.ev = "gone"
    BY <1>6, <2>0, <2>2 DEF Receives
  <2>3. CASE e.ev \notin {"global", "gone"}
    <3>1. /\ ctx[c] \in Seq(ScreenContexts) /\ Len(C) = Len(ctx[c])
          /\ \A i \in 1 .. Len(C) : Becomes(e, k, ctx[c][i], C[i])
      BY <1>0, <1>2, <2>3, HeardContexts
    <3>2. PICK i \in 1 .. Len(ctx[c]) : y = C[i] /\ ctx[c][i] \in ToSet(ctx[c])
      BY <1>6, <2>0, <3>1, ChangedSet
    <3>3. PICK x \in ScreenContexts : x = ctx[c][i]
      BY <3>1, <3>2, ElementOf
    <3>a. Becomes(e, k, x, y)
      BY <3>1, <3>2, <3>3
    <3>b. \/ y.id = x.id /\ y.named = x.named
          \/ e.ev = "screen_id" /\ e.n = x.n /\ y.id = e.id /\ y.named = TRUE
      BY <3>a, BecomesNamed
    <3>4. y.n = x.n
      BY <3>a, BecomesFields
    <3>5. Knows(x)
      BY <3>2, <3>3 DEF Directed
    <3> QED BY <1>4, <3>b, <3>4, <3>5 DEF Knows, Names, IdOf
  <2> QED BY <2>1, <2>2, <2>3
<1>7. \A y \in ToSet(ctx'[c]) : y \in ToSet(ctx[c]) \/ Knows(y)'
  BY <1>0, <1>6, NamesStay
<1> QED BY <1>0, <1>3, <1>5, <1>7, DirectedAfter

LEMMA AsksDirected ==
    ASSUME Base, [Next]_vars, NEW c \in Clients, Directed(c), Asks(c)
    PROVE  Directed(c)'
<1>0. Typed /\ HeadsStay /\ CallFrame(c) /\ head' = head /\ inbox' = inbox /\ ctx' = ctx
  BY StepHeads DEF Base, Asks, CallFrame
<1>1. PICK reqs \in Seq(Requests), k \in Calls, st \in Stages : CallMade(c, reqs, k, st)
  BY DEF Asks, CallSays
<1>2. ToSet(wire'[c]) = ToSet(wire[c]) \cup ToSet(reqs)
  BY <1>0, <1>1, SentWire DEF CallMade
<1>3. \A r \in ToSet(reqs) : Directs(r)
  <2>1. CASE SetsOrder(c, reqs, k, st)
    <3>1. CASE \A r \in ToSet(reqs) : r.op = "remove"
      BY <3>1 DEF Directs
    <3>2. CASE \E x \in ToSet(ctx[c]) :
                 \A r \in ToSet(reqs) : r.op \in {"clear", "add"} /\ r.n = x.n /\ r.asked = x.id /\ r.named = x.named
      BY <3>2 DEF Directed, Knows, Directs
    <3> QED BY <2>1, <3>1, <3>2 DEF SetsOrder
  <2>2. CASE ~SetsOrder(c, reqs, k, st)
    <3>1. \A r \in ToSet(reqs) : r.op \notin {"clear", "add"}
      BY <1>1, <2>2, CallSends DEF CallMade
    <3> QED BY <3>1 DEF Directs
  <2> QED BY <2>1, <2>2
<1>4. \A r \in ToSet(wire'[c]) : r \in ToSet(wire[c]) \/ Directs(r)'
  BY <1>0, <1>2, <1>3, NamesStay
<1> QED BY <1>0, <1>4, DirectedAfter

DirectedAll == Base /\ \A c \in Clients : Directed(c)

LEMMA DirectedInit == ShotsInit => DirectedAll
<1>1. ASSUME ShotsInit, NEW c \in Clients PROVE Directed(c)
  <2>1. inbox[c] = <<>> /\ wire[c] = <<>> /\ ctx[c] = <<>>
    BY <1>1 DEF ShotsInit, Init
  <2> QED BY <2>1, SetOfNone DEF Directed
<1> QED BY <1>1, BaseInit DEF DirectedAll

LEMMA DirectedStep == DirectedAll /\ [Next]_vars => DirectedAll'
<1> SUFFICES ASSUME DirectedAll, [Next]_vars PROVE DirectedAll'
  OBVIOUS
<1>1. Base /\ Base'
  BY BaseStep DEF DirectedAll
<1>2. ASSUME NEW c \in Clients PROVE Directed(c)'
  BY <1>1, StepCases, OthersDirected, ServesDirected, HearsDirected, AsksDirected DEF DirectedAll
<1> QED BY <1>1, <1>2 DEF DirectedAll

LEMMA DirectedReach == DirectedAll => RequestsReachTheirScreen
<1>1. SUFFICES ASSUME DirectedAll, NEW c \in Clients, NEW i \in DOMAIN wire[c], "asked" \in DOMAIN wire[c][i]
               PROVE  \/ ScreenId(wire[c][i].n) = wire[c][i].asked
                      \/ wire[c][i].asked = 0 /\ ~wire[c][i].named
  BY DEF RequestsReachTheirScreen
<1>2. wire[c] \in Seq(Requests)
  BY <1>1 DEF DirectedAll, Base, Typed, WireTypes
<1>3. PICK r \in Requests : r = wire[c][i] /\ r \in ToSet(wire[c])
  BY <1>1, <1>2, SetOf
<1>4. r.op \in {"clear", "add"}
  BY <1>1, <1>3 DEF Requests
<1>5. r.asked = IdOf(r.n, r.named) /\ r.named \in BOOLEAN
  BY <1>1, <1>3, <1>4 DEF DirectedAll, Directed, Directs, Requests
<1> QED BY <1>3, <1>5 DEF IdOf

\* A render order goes to the screen whose id the application gave, or it was
\* asked for the id 0 of a context whose screen_id event was still to come,
\* while screens come and go (ilm_displaySetRenderOrder,
\* registry_handle_control_remove).
THEOREM RequestsAlwaysReachTheirScreen == Spec => []RequestsReachTheirScreen
<1>1. ShotsInit => DirectedAll
  BY DirectedInit
<1>2. DirectedAll /\ [Next]_vars => DirectedAll'
  BY DirectedStep
<1> QED BY <1>1, <1>2, DirectedReach, PTL DEF Spec

-----------------------------------------------------------------------------
(* The screens a client hears of.                                          *)

Comes(c, n) == Event("global", n) \in ToSet(inbox[c])
Goes(c, n) == Event("gone", n) \in ToSet(inbox[c])
Has(c, n) == \E x \in ToSet(ctx[c]) : x.n = n
Of(n) == {x \in ScreenContexts : x.n = n}
Leaving(c, n) == Followed(inbox[c], {Event("global", n)}, {Event("gone", n)})

\* A client has heard of an output, or its global is in the inbox; when the
\* output is gone, so does the client hear, after its global.
Heard(c, n) ==
    /\ Once(ctx[c], Of(n)) /\ Once(inbox[c], {Event("global", n)})
    /\ ~(Comes(c, n) /\ Has(c, n))
    /\ Goes(c, n) => n \notin screens
    /\ Has(c, n) /\ n \notin screens => Goes(c, n)
    /\ Comes(c, n) /\ n \notin screens => Leaving(c, n)
    /\ n \in screens => Comes(c, n) \/ Has(c, n)
    /\ Comes(c, n) \/ Goes(c, n) \/ Has(c, n) => n \in 1 .. Len(head)

\* What a client is told of other things.
SameTold(c, n) ==
    /\ Once(inbox[c], {Event("global", n)}) => Once(inbox'[c], {Event("global", n)})
    /\ Comes(c, n)' <=> Comes(c, n)
    /\ Goes(c, n)' <=> Goes(c, n)
    /\ Leaving(c, n) => Leaving(c, n)'

LEMMA HeardStays ==
    ASSUME NEW c, NEW n, Heard(c, n), HeadsStay, ctx'[c] = ctx[c], n \in screens' <=> n \in screens,
           SameTold(c, n)
    PROVE  Heard(c, n)'
<1>1. (Has(c, n)' <=> Has(c, n)) /\ Of(n)' = Of(n)
  BY DEF Has, Of
<1>2. n \in 1 .. Len(head) => n \in 1 .. Len(head')
  BY DEF HeadsStay
<1> QED BY <1>1, <1>2 DEF Heard, SameTold

LEMMA ToldOther ==
    ASSUME Typed, NEW c \in Clients, NEW n, NEW e, Told(c, e) \/ inbox'[c] = inbox[c],
           e # Event("global", n), e # Event("gone", n)
    PROVE  SameTold(c, n)
<1>1. CASE inbox'[c] = inbox[c]
  BY <1>1 DEF SameTold, Comes, Goes, Leaving
<1>2. CASE Told(c, e)
  <2>1. /\ inbox'[c] = inbox[c] \o <<e>> /\ inbox[c] \in Seq(Events) /\ <<e>> \in Seq(Events)
        /\ ToSet(inbox'[c]) = ToSet(inbox[c]) \cup {e} /\ ToSet(<<e>>) = {e}
    BY <1>2, ToldInbox
  <2>2. Leaving(c, n) => Leaving(c, n)'
    <3>1. ToSet(<<e>>) \cap {Event("global", n)} = {}
      BY <2>1
    <3> QED BY <2>1, <3>1, FollowedJoin DEF Leaving
  <2>3. Once(inbox[c], {Event("global", n)}) => Once(inbox'[c], {Event("global", n)})
    BY <1>2, OnceTold
  <2> QED BY <2>1, <2>2, <2>3 DEF SameTold, Comes, Goes
<1> QED BY <1>1, <1>2

LEMMA AppearsHeard ==
    ASSUME Typed, NEW c \in Clients, NEW n, c \in listening, Heard(c, n), Appears(c)
    PROVE  Heard(c, n)'
<1>1. PICK h \in Heads : head' = Append(head, h)
  BY DEF Appears
<1>2. Len(head') = Len(head) + 1 /\ Len(head) \in Nat /\ HeadsStay
  BY <1>1, AppearsHeads
<1>3. PICK m \in Nat : m = Len(head) + 1
  BY <1>2
<1>4. /\ Told(c, Event("global", m)) /\ ctx'[c] = ctx[c] /\ screens' = screens \cup {m}
  BY <1>3 DEF Appears, ToldIf, SameClient
<1>5. CASE n # m
  <2>1. Event("global", m) # Event("global", n) /\ Event("global", m) # Event("gone", n)
    BY <1>5 DEF Event
  <2>2. SameTold(c, n)
    BY <1>4, <2>1, ToldOther
  <2> QED BY <1>2, <1>4, <1>5, <2>2, HeardStays
<1>6. CASE n = m
  <2>1. n \notin 1 .. Len(head) /\ n \in 1 .. Len(head')
    BY <1>2, <1>3, <1>6
  <2>2. ~Comes(c, n) /\ ~Goes(c, n) /\ ~Has(c, n)
    BY <2>1 DEF Heard
  <2>3. ToSet(inbox'[c]) = ToSet(inbox[c]) \cup {Event("global", n)}
    BY <1>4, <1>6, ToldInbox
  <2>4. Comes(c, n)' /\ ~Goes(c, n)' /\ ~Has(c, n)' /\ Of(n)' = Of(n)
    <3>1. Event("global", n) # Event("gone", n)
      BY DEF Event
    <3> QED BY <1>4, <2>2, <2>3, <3>1 DEF Comes, Goes, Has, Of
  <2>5. Once(inbox'[c], {Event("global", n)})
    <3>1. ToSet(inbox[c]) \cap {Event("global", n)} = {}
      BY <2>2 DEF Comes
    <3> QED BY <1>4, <1>6, <3>1, OnceTold DEF Heard
  <2> QED BY <1>4, <1>6, <2>1, <2>4, <2>5 DEF Heard
<1> QED BY <1>5, <1>6

LEMMA VanishesHeard ==
    ASSUME Typed, NEW c \in Clients, NEW n, c \in listening, Heard(c, n), Vanishes(c)
    PROVE  Heard(c, n)'
<1>1. PICK m \in screens : screens' = screens \ {m} /\ Told(c, Event("gone", m))
  BY DEF Vanishes, ToldIf
<1>2. ctx'[c] = ctx[c] /\ head' = head /\ HeadsStay
  BY SameHeadsStay DEF Vanishes, SameClient
<1>3. CASE n # m
  <2>1. Event("gone", m) # Event("global", n) /\ Event("gone", m) # Event("gone", n)
    BY <1>3 DEF Event
  <2>2. SameTold(c, n)
    BY <1>1, <2>1, ToldOther
  <2> QED BY <1>1, <1>2, <1>3, <2>2, HeardStays
<1>4. CASE n = m
  <2>0. PICK e : e = Event("gone", n)
    OBVIOUS
  <2>1. /\ inbox'[c] = inbox[c] \o <<e>> /\ inbox[c] \in Seq(Events) /\ <<e>> \in Seq(Events)
        /\ ToSet(inbox'[c]) = ToSet(inbox[c]) \cup {e} /\ ToSet(<<e>>) = {e}
    BY <1>1, <1>4, <2>0, ToldInbox
  <2>2. e # Event("global", n)
    BY <2>0 DEF Event
  <2>3. (Comes(c, n)' <=> Comes(c, n)) /\ Goes(c, n)' /\ (Has(c, n)' <=> Has(c, n)) /\ Of(n)' = Of(n)
    BY <1>2, <2>0, <2>1, <2>2 DEF Comes, Goes, Has, Of
  <2>4. Leaving(c, n)'
    <3>1. ToSet(<<e>>) \cap {Event("global", n)} = {} /\ \E y \in ToSet(<<e>>) : y \in {Event("gone", n)}
      BY <2>0, <2>1, <2>2
    <3> QED BY <2>1, <3>1, FollowedJoin DEF Leaving
  <2>5. Once(inbox'[c], {Event("global", n)})
    BY <1>1, <1>4, <2>0, <2>2, OnceTold DEF Heard
  <2>6. n \in 1 .. Len(head') /\ n \notin screens'
    BY <1>1, <1>2, <1>4 DEF Typed, OutputTypes
  <2> QED BY <1>2, <2>3, <2>4, <2>5, <2>6 DEF Heard
<1> QED BY <1>3, <1>4

LEMMA OthersHeard ==
    ASSUME Typed, NEW c \in Clients, NEW n, c \in listening, Heard(c, n), HeadsStay,
           Idles(c) \/ Resizes(c) \/ Answers(c)
    PROVE  Heard(c, n)'
<1>1. ctx'[c] = ctx[c] /\ screens' = screens
  BY DEF Idles, Resizes, Answers, SameClient, SameScreens
<1>2. CASE Idles(c)
  <2>1. IviWm # Event("global", n) /\ IviWm # Event("gone", n)
    BY DEF IviWm, Event
  <2>2. inbox'[c] = inbox[c]
    BY <1>2 DEF Idles
  <2> QED BY <1>1, <2>1, <2>2, ToldOther, HeardStays
<1>3. CASE Resizes(c)
  <2>1. PICK m \in screens : ToldIf(c, <<c, m>> \in viewers, ModeOf(head', m))
    BY <1>3 DEF Resizes
  <2>2. PICK e : e = ModeOf(head', m)
    OBVIOUS
  <2>3. e # Event("global", n) /\ e # Event("gone", n)
    BY <2>2 DEF ModeOf, Event
  <2>4. Told(c, e) \/ inbox'[c] = inbox[c]
    BY <2>1, <2>2 DEF ToldIf
  <2> QED BY <1>1, <2>3, <2>4, ToldOther, HeardStays
<1>4. CASE Answers(c)
  <2>1. PICK s \in held, ok \in BOOLEAN : ToldIf(c, <<c, s.shot>> \in shots, Answer(s.shot, ok))
    BY <1>4 DEF Answers
  <2>2. PICK e : e = Answer(s.shot, ok)
    OBVIOUS
  <2>3. e # Event("global", n) /\ e # Event("gone", n)
    BY <2>2 DEF Answer, Event
  <2>4. Told(c, e) \/ inbox'[c] = inbox[c]
    BY <2>1, <2>2 DEF ToldIf
  <2> QED BY <1>1, <2>3, <2>4, ToldOther, HeardStays
<1> QED BY <1>2, <1>3, <1>4

LEMMA ServesHeard ==
    ASSUME Base, HeadsStay, NEW c \in Clients, NEW n, c \in listening => Heard(c, n), Serves(c)
    PROVE  c \in listening' => Heard(c, n)'
<1>0. Typed /\ wire[c] # <<>> /\ screens' = screens /\ head' = head /\ Registered(c)
  BY DEF Base, Serves, HandleFrame
<1>1. PICK r \in Requests : r = Head(wire[c]) /\ Served(c, r)
  BY DEF Serves
<1>2. PICK evs \in Seq(Events) : Reply(c, evs) /\ EventsAfter(c, r, evs)
  BY <1>1 DEF Served
<1>3. ctx'[c] = ctx[c] /\ ObjectsAfter(c, r) /\ r \in ToSet(wire[c])
  BY <1>0, <1>1, HandledWire DEF Served
<1>4. /\ inbox'[c] = inbox[c] \o evs /\ inbox[c] \in Seq(Events)
      /\ ToSet(inbox'[c]) = ToSet(inbox[c]) \cup ToSet(evs)
  BY <1>0, <1>2, RepliedInbox
<1>5. CASE c \in listening
  <2>1. r.op # "get_registry"
    BY <1>0, <1>3, <1>5 DEF Registered
  <2>2. \A e \in ToSet(evs) : e.ev \notin {"global", "gone"}
    BY <1>2, <2>1 DEF EventsAfter, Answering
  <2>3. Event("global", n) \notin ToSet(evs) /\ Event("gone", n) \notin ToSet(evs)
    BY <2>2 DEF Event
  <2>4. ToSet(evs) \cap {Event("global", n)} = {}
    BY <2>3
  <2>5. Leaving(c, n) => Leaving(c, n)'
    BY <1>4, <2>4, FollowedJoin DEF Leaving
  <2>6. Once(inbox[c], {Event("global", n)}) => Once(inbox'[c], {Event("global", n)})
    <3>1. Once(evs, {Event("global", n)})
      BY <2>4, OnceApart
    <3> QED BY <1>0, <1>2, <2>4, <3>1, OnceReplied
  <2>7. SameTold(c, n)
    BY <1>4, <2>3, <2>5, <2>6 DEF SameTold, Comes, Goes
  <2> QED BY <1>0, <1>3, <1>5, <2>7, HeardStays
<1>6. CASE c \notin listening /\ c \in listening'
  <2>1. r.op = "get_registry"
    BY <1>3, <1>6 DEF ObjectsAfter
  <2>2. Announces(evs, screens)
    BY <1>2, <2>1 DEF EventsAfter
  <2>3. inbox[c] = <<>> /\ ctx'[c] = <<>>
    BY <1>0, <1>3, <1>6 DEF Registered
  <2>4. inbox'[c] = evs
    BY <1>4, <2>3
  <2>5. (Comes(c, n)' <=> n \in screens) /\ Once(inbox'[c], {Event("global", n)})
    BY <2>2, <2>4 DEF Announces, Lists, Comes
  <2>6. ~Goes(c, n)'
    <3>1. \A e \in ToSet(evs) : e.ev # "gone"
      BY <2>2 DEF Announces, Event
    <3> QED BY <2>4, <3>1 DEF Goes, Event
  <2>7. ~Has(c, n)' /\ Once(ctx'[c], Of(n)')
    BY <2>3, SetOfNone, OnceNone DEF Has
  <2>8. n \in screens => n \in 1 .. Len(head)
    BY <1>0 DEF Typed, OutputTypes
  <2> QED BY <1>0, <2>5, <2>6, <2>7, <2>8 DEF Heard
<1> QED BY <1>5, <1>6

\* What the inbox says of n once the event e is out of it.
LEMMA InboxHeard ==
    ASSUME Typed, NEW c \in Clients, ReceiveFrame(c), NEW e, e = Head(inbox[c]), NEW n, Heard(c, n)
    PROVE  /\ Once(inbox'[c], {Event("global", n)})
           /\ e # Event("global", n) => (Comes(c, n)' <=> Comes(c, n))
           /\ e = Event("global", n) => Comes(c, n) /\ ~Comes(c, n)'
           /\ e # Event("gone", n) => (Goes(c, n)' <=> Goes(c, n))
           /\ e = Event("gone", n) => Goes(c, n)
           /\ Goes(c, n)' => Goes(c, n)
           /\ Leaving(c, n) => Leaving(c, n)' /\ (e = Event("global", n) => Goes(c, n)')
<1>1. ToSet(inbox[c]) = {e} \cup ToSet(inbox'[c]) /\ Cuts(inbox[c], e, inbox'[c]) /\ inbox[c] \in Seq(Events)
  BY HeardInbox
<1>2. Once(inbox'[c], {Event("global", n)})
      /\ (e = Event("global", n) => Event("global", n) \notin ToSet(inbox'[c]))
  BY OnceHeard DEF Heard
<1>3. ASSUME Leaving(c, n)
      PROVE  Leaving(c, n)' /\ (e = Event("global", n) => Goes(c, n)')
  <2>1. PICK X : X = {Event("global", n)}
    OBVIOUS
  <2>2. PICK Y : Y = {Event("gone", n)}
    OBVIOUS
  <2>3. X \cap Y = {}
    BY <2>1, <2>2 DEF Event
  <2>4. Followed(inbox[c], X, Y)
    BY <1>3, <2>1, <2>2, Zenon DEF Leaving
  <2>5. Followed(inbox'[c], X, Y) /\ (e \in X => \E y \in ToSet(inbox'[c]) : y \in Y)
    BY <1>1, <2>3, <2>4, FollowedTail
  <2>6. Followed(inbox'[c], {Event("global", n)}, {Event("gone", n)})
    BY <2>1, <2>2, <2>5, Zenon
  <2>7. e = Event("global", n) => Event("gone", n) \in ToSet(inbox'[c])
    BY <2>1, <2>2, <2>5
  <2> QED BY <2>6, <2>7 DEF Leaving, Goes
<1> QED BY <1>1, <1>2, <1>3 DEF Comes, Goes

\* The contexts a client has after an event.
LEMMA HeardHas ==
    ASSUME Typed, NEW c \in Clients, NEW e \in Events, NEW reqs \in Seq(Requests), NEW C \in Seq(ScreenContexts),
           NEW k \in Calls, NEW st \in Stages, Received(c, e, reqs, C, k, st), NEW n,
           Once(ctx[c], Of(n)), e = Event("global", n) => ~Has(c, n)
    PROVE  /\ Once(ctx'[c], Of(n))
           /\ e \notin {Event("global", n), Event("gone", n)} => (Has(c, n)' <=> Has(c, n))
           /\ e = Event("global", n) => Has(c, n)'
           /\ e = Event("gone", n) => ~Has(c, n)'
<1>0. ctx'[c] = C /\ Receives(c, e, reqs, C, k, st) /\ ctx[c] \in Seq(ScreenContexts)
  BY DEF Received, Typed, ClientTypes
<1>1. CASE e.ev = "global"
  <2>1. PICK b \in BOOLEAN : b = (stage[c] # "globals")
    OBVIOUS
  <2>2. C = <<NewContext(e.n, b)>> \o ctx[c]
    BY <1>0, <1>1, <2>1 DEF Receives
  <2>3. PICK x : x = NewContext(e.n, b)
    OBVIOUS
  <2>4. x.n = e.n /\ x \in ScreenContexts
    <3>1. <<>> \in Seq(Layers) /\ e.n \in Nat
      BY <1>1, EventFields
    <3> QED BY <2>3, <3>1 DEF NewContext, ScreenContexts
  <2>5. PICK q \in Seq(ScreenContexts) : q = <<x>>
    <3>1. <<x>> \in Seq(ScreenContexts)
      BY <2>4
    <3> QED BY <3>1
  <2>6. ToSet(q) = {x} /\ \A X : Once(q, X)
    BY <2>5, SetOfOne, OnceOne
  <2>7. C = q \o ctx[c]
    BY <2>2, <2>3, <2>5, Zenon
  <2>8. ToSet(C) = {x} \cup ToSet(ctx[c])
    BY <1>0, <2>6, <2>7, SetOfJoin
  <2>9. e = Event("global", e.n) /\ \A m : Event("gone", m) # e
    BY <1>1, EventFields DEF Event
  <2>10. CASE e.n = n
    <3>1. ToSet(ctx[c]) \cap Of(n) = {}
      BY <2>9, <2>10 DEF Has, Of
    <3>2. Once(C, Of(n))
      BY <1>0, <2>6, <2>7, <3>1, OnceJoin
    <3> QED BY <1>0, <2>4, <2>8, <2>9, <2>10, <3>2 DEF Has
  <2>11. CASE e.n # n
    <3>1. ToSet(q) \cap Of(n) = {}
      BY <2>4, <2>6, <2>11 DEF Of
    <3>2. Once(C, Of(n))
      BY <1>0, <2>6, <2>7, <3>1, OnceJoin
    <3>3. e # Event("global", n)
      BY <2>11 DEF Event
    <3> QED BY <1>0, <2>4, <2>8, <2>9, <2>11, <3>2, <3>3 DEF Has
  <2> QED BY <2>10, <2>11
<1>2. CASE e.ev = "gone"
  <2>1. /\ \A x : x \in ToSet(C) <=> x \in ToSet(ctx[c]) /\ x.n # e.n
        /\ Once(C, Of(n))
    BY <1>0, <1>2 DEF Receives
  <2>2. e = Event("gone", e.n) /\ \A m : Event("global", m) # e
    BY <1>2, EventFields DEF Event
  <2>3. e = Event("gone", n) <=> e.n = n
    BY <2>2 DEF Event
  <2> QED BY <1>0, <2>1, <2>2, <2>3 DEF Has
<1>3. CASE e.ev \notin {"global", "gone"}
  <2>1. /\ Len(C) = Len(ctx[c])
        /\ \A i \in 1 .. Len(C) : Becomes(e, k, ctx[c][i], C[i])
    BY <1>0, <1>3, HeardContexts
  <2>2. ASSUME NEW i \in 1 .. Len(C) PROVE C[i].n = ctx[c][i].n /\ C[i] \in ScreenContexts
                                           /\ ctx[c][i] \in ScreenContexts
    <3>1. PICK x \in ScreenContexts : x = ctx[c][i]
      BY <1>0, <2>1, ElementOf
    <3>2. Becomes(e, k, x, C[i])
      BY <2>1, <3>1
    <3>3. C[i].n = x.n
      BY <3>2, BecomesFields
    <3> QED BY <3>1, <3>3, ElementOf
  <2>3. Once(C, Of(n))
    BY <2>1, <2>2 DEF Once, Of
  <2>4. Has(c, n)' <=> Has(c, n)
    <3>1. /\ \A y \in ToSet(C) : \E i \in 1 .. Len(ctx[c]) : y = C[i] /\ ctx[c][i] \in ToSet(ctx[c])
          /\ \A x \in ToSet(ctx[c]) : \E i \in 1 .. Len(ctx[c]) : x = ctx[c][i] /\ C[i] \in ToSet(C)
      <4>1. ctx[c] \in Seq(ScreenContexts) /\ C \in Seq(ScreenContexts) /\ Len(C) = Len(ctx[c])
        BY <1>0, <2>1
      <4> QED BY <4>1, ChangedSet, Zenon
    <3>2. \A y \in ToSet(C) : \E x \in ToSet(ctx[c]) : x.n = y.n
      BY <2>1, <2>2, <3>1
    <3>3. \A x \in ToSet(ctx[c]) : \E y \in ToSet(C) : x.n = y.n
      BY <2>1, <2>2, <3>1
    <3> QED BY <1>0, <3>2, <3>3 DEF Has
  <2>5. e # Event("global", n) /\ e # Event("gone", n)
    BY <1>3 DEF Event
  <2> QED BY <1>0, <2>3, <2>4, <2>5
<1> QED BY <1>1, <1>2, <1>3

LEMMA HearsHeard ==
    ASSUME Base, HeadsStay, NEW c \in Clients, NEW n, c \in listening => Heard(c, n), Hears(c)
    PROVE  c \in listening' => Heard(c, n)'
<1>0. Typed /\ ReceiveFrame(c) /\ Registered(c) /\ screens' = screens /\ head' = head
  BY DEF Base, Hears, ReceiveFrame
<1>1. PICK e \in Events : e = Head(inbox[c]) /\ ReceiveSays(c, e)
  BY DEF Hears
<1>2. PICK reqs \in Seq(Requests), C \in Seq(ScreenContexts), k \in Calls, st \in Stages :
        Received(c, e, reqs, C, k, st)
  BY <1>1 DEF ReceiveSays
<1>3. Heard(c, n)
  BY <1>0 DEF Registered, ReceiveFrame
<1>4. /\ Once(inbox'[c], {Event("global", n)})
      /\ e # Event("global", n) => (Comes(c, n)' <=> Comes(c, n))
      /\ e = Event("global", n) => Comes(c, n) /\ ~Comes(c, n)'
      /\ e # Event("gone", n) => (Goes(c, n)' <=> Goes(c, n))
      /\ e = Event("gone", n) => Goes(c, n)
      /\ Goes(c, n)' => Goes(c, n)
      /\ Leaving(c, n) => Leaving(c, n)' /\ (e = Event("global", n) => Goes(c, n)')
  BY <1>0, <1>1, <1>3, InboxHeard
<1>5. /\ Once(ctx'[c], Of(n))
      /\ e \notin {Event("global", n), Event("gone", n)} => (Has(c, n)' <=> Has(c, n))
      /\ e = Event("global", n) => Has(c, n)'
      /\ e = Event("gone", n) => ~Has(c, n)'
  BY <1>0, <1>2, <1>3, <1>4, HeardHas DEF Heard
<1>6. Event("global", n) # Event("gone", n) /\ Of(n)' = Of(n)
  BY DEF Event, Of
<1>7. CASE e = Event("global", n)
  BY <1>0, <1>3, <1>4, <1>5, <1>6, <1>7 DEF Heard
<1>8. CASE e = Event("gone", n)
  BY <1>0, <1>3, <1>4, <1>5, <1>6, <1>8 DEF Heard
<1>9. CASE e \notin {Event("global", n), Event("gone", n)}
  BY <1>0, <1>3, <1>4, <1>5, <1>6, <1>9 DEF Heard
<1> QED BY <1>7, <1>8, <1>9

HeardAll == Base /\ \A c \in Clients : c \in listening => \A n : Heard(c, n)

LEMMA HeardStep == HeardAll /\ [Next]_vars => HeardAll'
<1> SUFFICES ASSUME HeardAll, [Next]_vars PROVE HeardAll'
  OBVIOUS
<1>0. Base /\ Base' /\ Typed
  BY BaseStep DEF HeardAll, Base
<1>1. ASSUME NEW c \in Clients, NEW n PROVE c \in listening' => Heard(c, n)'
  <2>1. HeadsStay /\ (c \in listening => Heard(c, n))
    BY <1>0, StepHeads DEF HeardAll
  <2>2. CASE Serves(c)
    BY <1>0, <2>1, <2>2, ServesHeard
  <2>3. CASE Hears(c)
    BY <1>0, <2>1, <2>3, HearsHeard
  <2>4. CASE Asks(c)
    <3>1. UNCHANGED <<inbox, ctx, screens, head, listening>>
      BY <2>4 DEF Asks, CallFrame
    <3>2. SameTold(c, n)
      BY <3>1 DEF SameTold, Comes, Goes, Leaving
    <3> QED BY <2>1, <3>1, <3>2, HeardStays
  <2>5. CASE Leaves(c)
    BY <2>5 DEF Leaves
  <2>6. CASE Idles(c) \/ Appears(c) \/ Vanishes(c) \/ Resizes(c) \/ Answers(c)
    <3>1. c \in listening' => c \in listening
      BY <2>6 DEF Idles, Appears, Vanishes, Resizes, Answers, SameObjects
    <3> QED BY <1>0, <2>1, <2>6, <3>1, AppearsHeard, VanishesHeard, OthersHeard
  <2> QED BY <1>0, <2>2, <2>3, <2>4, <2>5, <2>6, StepCases
<1> QED BY <1>0, <1>1 DEF HeardAll

LEMMA HeardInit == ShotsInit => HeardAll
<1>1. ShotsInit => listening = {}
  BY DEF ShotsInit, Init
<1> QED BY <1>1, BaseInit DEF HeardAll

-----------------------------------------------------------------------------
(* What a client knows of a screen, or is about to be told.                *)

ModesOf(n) == {e \in Events : e.ev = "mode" /\ e.n = n}

IdComes(c, n, id) ==
    \/ id = ScreenId(n)
    \/ Request("create_screen", n) \in ToSet(wire[c])
    \/ \E e \in ToSet(inbox[c]) : e.ev = "screen_id" /\ e.n = n

\* The last mode in the inbox is that of the output.
SizeComes(c, n, size) ==
    \/ Request("bind_output", n) \in ToSet(wire[c])
    \/ /\ <<c, n>> \in viewers
       /\ LastIs(inbox[c], ModesOf(n), ModeOf(head, n))
       /\ ToSet(inbox[c]) \cap ModesOf(n) = {} => size = Extent(head, n)

Described(c, x) ==
    /\ x.n \in screens /\ x.made = TRUE => IdComes(c, x.n, x.id)
    /\ x.n \in screens => SizeComes(c, x.n, x.size)
    /\ stage[c] \in {"ids", "on", "closing"} => x.made = TRUE

LEMMA ModeIsOf ==
    ASSUME Typed, NEW n \in screens
    PROVE  /\ ModeOf(head, n) \in Events /\ ModeOf(head, n) \in ModesOf(n)
           /\ \A m : m # n => ModeOf(head, n) \notin ModesOf(m)
<1>1. n \in Nat /\ head[n] \in Heads
  BY ScreenHas DEF Typed
<1>2. PICK b \in BOOLEAN : b <=> head[n].output \in Rotated
  OBVIOUS
<1>3. PICK e : e = [ev |-> "mode", n |-> n, turned |-> b, mode |-> head[n].mode]
  OBVIOUS
<1>4. e = ModeOf(head, n)
  BY <1>2, <1>3 DEF ModeOf
<1>5. e \in Events /\ e.ev = "mode" /\ e.n = n
  BY <1>1, <1>3 DEF Events, Heads
<1> QED BY <1>4, <1>5 DEF ModesOf

LEMMA ExtentOfMode ==
    ASSUME Typed, NEW n \in screens, NEW e, e = ModeOf(head, n)
    PROVE  (IF e.turned THEN <<e.mode[2], e.mode[1]>> ELSE e.mode) = Extent(head, n)
<1>1. e.turned = (head[n].output \in Rotated) /\ e.mode = head[n].mode
  BY DEF ModeOf
<1> QED BY <1>1 DEF Extent

\* A step that changes nothing a client knows.
LEMMA DescribedStays ==
    ASSUME NEW c, NEW x, Described(c, x), stage'[c] = stage[c], x.n \in screens' => x.n \in screens,
           x.n \in screens /\ IdComes(c, x.n, x.id) => IdComes(c, x.n, x.id)',
           x.n \in screens' /\ SizeComes(c, x.n, x.size) => SizeComes(c, x.n, x.size)'
    PROVE  Described(c, x)'
BY DEF Described

LEMMA IdStays ==
    ASSUME HeadsStay, NEW c, NEW n \in 1 .. Len(head), NEW id,
           Request("create_screen", n) \in ToSet(wire[c]) => Request("create_screen", n) \in ToSet(wire'[c]),
           \A e \in ToSet(inbox[c]) : e \in ToSet(inbox'[c]) \/ e.ev # "screen_id" \/ e.n # n,
           IdComes(c, n, id)
    PROVE  IdComes(c, n, id)'
<1>1. ScreenId(n)' = ScreenId(n)
  BY DEF HeadsStay
<1>2. CASE id = ScreenId(n)
  BY <1>1, <1>2 DEF IdComes
<1>3. CASE Request("create_screen", n) \in ToSet(wire[c])
  BY <1>3 DEF IdComes
<1>4. CASE \E e \in ToSet(inbox[c]) : e.ev = "screen_id" /\ e.n = n
  BY <1>4 DEF IdComes
<1> QED BY <1>2, <1>3, <1>4 DEF IdComes

\* A step after which the modes of an output are what they were.
LEMMA SizeStays ==
    ASSUME NEW c, NEW n, NEW size, SizeComes(c, n, size),
           ModeOf(head', n) = ModeOf(head, n), Extent(head', n) = Extent(head, n),
           Request("bind_output", n) \in ToSet(wire[c]) => Request("bind_output", n) \in ToSet(wire'[c]),
           <<c, n>> \in viewers => <<c, n>> \in viewers',
           LastIs(inbox[c], ModesOf(n), ModeOf(head, n)) => LastIs(inbox'[c], ModesOf(n), ModeOf(head, n)),
           ToSet(inbox'[c]) \cap ModesOf(n) = ToSet(inbox[c]) \cap ModesOf(n)
    PROVE  SizeComes(c, n, size)'
<1>1. ModesOf(n)' = ModesOf(n)
  BY DEF ModesOf
<1>2. CASE Request("bind_output", n) \in ToSet(wire[c])
  BY <1>2 DEF SizeComes
<1>3. CASE Request("bind_output", n) \notin ToSet(wire[c])
  <2>1. /\ <<c, n>> \in viewers' /\ LastIs(inbox'[c], ModesOf(n), ModeOf(head', n))
        /\ ToSet(inbox'[c]) \cap ModesOf(n) = {} => size = Extent(head', n)
    BY <1>3 DEF SizeComes
  <2> QED BY <1>1, <2>1 DEF SizeComes
<1> QED BY <1>2, <1>3

\* What follows the modes of an output in the inbox.
LEMMA ModesTold ==
    ASSUME Typed, NEW c \in Clients, NEW n, NEW e, Told(c, e) \/ inbox'[c] = inbox[c], e \notin ModesOf(n), NEW v
    PROVE  /\ ToSet(inbox'[c]) \cap ModesOf(n) = ToSet(inbox[c]) \cap ModesOf(n)
           /\ LastIs(inbox[c], ModesOf(n), v) => LastIs(inbox'[c], ModesOf(n), v)
           /\ ToSet(inbox[c]) \subseteq ToSet(inbox'[c])
<1>1. CASE Told(c, e)
  <2>1. /\ inbox'[c] = inbox[c] \o <<e>> /\ inbox[c] \in Seq(Events) /\ <<e>> \in Seq(Events)
        /\ ToSet(inbox'[c]) = ToSet(inbox[c]) \cup {e} /\ ToSet(<<e>>) = {e}
    BY <1>1, ToldInbox
  <2>2. ToSet(<<e>>) \cap ModesOf(n) = {}
    BY <2>1
  <2> QED BY <2>1, <2>2, LastJoin
<1>2. CASE inbox'[c] = inbox[c]
  BY <1>2
<1> QED BY <1>1, <1>2

LEMMA TellsDescribed ==
    ASSUME Typed, HeadsStay, NEW c \in Clients, NEW x, Described(c, x), Knows(x), SameClient(c),
           x.n \in screens' => x.n \in screens,
           <<c, x.n>> \in viewers => x.n \notin screens' \/ <<c, x.n>> \in viewers',
           head'[x.n] = head[x.n], NEW e, Told(c, e) \/ inbox'[c] = inbox[c], e \notin ModesOf(x.n)
    PROVE  Described(c, x)'
<1>1. \A v : /\ ToSet(inbox'[c]) \cap ModesOf(x.n) = ToSet(inbox[c]) \cap ModesOf(x.n)
             /\ LastIs(inbox[c], ModesOf(x.n), v) => LastIs(inbox'[c], ModesOf(x.n), v)
             /\ ToSet(inbox[c]) \subseteq ToSet(inbox'[c])
  BY ModesTold
<1>2. wire'[c] = wire[c] /\ stage'[c] = stage[c] /\ x.n \in 1 .. Len(head)
  BY DEF SameClient, Knows
<1>3. ModeOf(head', x.n) = ModeOf(head, x.n) /\ Extent(head', x.n) = Extent(head, x.n)
  BY DEF ModeOf, Extent
<1>4. IdComes(c, x.n, x.id) => IdComes(c, x.n, x.id)'
  BY <1>1, <1>2, IdStays
<1>5. ASSUME x.n \in screens', SizeComes(c, x.n, x.size) PROVE SizeComes(c, x.n, x.size)'
  BY <1>1, <1>2, <1>3, <1>5, SizeStays
<1> QED BY <1>2, <1>4, <1>5, DescribedStays

LEMMA ResizesDescribed ==
    ASSUME Typed, HeadsStay, NEW c \in Clients, NEW x, Described(c, x), Knows(x), Resizes(c)
    PROVE  Described(c, x)'
<1>1. PICK n \in screens, m \in Modes : /\ head' = [head EXCEPT ![n].mode = m]
                                        /\ ToldIf(c, <<c, n>> \in viewers, ModeOf(head', n))
  BY DEF Resizes
<1>2. SameClient(c) /\ SameObjects(c) /\ screens' = screens
  BY DEF Resizes
<1>3. /\ Len(head') = Len(head) /\ ModeOf(head', n) \in Events
      /\ \A k \in 1 .. Len(head) : k # n => head'[k] = head[k]
  BY <1>1, ResizedHeads
<1>4. PICK e : e = ModeOf(head', n)
  OBVIOUS
<1>5. e.ev = "mode" /\ e.n = n /\ e \in Events
  BY <1>3, <1>4 DEF ModeOf
<1>6. ToldIf(c, <<c, n>> \in viewers, e)
  BY <1>1, <1>4
<1>7. CASE x.n # n
  <2>1. e \notin ModesOf(x.n)
    BY <1>5, <1>7 DEF ModesOf
  <2>2. head'[x.n] = head[x.n]
    BY <1>3, <1>7 DEF Knows
  <2> QED BY <1>2, <1>6, <2>1, <2>2, TellsDescribed DEF ToldIf, SameObjects
<1>8. CASE x.n = n
  <2>1. wire'[c] = wire[c] /\ stage'[c] = stage[c] /\ n \in 1 .. Len(head)
    BY <1>2, <1>8 DEF SameClient, Knows
  <2>2. ToSet(inbox[c]) \subseteq ToSet(inbox'[c])
    BY <1>6, ToldInbox DEF ToldIf
  <2>3. IdComes(c, x.n, x.id) => IdComes(c, x.n, x.id)'
    BY <1>8, <2>1, <2>2, IdStays
  <2>4. ASSUME SizeComes(c, x.n, x.size) PROVE SizeComes(c, x.n, x.size)'
    <3>1. CASE Request("bind_output", n) \in ToSet(wire[c])
      BY <1>8, <2>1, <3>1 DEF SizeComes
    <3>2. CASE Request("bind_output", n) \notin ToSet(wire[c])
      <4>1. <<c, n>> \in viewers
        BY <1>8, <2>4, <3>2 DEF SizeComes
      <4>2. Told(c, e)
        BY <1>6, <4>1 DEF ToldIf
      <4>3. /\ inbox'[c] = inbox[c] \o <<e>> /\ inbox[c] \in Seq(Events) /\ <<e>> \in Seq(Events)
            /\ ToSet(inbox'[c]) = ToSet(inbox[c]) \cup {e}
        BY <4>2, ToldInbox
      <4>4. e \in ModesOf(n) /\ ModesOf(n)' = ModesOf(n)
        BY <1>5 DEF ModesOf
      <4>5. LastIs(inbox'[c], ModesOf(n), e)
        BY <4>3, <4>4, LastJoin
      <4>6. <<c, n>> \in viewers'
        BY <1>2, <4>1 DEF SameObjects
      <4>7. LastIs(inbox'[c], ModesOf(n)', ModeOf(head', n))
        BY <1>4, <4>4, <4>5, Zenon
      <4>8. ToSet(inbox'[c]) \cap ModesOf(n)' # {}
        BY <4>3, <4>4
      <4> QED BY <1>8, <4>6, <4>7, <4>8 DEF SizeComes
    <3> QED BY <3>1, <3>2
  <2> QED BY <1>2, <2>1, <2>3, <2>4, DescribedStays
<1> QED BY <1>7, <1>8

LEMMA OthersDescribed ==
    ASSUME Typed, HeadsStay, NEW c \in Clients, NEW x, Described(c, x), Knows(x),
           Idles(c) \/ Appears(c) \/ Vanishes(c) \/ Answers(c)
    PROVE  Described(c, x)'
<1>0. x.n \in 1 .. Len(head) /\ SameClient(c)
  BY DEF Knows, Idles, Appears, Vanishes, Answers
<1>1. CASE Idles(c)
  <2>1. IviWm \notin ModesOf(x.n)
    BY DEF IviWm, ModesOf
  <2>2. inbox'[c] = inbox[c] /\ head' = head /\ screens' = screens /\ SameObjects(c)
    BY <1>1 DEF Idles, SameScreens
  <2> QED BY <1>0, <2>1, <2>2, TellsDescribed DEF SameObjects
<1>2. CASE Appears(c)
  <2>1. PICK h \in Heads : head' = Append(head, h)
    BY <1>2 DEF Appears
  <2>2. head'[x.n] = head[x.n] /\ x.n # Len(head) + 1
    BY <1>0, <2>1, AppearsHeads
  <2>3. PICK e : e = Event("global", Len(head) + 1)
    OBVIOUS
  <2>4. e \notin ModesOf(x.n)
    BY <2>3 DEF Event, ModesOf
  <2>5. Told(c, e) \/ inbox'[c] = inbox[c]
    BY <1>2, <2>3 DEF Appears, ToldIf
  <2>6. screens' = screens \cup {Len(head) + 1} /\ SameObjects(c)
    BY <1>2 DEF Appears
  <2> QED BY <1>0, <2>2, <2>4, <2>5, <2>6, TellsDescribed DEF SameObjects
<1>3. CASE Vanishes(c)
  <2>1. PICK n \in screens : /\ screens' = screens \ {n} /\ ToldIf(c, c \in listening, Event("gone", n))
                             /\ \A k : k # n => (<<c, k>> \in viewers' <=> <<c, k>> \in viewers)
    BY <1>3 DEF Vanishes
  <2>2. Event("gone", n) \notin ModesOf(x.n)
    BY DEF Event, ModesOf
  <2>3. head' = head
    BY <1>3 DEF Vanishes
  <2>4. <<c, x.n>> \in viewers => x.n \notin screens' \/ <<c, x.n>> \in viewers'
    BY <2>1
  <2>5. Told(c, Event("gone", n)) \/ inbox'[c] = inbox[c]
    BY <2>1 DEF ToldIf
  <2> QED BY <1>0, <2>1, <2>2, <2>3, <2>4, <2>5, TellsDescribed
<1>4. CASE Answers(c)
  <2>1. PICK s \in held, ok \in BOOLEAN : ToldIf(c, <<c, s.shot>> \in shots, Answer(s.shot, ok))
    BY <1>4 DEF Answers
  <2>2. Answer(s.shot, ok) \notin ModesOf(x.n)
    BY DEF Answer, ModesOf
  <2>3. head' = head /\ screens' = screens /\ SameObjects(c)
    BY <1>4 DEF Answers, SameScreens
  <2>4. Told(c, Answer(s.shot, ok)) \/ inbox'[c] = inbox[c]
    BY <2>1 DEF ToldIf
  <2> QED BY <1>0, <2>2, <2>3, <2>4, TellsDescribed DEF SameObjects
<1> QED BY <1>1, <1>2, <1>3, <1>4

LEMMA RequestIs ==
    ASSUME NEW r \in Requests, r.op \in {"bind_output", "create_screen"}
    PROVE  r = Request(r.op, r.n)
BY DEF Requests, Request

LEMMA ServesDescribed ==
    ASSUME Typed, HeadsStay, NEW c \in Clients, NEW x, Described(c, x), Knows(x), Serves(c)
    PROVE  Described(c, x)'
<1>0. wire[c] # <<>> /\ screens' = screens /\ head' = head /\ x.n \in 1 .. Len(head)
  BY DEF Serves, HandleFrame, Knows
<1>1. PICK r \in Requests : r = Head(wire[c]) /\ Served(c, r)
  BY DEF Serves
<1>2. PICK evs \in Seq(Events) : Reply(c, evs) /\ EventsAfter(c, r, evs)
  BY <1>1 DEF Served
<1>3. stage'[c] = stage[c] /\ ObjectsAfter(c, r) /\ ToSet(wire[c]) = {r} \cup ToSet(wire'[c])
  BY <1>0, <1>1, HandledWire DEF Served
<1>4. /\ inbox'[c] = inbox[c] \o evs /\ inbox[c] \in Seq(Events)
      /\ ToSet(inbox'[c]) = ToSet(inbox[c]) \cup ToSet(evs)
  BY <1>0, <1>2, RepliedInbox
<1>5. ASSUME x.n \in screens, IdComes(c, x.n, x.id) PROVE IdComes(c, x.n, x.id)'
  <2>1. CASE r = Request("create_screen", x.n)
    <3>1. r.op = "create_screen" /\ r.n = x.n
      BY <2>1 DEF Request
    <3>2. PICK e : e = [ev |-> "screen_id", n |-> r.n, id |-> ScreenId(r.n)]
      OBVIOUS
    <3>3. evs = <<e>>
      BY <1>2, <1>5, <3>1, <3>2 DEF EventsAfter
    <3>4. e \in ToSet(inbox'[c]) /\ e.ev = "screen_id" /\ e.n = x.n
      BY <1>4, <3>1, <3>2, <3>3, SetOfOne
    <3> QED BY <3>4 DEF IdComes
  <2>2. CASE r # Request("create_screen", x.n)
    <3>1. Request("create_screen", x.n) \in ToSet(wire[c]) => Request("create_screen", x.n) \in ToSet(wire'[c])
      BY <1>3, <2>2
    <3> QED BY <1>0, <1>4, <1>5, <3>1, IdStays
  <2> QED BY <2>1, <2>2
<1>6. ASSUME x.n \in screens, SizeComes(c, x.n, x.size) PROVE SizeComes(c, x.n, x.size)'
  <2>1. CASE r = Request("bind_output", x.n)
    <3>1. r.op = "bind_output" /\ r.n = x.n
      BY <2>1 DEF Request
    <3>2. PICK e : e = ModeOf(head, x.n)
      OBVIOUS
    <3>3. evs = <<e>> /\ <<c, x.n>> \in viewers'
      BY <1>2, <1>6, <3>1, <3>2 DEF EventsAfter
    <3>4. e \in ModesOf(x.n) /\ ModesOf(x.n)' = ModesOf(x.n)
      BY <1>6, <3>2, ModeIsOf DEF ModesOf
    <3>5. LastIs(inbox'[c], ModesOf(x.n), e)
      BY <1>4, <3>3, <3>4, LastJoin
    <3>6. LastIs(inbox'[c], ModesOf(x.n)', ModeOf(head', x.n))
      <4>1. ModeOf(head', x.n) = e
        BY <1>0, <3>2
      <4> QED BY <3>4, <3>5, <4>1, Zenon
    <3>7. ToSet(inbox'[c]) \cap ModesOf(x.n)' # {}
      BY <1>4, <3>3, <3>4, SetOfOne
    <3> QED BY <3>3, <3>6, <3>7 DEF SizeComes
  <2>2. CASE r # Request("bind_output", x.n)
    <3>1. Request("bind_output", x.n) \in ToSet(wire[c]) => Request("bind_output", x.n) \in ToSet(wire'[c])
      BY <1>3, <2>2
    <3>2. ToSet(evs) \cap ModesOf(x.n) = {}
      <4>1. CASE r.op = "bind_output"
        <5>1. r.n # x.n
          BY <2>2, <4>1, RequestIs
        <5>2. CASE r.n \in screens
          <6>1. evs = <<ModeOf(head, r.n)>>
            BY <1>2, <4>1, <5>2 DEF EventsAfter
          <6> QED BY <5>1, <5>2, <6>1, SetOfOne, ModeIsOf
        <5>3. CASE r.n \notin screens
          BY <1>2, <4>1, <5>3, SetOfNone DEF EventsAfter
        <5> QED BY <5>2, <5>3
      <4>2. CASE r.op # "bind_output"
        BY <1>2, <4>2 DEF EventsAfter, Answering, ModesOf
      <4> QED BY <4>1, <4>2
    <3>3. /\ ToSet(inbox'[c]) \cap ModesOf(x.n) = ToSet(inbox[c]) \cap ModesOf(x.n)
          /\ \A v : LastIs(inbox[c], ModesOf(x.n), v) => LastIs(inbox'[c], ModesOf(x.n), v)
      BY <1>4, <3>2, LastJoin
    <3>4. <<c, x.n>> \in viewers => <<c, x.n>> \in viewers'
      BY <1>3 DEF ObjectsAfter
    <3>5. ModeOf(head', x.n) = ModeOf(head, x.n) /\ Extent(head', x.n) = Extent(head, x.n)
      BY <1>0
    <3> QED BY <1>6, <3>1, <3>3, <3>4, <3>5, SizeStays
  <2> QED BY <2>1, <2>2
<1> QED BY <1>0, <1>3, <1>5, <1>6, DescribedStays

LEMMA AsksDescribed ==
    ASSUME Base, HeadsStay, NEW c \in Clients, NEW x \in ToSet(ctx[c]), Described(c, x), Knows(x), Asks(c)
    PROVE  Described(c, x)'
<1>0. /\ Typed /\ Registered(c) /\ x.n \in 1 .. Len(head)
      /\ UNCHANGED <<head, screens, inbox, viewers, ctx, listening>>
  BY DEF Base, Asks, CallFrame, Knows
<1>1. PICK reqs \in Seq(Requests), k \in Calls, st \in Stages : CallMade(c, reqs, k, st)
  BY DEF Asks, CallSays
<1>2. ToSet(wire[c]) \subseteq ToSet(wire'[c]) /\ stage'[c] = st
  BY <1>0, <1>1, SentWire DEF CallMade, Typed, ClientTypes
<1>3. stage[c] \notin {"off", "lost"}
  BY <1>0, SetOfNone DEF Registered
<1>4. stage[c] = "on"
  BY <1>1, <1>3 DEF CallMade, Calling, Begins, Waits, SetsOrder, Ends, Shoots
<1>5. x.made = TRUE
  BY <1>4 DEF Described
<1>6. IdComes(c, x.n, x.id) => IdComes(c, x.n, x.id)'
  BY <1>0, <1>2, IdStays
<1>7. SizeComes(c, x.n, x.size) => SizeComes(c, x.n, x.size)'
  <2>1. ModeOf(head', x.n) = ModeOf(head, x.n) /\ Extent(head', x.n) = Extent(head, x.n)
    BY <1>0
  <2> QED BY <1>0, <1>2, <2>1, SizeStays
<1> QED BY <1>0, <1>5, <1>6, <1>7 DEF Described

\* What an event makes of the contexts, field by field.
BecomesMade(c, x, y, reqs, st) ==
    \/ y.made = x.made /\ (st \in {"ids", "on", "closing"} => stage[c] \in {"ids", "on", "closing"})
    \/ /\ y.made = TRUE
       /\ x.made # TRUE => Request("create_screen", x.n) \in ToSet(reqs)

LEMMA HeardFields ==
    ASSUME Typed, NEW c \in Clients, NEW e \in Events, NEW reqs \in Seq(Requests), NEW C \in Seq(ScreenContexts),
           NEW k \in Calls, NEW st \in Stages, Received(c, e, reqs, C, k, st), e.ev \notin {"global", "gone"},
           NEW i \in 1 .. Len(C), NEW x, x = ctx[c][i], NEW y, y = C[i]
    PROVE  /\ y.n = x.n
           /\ y.id = x.id \/ (e.ev = "screen_id" /\ e.n = x.n)
           /\ e.ev = "screen_id" /\ e.n = x.n => y.id = e.id
           /\ y.size = x.size \/ (e.ev = "mode" /\ e.n = x.n)
           /\ e.ev = "mode" /\ e.n = x.n => y.size = IF e.turned THEN <<e.mode[2], e.mode[1]>> ELSE e.mode
           /\ BecomesMade(c, x, y, reqs, st)
<1>0. Receives(c, e, reqs, C, k, st) /\ ctx[c] \in Seq(ScreenContexts)
  BY DEF Received, Typed, ClientTypes
<1>1. Len(C) = Len(ctx[c]) /\ i \in 1 .. Len(ctx[c]) /\ Becomes(e, k, x, y)
  BY HeardContexts
<1>2. x \in ScreenContexts /\ y \in ScreenContexts
  BY <1>0, <1>1, ElementOf
<1>3. y.n = x.n /\ (e.ev # "done" => y.made = x.made)
  BY <1>1, <1>2, BecomesFields
<1>4. /\ y.id = x.id \/ (e.ev = "screen_id" /\ e.n = x.n)
      /\ e.ev = "screen_id" /\ e.n = x.n => y.id = e.id
  <2>1. e.ev = "screen_id" /\ e.n = x.n => y = [x EXCEPT !.id = e.id, !.named = TRUE]
    BY <1>0, <1>1 DEF Receives, Named
  <2>2. e.ev = "screen_id" /\ e.n = x.n => y.id = e.id
    BY <1>2, <2>1 DEF ScreenContexts
  <2> QED BY <1>1, <1>2, <2>2, BecomesFields
<1>5. /\ y.size = x.size \/ (e.ev = "mode" /\ e.n = x.n)
      /\ e.ev = "mode" /\ e.n = x.n => y.size = IF e.turned THEN <<e.mode[2], e.mode[1]>> ELSE e.mode
  <2>1. PICK z : z = IF e.turned THEN <<e.mode[2], e.mode[1]>> ELSE e.mode
    OBVIOUS
  <2>2. e.ev = "mode" /\ e.n = x.n => y = [x EXCEPT !.size = z]
    BY <1>0, <1>1, <2>1 DEF Receives, Resized
  <2>3. e.ev = "mode" /\ e.n = x.n => y.size = z
    BY <1>2, <2>2 DEF ScreenContexts
  <2>4. y.size = x.size \/ (e.ev = "mode" /\ e.n = x.n)
    <3>1. e.ev = "mode" /\ e.n # x.n => y = x
      BY <1>0, <1>1 DEF Receives, Resized, Changed
    <3> QED BY <1>1, <1>2, <3>1, BecomesFields
  <2> QED BY <2>1, <2>3, <2>4, Zenon
<1>6. BecomesMade(c, x, y, reqs, st)
  <2>1. CASE e.ev # "done"
    <3>1. st = stage[c] \/ st = "bound"
      BY <1>0, <2>1, EventFields DEF Receives
    <3> QED BY <1>3, <2>1, <3>1 DEF BecomesMade
  <2>2. CASE /\ e.ev = "done" /\ Made(ctx[c], C)
             /\ \E q \in Seq(Requests) :
                   /\ reqs = q \o <<[op |-> "sync"]>>
                   /\ \A r \in ToSet(q) : r.op = "create_screen"
                   /\ \A z \in ToSet(ctx[c]) : z.made # TRUE => Request("create_screen", z.n) \in ToSet(q)
    <3>1. y.made = TRUE
      BY <1>1, <1>2, <2>2 DEF Made, ScreenContexts
    <3>2. PICK q \in Seq(Requests) :
            /\ reqs = q \o <<Sync>>
            /\ \A z \in ToSet(ctx[c]) : z.made # TRUE => Request("create_screen", z.n) \in ToSet(q)
      BY <2>2 DEF Sync
    <3>3. Sync \in Requests
      BY RequestTypes DEF Sync
    <3>4. ToSet(reqs) = ToSet(q) \cup {Sync}
      BY <3>2, <3>3, SetOfMore
    <3>5. x \in ToSet(ctx[c])
      BY <1>0, <1>1, SetOf
    <3> QED BY <3>1, <3>2, <3>4, <3>5 DEF BecomesMade
  <2>3. CASE e.ev = "done" /\ stage[c] = "ids" /\ C = ctx[c]
    BY <2>3 DEF BecomesMade
  <2>4. CASE e.ev = "done" /\ st = stage[c]
              /\ (IF call[c].op = "layers" THEN Copied(ctx[c], C, call[c].n) ELSE C = ctx[c])
    <3>1. y.made = x.made
      BY <1>1, <1>2, <2>4 DEF Copied, Changed, ScreenContexts
    <3> QED BY <2>4, <3>1 DEF BecomesMade
  <2> QED BY <1>0, <2>1, <2>2, <2>3, <2>4 DEF Receives
<1> QED BY <1>3, <1>4, <1>5, <1>6

\* What a client knows, or is about to be told, once the event e is out of its inbox.
LEMMA InboxDescribed ==
    ASSUME Typed, HeadsStay, NEW c \in Clients, ReceiveFrame(c), NEW e, e = Head(inbox[c]),
           NEW n \in screens, Names(e), NEW id, NEW id2, NEW size, NEW size2,
           ToSet(wire[c]) \subseteq ToSet(wire'[c]),
           id2 = id \/ (e.ev = "screen_id" /\ e.n = n),
           e.ev = "screen_id" /\ e.n = n => id2 = e.id,
           size2 = size \/ (e.ev = "mode" /\ e.n = n),
           e.ev = "mode" /\ e.n = n => size2 = IF e.turned THEN <<e.mode[2], e.mode[1]>> ELSE e.mode
    PROVE  /\ IdComes(c, n, id) => IdComes(c, n, id2)'
           /\ SizeComes(c, n, size) => SizeComes(c, n, size2)'
<1>1. ToSet(inbox[c]) = {e} \cup ToSet(inbox'[c]) /\ Cuts(inbox[c], e, inbox'[c]) /\ inbox[c] \in Seq(Events)
  BY HeardInbox
<1>2. head' = head /\ viewers' = viewers /\ n \in 1 .. Len(head)
  BY DEF ReceiveFrame, Typed, OutputTypes
<1>3. ASSUME IdComes(c, n, id) PROVE IdComes(c, n, id2)'
  <2>1. CASE e.ev = "screen_id" /\ e.n = n
    <3>1. id2 = ScreenId(n) /\ ScreenId(n)' = ScreenId(n)
      BY <1>2, <2>1 DEF Names, HeadsStay
    <3> QED BY <3>1 DEF IdComes
  <2>2. CASE ~(e.ev = "screen_id" /\ e.n = n)
    <3>1. id2 = id
      BY <2>2
    <3>2. IdComes(c, n, id)'
      BY <1>1, <1>2, <1>3, <2>2, IdStays
    <3> QED BY <3>1, <3>2
  <2> QED BY <2>1, <2>2
<1>4. ASSUME SizeComes(c, n, size) PROVE SizeComes(c, n, size2)'
  <2>1. ModeOf(head', n) = ModeOf(head, n) /\ Extent(head', n) = Extent(head, n) /\ ModesOf(n)' = ModesOf(n)
    BY <1>2 DEF ModesOf
  <2>2. CASE Request("bind_output", n) \in ToSet(wire[c])
    BY <2>2 DEF SizeComes
  <2>3. CASE Request("bind_output", n) \notin ToSet(wire[c])
    <3>1. /\ <<c, n>> \in viewers /\ LastIs(inbox[c], ModesOf(n), ModeOf(head, n))
          /\ ToSet(inbox[c]) \cap ModesOf(n) = {} => size = Extent(head, n)
      BY <1>4, <2>3 DEF SizeComes
    <3>2. /\ LastIs(inbox'[c], ModesOf(n), ModeOf(head, n))
          /\ e \in ModesOf(n) /\ ToSet(inbox'[c]) \cap ModesOf(n) = {} => e = ModeOf(head, n)
      BY <1>1, <3>1, LastTail
    <3>3. ASSUME ToSet(inbox'[c]) \cap ModesOf(n) = {} PROVE size2 = Extent(head, n)
      <4>1. CASE e \in ModesOf(n)
        <5>1. e = ModeOf(head, n) /\ e.ev = "mode" /\ e.n = n
          BY <3>2, <3>3, <4>1 DEF ModesOf
        <5>2. (IF e.turned THEN <<e.mode[2], e.mode[1]>> ELSE e.mode) = Extent(head, n)
          BY <5>1, ExtentOfMode
        <5> QED BY <5>1, <5>2, Zenon
      <4>2. CASE e \notin ModesOf(n)
        <5>1. ToSet(inbox[c]) \cap ModesOf(n) = {}
          BY <1>1, <3>3, <4>2
        <5>2. e \in Events
          BY <1>1, SetOf
        <5> QED BY <3>1, <4>2, <5>1, <5>2 DEF ModesOf
      <4> QED BY <4>1, <4>2
    <3> QED BY <1>2, <2>1, <3>1, <3>2, <3>3 DEF SizeComes
  <2> QED BY <2>2, <2>3
<1> QED BY <1>3, <1>4

LEMMA HearsDescribed ==
    ASSUME Base, HeadsStay, NEW c \in Clients, \A x \in ToSet(ctx[c]) : Described(c, x) /\ Knows(x),
           \A e \in ToSet(inbox[c]) : Names(e), Hears(c)
    PROVE  \A y \in ToSet(ctx'[c]) : Described(c, y)'
<1>0. Typed /\ ReceiveFrame(c) /\ screens' = screens /\ head' = head
  BY DEF Base, Hears, ReceiveFrame
<1>1. PICK e \in Events : e = Head(inbox[c]) /\ ReceiveSays(c, e)
  BY DEF Hears
<1>2. PICK reqs \in Seq(Requests), C \in Seq(ScreenContexts), k \in Calls, st \in Stages :
        Received(c, e, reqs, C, k, st)
  BY <1>1 DEF ReceiveSays
<1>3. /\ ctx'[c] = C /\ stage'[c] = st /\ Receives(c, e, reqs, C, k, st)
      /\ ctx[c] \in Seq(ScreenContexts)
  BY <1>0, <1>2 DEF Received, Typed, ClientTypes
<1>4. ToSet(wire'[c]) = ToSet(wire[c]) \cup ToSet(reqs)
  BY <1>0, <1>2, SentWire DEF Received
<1>5. Names(e)
  BY <1>0, <1>1, HeardInbox
<1>6. ASSUME NEW x \in ToSet(ctx[c]), e.ev \in {"global", "gone"} PROVE Described(c, x)'
  <2>1. Described(c, x) /\ stage'[c] = stage[c]
    BY <1>3, <1>6 DEF Receives
  <2>2. ASSUME x.n \in screens
        PROVE  /\ IdComes(c, x.n, x.id) => IdComes(c, x.n, x.id)'
               /\ SizeComes(c, x.n, x.size) => SizeComes(c, x.n, x.size)'
    BY <1>0, <1>1, <1>4, <1>5, <1>6, <2>2, InboxDescribed
  <2> QED BY <1>0, <2>1, <2>2, DescribedStays
<1>7. ASSUME NEW y \in ToSet(C), e.ev \notin {"global", "gone"} PROVE Described(c, y)'
  <2>1. Len(C) = Len(ctx[c])
    BY <1>0, <1>2, <1>7, HeardContexts
  <2>2. PICK i \in 1 .. Len(C) : y = C[i] /\ ctx[c][i] \in ToSet(ctx[c])
    BY <1>3, <1>7, <2>1, SetOf
  <2>3. PICK x : x = ctx[c][i]
    OBVIOUS
  <2>4. /\ y.n = x.n
        /\ y.id = x.id \/ (e.ev = "screen_id" /\ e.n = x.n)
        /\ e.ev = "screen_id" /\ e.n = x.n => y.id = e.id
        /\ y.size = x.size \/ (e.ev = "mode" /\ e.n = x.n)
        /\ e.ev = "mode" /\ e.n = x.n => y.size = IF e.turned THEN <<e.mode[2], e.mode[1]>> ELSE e.mode
        /\ BecomesMade(c, x, y, reqs, st)
    BY <1>0, <1>2, <1>7, <2>2, <2>3, HeardFields
  <2>5. Described(c, x)
    BY <2>2, <2>3
  <2>6. ASSUME x.n \in screens
        PROVE  /\ IdComes(c, x.n, x.id) => IdComes(c, x.n, y.id)'
               /\ SizeComes(c, x.n, x.size) => SizeComes(c, x.n, y.size)'
    BY <1>0, <1>1, <1>4, <1>5, <2>4, <2>6, InboxDescribed
  <2>7. CASE x.made = TRUE
    <3>1. y.made = TRUE
      BY <2>4, <2>7 DEF BecomesMade
    <3> QED BY <1>0, <2>4, <2>5, <2>6, <2>7, <3>1 DEF Described
  <2>8. CASE x.made # TRUE
    <3>1. stage[c] \notin {"ids", "on", "closing"}
      BY <2>5, <2>8 DEF Described
    <3>2. y.made = TRUE => IdComes(c, x.n, y.id)'
      BY <1>4, <2>4, <2>8 DEF BecomesMade, IdComes
    <3>3. st \in {"ids", "on", "closing"} => y.made = TRUE
      BY <2>4, <3>1 DEF BecomesMade
    <3> QED BY <1>0, <1>3, <2>4, <2>5, <2>6, <3>2, <3>3 DEF Described
  <2> QED BY <2>7, <2>8
<1>8. CASE e.ev = "global"
  <2>1. PICK b \in BOOLEAN : b = (stage[c] # "globals")
    OBVIOUS
  <2>2. PICK x : x = NewContext(e.n, b)
    OBVIOUS
  <2>3. x.n = e.n /\ x.made = b /\ x.id = 0 /\ x \in ScreenContexts
    <3>1. <<>> \in Seq(Layers) /\ e.n \in Nat
      BY <1>8, EventFields
    <3> QED BY <2>2, <3>1 DEF NewContext, ScreenContexts
  <2>4. C = <<x>> \o ctx[c]
    BY <1>3, <1>8, <2>1, <2>2 DEF Receives
  <2>5. ToSet(C) = {x} \cup ToSet(ctx[c])
    <3>1. PICK q \in Seq(ScreenContexts) : q = <<x>>
      <4>1. <<x>> \in Seq(ScreenContexts)
        BY <2>3
      <4> QED BY <4>1
    <3>2. C = q \o ctx[c] /\ ToSet(q) = {x}
      BY <2>4, <3>1, SetOfOne
    <3> QED BY <1>3, <3>2, SetOfJoin
  <2>6. Described(c, x)'
    <3>1. SizeComes(c, x.n, x.size)'
      BY <1>3, <1>4, <1>8, <2>3 DEF Receives, SizeComes
    <3>2. CASE stage[c] # "globals"
      <4>1. IdComes(c, x.n, x.id)'
        BY <1>3, <1>4, <1>8, <2>3, <3>2 DEF Receives, IdComes
      <4>2. x.made = TRUE
        BY <2>1, <2>3, <3>2
      <4> QED BY <3>1, <4>1, <4>2 DEF Described
    <3>3. CASE stage[c] = "globals"
      <4>1. x.made # TRUE
        BY <2>1, <2>3, <3>3
      <4>2. st = "globals"
        BY <1>3, <1>8, <3>3 DEF Receives
      <4> QED BY <1>3, <3>1, <4>1, <4>2 DEF Described
    <3> QED BY <3>2, <3>3
  <2> QED BY <1>3, <1>6, <1>8, <2>5, <2>6
<1>9. CASE e.ev = "gone"
  <2>1. ToSet(C) \subseteq ToSet(ctx[c])
    BY <1>3, <1>9 DEF Receives
  <2> QED BY <1>3, <1>6, <1>9, <2>1
<1> QED BY <1>3, <1>7, <1>8, <1>9

DescribedAll ==
    HeardAll /\ DirectedAll /\ \A c \in Clients : \A x \in ToSet(ctx[c]) : Described(c, x)

LEMMA DescribedInit == ShotsInit => DescribedAll
<1>1. ASSUME ShotsInit, NEW c \in Clients PROVE ToSet(ctx[c]) = {}
  <2>1. ctx[c] = <<>>
    BY <1>1 DEF ShotsInit, Init
  <2> QED BY <2>1, SetOfNone
<1> QED BY <1>1, HeardInit, DirectedInit DEF DescribedAll

LEMMA DescribedStep == DescribedAll /\ [Next]_vars => DescribedAll'
<1> SUFFICES ASSUME DescribedAll, [Next]_vars PROVE DescribedAll'
  OBVIOUS
<1>0. Base /\ Typed /\ HeardAll' /\ DirectedAll'
  BY HeardStep, DirectedStep DEF DescribedAll, HeardAll, Base
<1>1. ASSUME NEW c \in Clients PROVE \A y \in ToSet(ctx'[c]) : Described(c, y)'
  <2>1. /\ HeadsStay /\ \A x \in ToSet(ctx[c]) : Described(c, x) /\ Knows(x)
        /\ \A e \in ToSet(inbox[c]) : Names(e)
    BY <1>0, StepHeads DEF DescribedAll, DirectedAll, Directed
  <2>2. CASE Hears(c)
    BY <1>0, <2>1, <2>2, HearsDescribed
  <2>3. CASE Leaves(c)
    BY <2>3, SetOfNone DEF Leaves
  <2>4. CASE Serves(c)
    <3>1. ctx'[c] = ctx[c]
      BY <2>4 DEF Serves, Served
    <3> QED BY <1>0, <2>1, <2>4, <3>1, ServesDescribed
  <2>5. CASE Asks(c)
    <3>1. ctx'[c] = ctx[c]
      BY <2>5 DEF Asks, CallFrame
    <3> QED BY <1>0, <2>1, <2>5, <3>1, AsksDescribed
  <2>6. CASE Idles(c) \/ Appears(c) \/ Vanishes(c) \/ Resizes(c) \/ Answers(c)
    <3>1. ctx'[c] = ctx[c]
      BY <2>6 DEF Idles, Appears, Vanishes, Resizes, Answers, SameClient
    <3> QED BY <1>0, <2>1, <2>6, <3>1, OthersDescribed, ResizesDescribed
  <2> QED BY <1>0, <2>2, <2>3, <2>4, <2>5, <2>6, StepCases
<1> QED BY <1>0, <1>1 DEF DescribedAll

LEMMA DescribedKnown == DescribedAll => ScreensKnown
<1> SUFFICES ASSUME DescribedAll, NEW c \in Clients, Quiet(c)
             PROVE  {<<ctx[c][i].n, ctx[c][i].id, ctx[c][i].size>> : i \in DOMAIN ctx[c]}
                        = {<<n, ScreenId(n), Extent(head, n)>> : n \in screens}
  BY DEF ScreensKnown
<1>0. Typed /\ Registered(c) /\ stage[c] = "on" /\ ToSet(wire[c]) = {} /\ ToSet(inbox[c]) = {}
  BY SetOfNone DEF DescribedAll, HeardAll, Base, Quiet
<1>1. c \in listening /\ \A n : Heard(c, n)
  BY <1>0 DEF Registered, DescribedAll, HeardAll
<1>2. ctx[c] \in Seq(ScreenContexts)
  BY <1>0, ClientHas
<1>3. ASSUME NEW x \in ToSet(ctx[c])
      PROVE  x.n \in screens /\ x.id = ScreenId(x.n) /\ x.size = Extent(head, x.n)
  <2>1. x.n \in screens
    BY <1>0, <1>1, <1>3 DEF Heard, Has, Goes
  <2>2. Described(c, x)
    BY <1>3 DEF DescribedAll
  <2>3. IdComes(c, x.n, x.id) /\ SizeComes(c, x.n, x.size)
    BY <1>0, <2>1, <2>2 DEF Described
  <2> QED BY <1>0, <2>1, <2>3 DEF IdComes, SizeComes
<1>4. ASSUME NEW i \in DOMAIN ctx[c]
      PROVE  \E n \in screens : <<ctx[c][i].n, ctx[c][i].id, ctx[c][i].size>> = <<n, ScreenId(n), Extent(head, n)>>
  <2>1. ctx[c][i] \in ToSet(ctx[c])
    BY <1>2, <1>4, SetOf
  <2> QED BY <1>3, <2>1
<1>5. ASSUME NEW n \in screens
      PROVE  \E i \in DOMAIN ctx[c] : <<ctx[c][i].n, ctx[c][i].id, ctx[c][i].size>> = <<n, ScreenId(n), Extent(head, n)>>
  <2>1. PICK x \in ToSet(ctx[c]) : x.n = n
    BY <1>0, <1>1, <1>5 DEF Heard, Comes, Has
  <2>2. PICK i \in DOMAIN ctx[c] : x = ctx[c][i]
    BY <1>2, SetOf
  <2> QED BY <1>3, <2>1, <2>2
<1> QED BY <1>4, <1>5

\* A client with nothing on its way knows the screens there are, with their
\* ids and sizes, whenever their outputs appeared (registry_handle_control,
\* wm_screen_listener_screen_id, output_listener_mode).
THEOREM ScreensAlwaysKnown == Spec => []ScreensKnown
<1>1. ShotsInit => DescribedAll
  BY DescribedInit
<1>2. DescribedAll /\ [Next]_vars => DescribedAll'
  BY DescribedStep
<1>3. DescribedAll => ScreensKnown
  BY DescribedKnown
<1> QED BY <1>1, <1>2, <1>3, PTL DEF Spec

-----------------------------------------------------------------------------
(* Sums over sets of outputs.                                              *)

AnyOf(s) == CHOOSE x \in s : TRUE

\* g sums the widths of the outputs of each subset of S.
Sums(h, S, g) ==
    g = [s \in SUBSET S |-> IF s = {} THEN 0 ELSE Extent(h, AnyOf(s))[1] + g[s \ {AnyOf(s)}]]

Wide(h, S) == \A k \in S : Extent(h, k)[1] \in Int

Breadth(h, S) == MapThenSumSet(LAMBDA k : Extent(h, k)[1], S)

LEMMA SumIsOne ==
    ASSUME NEW h, NEW S, \E g : Sums(h, S, g)
    PROVE  \E g : Sums(h, S, g) /\ Breadth(h, S) = g[S]
BY DEF Breadth, Sums, AnyOf, MapThenSumSet, MapThenFoldSet

OfSize(S, n) == {s \in SUBSET S : Cardinality(s) <= n}
WidthsOf(h, g, s) == IF s = {} THEN 0 ELSE Extent(h, AnyOf(s))[1] + g[s \ {AnyOf(s)}]
SumsUpTo(h, S, n, g) ==
    /\ g \in [OfSize(S, n) -> Int]
    /\ \A s \in OfSize(S, n) : g[s] = WidthsOf(h, g, s)

LEMMA SubsetsOf ==
    ASSUME NEW h, NEW S, IsFiniteSet(S), Wide(h, S)
    PROVE  /\ \A s \in SUBSET S : /\ IsFiniteSet(s) /\ Cardinality(s) \in Nat
                                  /\ Cardinality(s) <= Cardinality(S)
                                  /\ Cardinality(s) = 0 <=> s = {}
           /\ \A s \in SUBSET S : s # {} => /\ AnyOf(s) \in s /\ Extent(h, AnyOf(s))[1] \in Int
                                            /\ s \ {AnyOf(s)} \in SUBSET S
                                            /\ Cardinality(s \ {AnyOf(s)}) = Cardinality(s) - 1
<1>1. \A s \in SUBSET S : /\ IsFiniteSet(s) /\ Cardinality(s) \in Nat /\ Cardinality(s) <= Cardinality(S)
                          /\ Cardinality(s) = 0 <=> s = {}
  BY FS_Subset, FS_EmptySet, FS_CardinalityType
<1>2. SUFFICES ASSUME NEW s \in SUBSET S, s # {}
               PROVE  /\ AnyOf(s) \in s /\ Extent(h, AnyOf(s))[1] \in Int
                      /\ s \ {AnyOf(s)} \in SUBSET S
                      /\ Cardinality(s \ {AnyOf(s)}) = Cardinality(s) - 1
  BY <1>1
<1>3. AnyOf(s) \in s
  BY <1>2 DEF AnyOf
<1>4. Cardinality(s \ {AnyOf(s)}) = Cardinality(s) - 1
  BY <1>1, <1>3, FS_RemoveElement
<1> QED BY <1>3, <1>4 DEF Wide

LEMMA SumsGrow ==
    ASSUME NEW h, NEW S, IsFiniteSet(S), Wide(h, S), NEW n \in Nat, n # 0, NEW g, SumsUpTo(h, S, n - 1, g)
    PROVE  \E f : SumsUpTo(h, S, n, f)
<1>1. PICK f : f = [s \in OfSize(S, n) |-> WidthsOf(h, g, s)]
  OBVIOUS
<1>2. \A s \in OfSize(S, n) : s # {} => s \ {AnyOf(s)} \in OfSize(S, n - 1) /\ Extent(h, AnyOf(s))[1] \in Int
  BY SubsetsOf DEF OfSize
<1>3. \A s \in OfSize(S, n - 1) : s \in OfSize(S, n)
  BY SubsetsOf DEF OfSize
<1>4. \A s \in OfSize(S, n - 1) : f[s] = g[s]
  BY <1>1, <1>3 DEF SumsUpTo
<1>5. \A s \in OfSize(S, n) : WidthsOf(h, g, s) \in Int /\ WidthsOf(h, g, s) = WidthsOf(h, f, s)
  <2>1. SUFFICES ASSUME NEW s \in OfSize(S, n) PROVE WidthsOf(h, g, s) \in Int /\ WidthsOf(h, g, s) = WidthsOf(h, f, s)
    OBVIOUS
  <2>2. CASE s = {}
    BY <2>2 DEF WidthsOf
  <2>3. CASE s # {}
    <3>1. PICK t \in OfSize(S, n - 1) : t = s \ {AnyOf(s)}
      BY <1>2, <2>3
    <3>2. f[t] = g[t] /\ g[t] \in Int
      BY <1>4 DEF SumsUpTo
    <3> QED BY <1>2, <2>3, <3>1, <3>2 DEF WidthsOf
  <2> QED BY <2>2, <2>3
<1>6. f \in [OfSize(S, n) -> Int]
  BY <1>1, <1>5
<1>7. \A s \in OfSize(S, n) : f[s] = WidthsOf(h, f, s)
  BY <1>1, <1>5
<1> QED BY <1>6, <1>7 DEF SumsUpTo

LEMMA SumsExist ==
    ASSUME NEW h, NEW S, IsFiniteSet(S), Wide(h, S)
    PROVE  \E g : Sums(h, S, g) /\ g \in [SUBSET S -> Int]
<1>1. PICK Bad : Bad = {n \in Nat : ~ \E g : SumsUpTo(h, S, n, g)}
  OBVIOUS
<1>2. Bad = {}
  <2> SUFFICES ASSUME Bad # {} PROVE FALSE
    OBVIOUS
  <2>1. PICK n \in Bad : \A k \in Bad : n <= k
    BY <1>1, LeastNatural
  <2>2. n \in Nat
    BY <1>1
  <2>3. CASE n = 0
    <3>1. OfSize(S, 0) = {{}}
      BY SubsetsOf DEF OfSize
    <3>2. PICK g : g = [s \in OfSize(S, 0) |-> 0]
      OBVIOUS
    <3>3. SumsUpTo(h, S, n, g)
      BY <2>3, <3>1, <3>2 DEF SumsUpTo, WidthsOf
    <3> QED BY <1>1, <2>1, <3>3
  <2>4. CASE n # 0
    <3>1. n - 1 \in Nat /\ ~(n <= n - 1)
      BY <2>2, <2>4
    <3>2. n - 1 \notin Bad
      BY <2>1, <3>1
    <3>3. PICK g : SumsUpTo(h, S, n - 1, g)
      BY <1>1, <3>1, <3>2
    <3>4. \E f : SumsUpTo(h, S, n, f)
      BY <2>2, <2>4, <3>3, SumsGrow
    <3> QED BY <1>1, <2>1, <3>4
  <2> QED BY <2>3, <2>4
<1>3. Cardinality(S) \in Nat
  BY FS_CardinalityType
<1>4. PICK g : SumsUpTo(h, S, Cardinality(S), g)
  BY <1>1, <1>2, <1>3
<1>5. OfSize(S, Cardinality(S)) = SUBSET S
  BY SubsetsOf DEF OfSize
<1>6. g \in [SUBSET S -> Int]
  BY <1>4, <1>5 DEF SumsUpTo
<1>7. \A s \in SUBSET S : g[s] = IF s = {} THEN 0 ELSE Extent(h, AnyOf(s))[1] + g[s \ {AnyOf(s)}]
  BY <1>4, <1>5 DEF SumsUpTo, WidthsOf
<1>8. g = [s \in SUBSET S |-> IF s = {} THEN 0 ELSE Extent(h, AnyOf(s))[1] + g[s \ {AnyOf(s)}]]
  BY <1>6, <1>7
<1> QED BY <1>6, <1>8 DEF Sums

\* A sum over finite sets is what it is whatever the order, and whatever else is summed.
LEMMA SumsAt ==
    ASSUME NEW h, NEW S, NEW g, Sums(h, S, g)
    PROVE  \A s \in SUBSET S : g[s] = WidthsOf(h, g, s)
BY DEF Sums, WidthsOf

LEMMA LeastSet ==
    ASSUME NEW S, IsFiniteSet(S), NEW B, B \subseteq SUBSET S, B # {}
    PROVE  \E s \in B : \A t \in SUBSET S : t \subseteq s /\ t # s => t \notin B
<1>1. IsWellFoundedOn(StrictSubsetOrdering(S), FiniteSubsetsOf(S))
  BY FS_StrictSubsetOrderingWellFounded
<1>2. FiniteSubsetsOf(S) = SUBSET S
  BY FS_FiniteSubsetsOfFinite
<1>3. PICK s \in B : \A t \in B : ~(<<t, s>> \in StrictSubsetOrdering(S))
  BY <1>1, <1>2, WFMin
<1> QED BY <1>3 DEF StrictSubsetOrdering

LEMMA SumsAgree ==
    ASSUME NEW h, NEW S, NEW T, T \subseteq S, IsFiniteSet(S), NEW g, Sums(h, S, g), NEW f, Sums(h, T, f)
    PROVE  \A s \in SUBSET T : f[s] = g[s]
<1>1. IsFiniteSet(T)
  BY FS_Subset
<1>2. PICK B : B = {s \in SUBSET T : f[s] # g[s]}
  OBVIOUS
<1>3. ASSUME B # {} PROVE FALSE
  <2>0. B \subseteq SUBSET T
    BY <1>2
  <2>1. PICK s \in B : \A t \in SUBSET T : t \subseteq s /\ t # s => t \notin B
    BY <1>1, <1>3, <2>0, LeastSet
  <2>2. s \in SUBSET T /\ s \in SUBSET S
    BY <1>2
  <2>3. f[s] = WidthsOf(h, f, s) /\ g[s] = WidthsOf(h, g, s)
    BY <2>2, SumsAt
  <2>4. CASE s = {}
    BY <1>2, <2>3, <2>4 DEF WidthsOf
  <2>5. CASE s # {}
    <3>1. AnyOf(s) \in s
      BY <2>5 DEF AnyOf
    <3>2. s \ {AnyOf(s)} \notin B /\ s \ {AnyOf(s)} \in SUBSET T
      BY <2>1, <2>2, <3>1
    <3>3. f[s \ {AnyOf(s)}] = g[s \ {AnyOf(s)}]
      BY <1>2, <3>2
    <3> QED BY <1>2, <2>3, <2>5, <3>3 DEF WidthsOf
  <2> QED BY <2>4, <2>5
<1> QED BY <1>2, <1>3

Peels(h, S, g) == \A s \in SUBSET S : \A m \in s : g[s] = Extent(h, m)[1] + g[s \ {m}]

LEMMA SumsPeel ==
    ASSUME NEW h, NEW S, IsFiniteSet(S), Wide(h, S), NEW g, Sums(h, S, g), g \in [SUBSET S -> Int]
    PROVE  Peels(h, S, g)
<1>1. PICK B : B = {s \in SUBSET S : \E m \in s : g[s] # Extent(h, m)[1] + g[s \ {m}]}
  OBVIOUS
<1>2. ASSUME B # {} PROVE FALSE
  <2>0. B \subseteq SUBSET S
    BY <1>1
  <2>1. PICK s \in B : \A t \in SUBSET S : t \subseteq s /\ t # s => t \notin B
    BY <1>2, <2>0, LeastSet
  <2>2. PICK m \in s : g[s] # Extent(h, m)[1] + g[s \ {m}]
    BY <1>1
  <2>3. s \in SUBSET S
    BY <1>1
  <2>4. PICK u : u = AnyOf(s)
    OBVIOUS
  <2>5. u \in s /\ g[s] = Extent(h, u)[1] + g[s \ {u}]
    BY <2>2, <2>3, <2>4, SumsAt DEF WidthsOf, AnyOf
  <2>6. u # m
    BY <2>2, <2>5
  <2>7. PICK t \in SUBSET S : t = s \ {u}
    BY <2>3
  <2>8. PICK v \in SUBSET S : v = s \ {m}
    BY <2>3
  <2>9. PICK w \in SUBSET S : w = t \ {m} /\ w = v \ {u}
    BY <2>7, <2>8
  <2>10. t \notin B /\ v \notin B
    BY <2>1, <2>2, <2>5, <2>7, <2>8
  <2>11. g[t] = Extent(h, m)[1] + g[w]
    BY <1>1, <2>2, <2>6, <2>7, <2>9, <2>10
  <2>12. g[v] = Extent(h, u)[1] + g[w]
    BY <1>1, <2>5, <2>6, <2>8, <2>9, <2>10
  <2>13. PICK a \in Int, b \in Int : a = Extent(h, m)[1] /\ b = Extent(h, u)[1]
    BY <2>2, <2>3, <2>5 DEF Wide
  <2>14. g[w] \in Int
    OBVIOUS
  <2>15. g[s] = b + (a + g[w]) /\ g[s] # a + (b + g[w])
    BY <2>2, <2>5, <2>7, <2>8, <2>11, <2>12, <2>13
  <2> QED BY <2>14, <2>15
<1> QED BY <1>1, <1>2 DEF Peels

-----------------------------------------------------------------------------
(* The area of the background.                                             *)

LEMMA MaxIn ==
    ASSUME NEW S, IsFiniteSet(S)
    PROVE  S \subseteq Nat /\ S # {} => Max(S) \in S /\ \A y \in S : y <= Max(S)
<1>0. SUFFICES ASSUME S \subseteq Nat, S # {} PROVE Max(S) \in S /\ \A y \in S : y <= Max(S)
  OBVIOUS
<1>1. PICK B : B = {s \in SUBSET S : s # {} /\ ~ \E m \in s : \A y \in s : y <= m}
  OBVIOUS
<1>2. ASSUME B # {} PROVE FALSE
  <2>0. B \subseteq SUBSET S
    BY <1>1
  <2>1. PICK s \in B : \A t \in SUBSET S : t \subseteq s /\ t # s => t \notin B
    BY <1>2, <2>0, LeastSet
  <2>2. s \subseteq Nat /\ s # {} /\ s \in SUBSET S
    BY <1>0, <1>1
  <2>3. PICK x \in s : TRUE
    BY <2>2
  <2>4. PICK t \in SUBSET S : t = s \ {x}
    BY <2>2
  <2>5. t \notin B
    BY <2>1, <2>3, <2>4
  <2>6. CASE t = {}
    BY <1>1, <2>2, <2>3, <2>4, <2>6
  <2>7. CASE t # {}
    <3>1. PICK m \in t : \A y \in t : y <= m
      BY <1>1, <2>5, <2>7
    <3>2. m \in Nat /\ x \in Nat /\ m \in s
      BY <2>2, <2>4
    <3>3. CASE x <= m
      BY <1>1, <2>4, <3>1, <3>2, <3>3
    <3>4. CASE m <= x
      <4>1. \A y \in s : y <= x
        BY <2>2, <2>4, <3>1, <3>2, <3>4
      <4> QED BY <1>1, <4>1
    <3> QED BY <3>2, <3>3, <3>4
  <2> QED BY <2>6, <2>7
<1>3. \E m \in S : \A y \in S : m >= y
  <2>1. \E m \in S : \A y \in S : y <= m
    BY <1>0, <1>1, <1>2
  <2> QED BY <1>0, <2>1
<1>4. Max(S) \in S /\ \A y \in S : Max(S) >= y
  BY <1>3 DEF Max
<1> QED BY <1>0, <1>4

Sized(h, S) == \A k \in S : Extent(h, k) \in Nat \X Nat

\* Where the background ends: it is as wide as all outputs and as high as the highest.
LEMMA BreadthIs ==
    ASSUME NEW h, NEW S, IsFiniteSet(S), Wide(h, S)
    PROVE  \E g : /\ Sums(h, S, g) /\ Breadth(h, S) = g[S] /\ g \in [SUBSET S -> Int]
                 /\ \A T \in SUBSET S : Breadth(h, T) = g[T]
<1>1. \E g : Sums(h, S, g)
  BY SumsExist
<1>2. PICK g : Sums(h, S, g) /\ Breadth(h, S) = g[S]
  BY <1>1, SumIsOne
<1>3. PICK f : Sums(h, S, f) /\ f \in [SUBSET S -> Int]
  BY SumsExist
<1>4. \A s \in SUBSET S : f[s] = g[s]
  BY <1>2, <1>3, SumsAgree
<1>5. g = [s \in SUBSET S |-> g[s]]
  BY <1>2 DEF Sums
<1>6. g \in [SUBSET S -> Int]
  BY <1>3, <1>4, <1>5
<1>7. ASSUME NEW T \in SUBSET S PROVE Breadth(h, T) = g[T]
  <2>1. IsFiniteSet(T)
    BY FS_Subset
  <2>2. Wide(h, T)
    BY DEF Wide
  <2>3. \E e : Sums(h, T, e)
    BY <2>1, <2>2, SumsExist
  <2>4. PICK e : Sums(h, T, e) /\ Breadth(h, T) = e[T]
    BY <2>3, SumIsOne
  <2>5. T \subseteq S /\ Sums(h, S, g) /\ Sums(h, T, e)
    BY <1>2, <2>4
  <2>6. \A s \in SUBSET T : e[s] = g[s]
    BY <2>5, SumsAgree
  <2> QED BY <2>4, <2>6
<1> QED BY <1>2, <1>6, <1>7

\* The sum over no outputs, and over one more.
LEMMA BreadthNone ==
    ASSUME NEW h
    PROVE  Breadth(h, {}) = 0
<1>1. IsFiniteSet({}) /\ Wide(h, {})
  BY FS_EmptySet DEF Wide
<1>2. \E g : Sums(h, {}, g)
  BY <1>1, SumsExist
<1>3. PICK g : Sums(h, {}, g) /\ Breadth(h, {}) = g[{}]
  BY <1>2, SumIsOne
<1>4. g[{}] = WidthsOf(h, g, {})
  BY <1>3, SumsAt
<1> QED BY <1>3, <1>4 DEF WidthsOf

LEMMA BreadthMore ==
    ASSUME NEW h, NEW S, IsFiniteSet(S), Wide(h, S), NEW m \in S
    PROVE  Breadth(h, S) = Breadth(h, S \ {m}) + Extent(h, m)[1]
<1>1. PICK g : /\ Sums(h, S, g) /\ Breadth(h, S) = g[S] /\ g \in [SUBSET S -> Int]
               /\ \A T \in SUBSET S : Breadth(h, T) = g[T]
  BY BreadthIs
<1>2. PICK T \in SUBSET S : T = S \ {m}
  OBVIOUS
<1>3. \A s \in SUBSET S : \A k \in s : g[s] = Extent(h, k)[1] + g[s \ {k}]
  <2>1. Sums(h, S, g) /\ g \in [SUBSET S -> Int]
    BY <1>1
  <2>2. Peels(h, S, g)
    BY <2>1, SumsPeel
  <2> QED BY <2>2 DEF Peels
<1>4. g[S] = Extent(h, m)[1] + g[T]
  BY <1>2, <1>3
<1>5. PICK a \in Int, b \in Int : a = Extent(h, m)[1] /\ b = g[T]
  BY <1>1 DEF Wide
<1>6. Breadth(h, S) = a + b /\ Breadth(h, T) = b
  BY <1>1, <1>4, <1>5
<1> QED BY <1>2, <1>5, <1>6

LEMMA FitCovers ==
    ASSUME NEW h, NEW S, IsFiniteSet(S), Wide(h, S)
    PROVE  S \subseteq Nat /\ S # {} /\ Sized(h, S) =>
              /\ FitTo(h, S).x = 0
              /\ FitTo(h, S).width = Breadth(h, S)
              /\ \A k \in S : Extent(h, k)[2] <= FitTo(h, S).height
<1>1. SUFFICES ASSUME S \subseteq Nat, S # {}, Sized(h, S)
               PROVE  /\ FitTo(h, S).x = 0
                      /\ FitTo(h, S).width = Breadth(h, S)
                      /\ \A k \in S : Extent(h, k)[2] <= FitTo(h, S).height
  OBVIOUS
<1>3. Min(S) \in S /\ \A y \in S : Min(S) <= y
  BY <1>1, MinIn
<1>4. Max(S) \in S /\ \A y \in S : y <= Max(S)
  BY <1>1, MaxIn
<1>5. Position(h, Min(S), S) = 0
  <2>1. {k \in S : k < Min(S)} = {}
    <3>1. ASSUME NEW k \in S, k < Min(S) PROVE FALSE
      <4>1. k \in Nat /\ Min(S) \in Nat /\ Min(S) <= k
        BY <1>1, <1>3
      <4> QED BY <3>1, <4>1
    <3> QED BY <3>1
  <2>2. Position(h, Min(S), S) = Breadth(h, {k \in S : k < Min(S)})
    BY DEF Position, Breadth
  <2> QED BY <2>1, <2>2, BreadthNone
<1>6. Position(h, Max(S), S) + Extent(h, Max(S))[1] = Breadth(h, S)
  <2>1. {k \in S : k < Max(S)} = S \ {Max(S)}
    <3>1. ASSUME NEW k \in S PROVE k < Max(S) <=> k # Max(S)
      <4>1. k \in Nat /\ Max(S) \in Nat /\ k <= Max(S)
        BY <1>1, <1>4
      <4> QED BY <4>1
    <3> QED BY <3>1
  <2>2. Position(h, Max(S), S) = Breadth(h, {k \in S : k < Max(S)})
    BY DEF Position, Breadth
  <2>3. Breadth(h, S) = Breadth(h, S \ {Max(S)}) + Extent(h, Max(S))[1]
    BY <1>4, BreadthMore
  <2> QED BY <2>1, <2>2, <2>3
<1>7. \A k \in S : Extent(h, k)[2] <= Max({Extent(h, j)[2] : j \in S})
  <2>1. PICK H : H = {Extent(h, j)[2] : j \in S}
    OBVIOUS
  <2>2. H \subseteq Nat /\ H # {}
    BY <1>1, <2>1 DEF Sized
  <2>3. IsFiniteSet(H)
    <3>1. [j \in S |-> Extent(h, j)[2]] \in Surjection(S, H)
      BY <2>1 DEF Surjection
    <3> QED BY <3>1, FS_Surjection
  <2>4. \A y \in H : y <= Max(H)
    BY <2>2, <2>3, MaxIn
  <2> QED BY <2>1, <2>4
<1>8. /\ FitTo(h, S).x = Position(h, Min(S), S)
      /\ FitTo(h, S).width = Position(h, Max(S), S) + Extent(h, Max(S))[1]
      /\ FitTo(h, S).height = Max({Extent(h, j)[2] : j \in S})
  BY <1>1 DEF FitTo
<1> QED BY <1>5, <1>6, <1>7, <1>8

Fits ==
    /\ hmi = "waiting" => bkgnd.view = FALSE
    /\ bkgnd.view /\ hmi = "running" => bkgnd.area = FitTo(head, screens)
Fitted == Typed /\ Fits

LEMMA FittedCovers == Fitted => BackgroundCovers
<1>1. SUFFICES ASSUME Fitted, bkgnd.view, hmi = "running", screens # {}
               PROVE  /\ bkgnd.area.x = 0
                      /\ bkgnd.area.width = MapThenSumSet(LAMBDA n : Extent(head, n)[1], screens)
                      /\ \A n \in screens : Extent(head, n)[2] <= bkgnd.area.height
  BY DEF BackgroundCovers
<1>2. screens \subseteq 1 .. Len(head) /\ Len(head) \in Nat
  BY <1>1 DEF Fitted, Typed, OutputTypes
<1>3. screens \subseteq Nat /\ IsFiniteSet(screens)
  <2>1. IsFiniteSet(1 .. Len(head))
    BY <1>2, FS_Interval
  <2>2. screens \in SUBSET (1 .. Len(head)) /\ screens \subseteq Nat
    BY <1>2
  <2>3. IsFiniteSet(screens)
    BY <2>1, <2>2, FS_Subset
  <2> QED BY <2>2, <2>3
<1>4. Sized(head, screens)
  <2>1. SUFFICES ASSUME NEW n \in screens PROVE Extent(head, n) \in Nat \X Nat
    BY DEF Sized
  <2>2. head[n] \in Heads
    BY <1>1, ScreenHas DEF Fitted, Typed
  <2>3. PICK m \in Nat \X Nat : m = head[n].mode
    BY <2>2, ScreensAssumption DEF Heads
  <2> QED BY <2>3 DEF Extent
<1>5. bkgnd.area = FitTo(head, screens)
  BY <1>1 DEF Fitted, Fits
<1>6. Wide(head, screens)
  BY <1>4 DEF Sized, Wide
<1>7. /\ FitTo(head, screens).x = 0
      /\ FitTo(head, screens).width = Breadth(head, screens)
      /\ \A k \in screens : Extent(head, k)[2] <= FitTo(head, screens).height
  BY <1>1, <1>3, <1>4, <1>6, FitCovers
<1>8. Breadth(head, screens) = MapThenSumSet(LAMBDA n : Extent(head, n)[1], screens)
  BY DEF Breadth
<1> QED BY <1>5, <1>7, <1>8

LEMMA OutsideFits ==
    ASSUME Fits, Outside
    PROVE  Fits'
<1>1. ASSUME NEW h, NEW S, Refit(h, S), h = head', S = screens', hmi' = hmi
      PROVE  Fits'
  BY <1>1 DEF Refit, set_bkgnd_surface_prop, Fits
<1>2. ASSUME NEW o \in Outputs, output_created_event(o) PROVE Fits'
  BY <1>1, <1>2 DEF output_created_event
<1>3. ASSUME NEW n \in screens, output_destroyed_event(n) PROVE Fits'
  BY <1>1, <1>3 DEF output_destroyed_event
<1>4. ASSUME NEW n \in screens, NEW m \in Modes, output_resized_event(n, m) PROVE Fits'
  BY <1>1, <1>4 DEF output_resized_event
<1>5. ASSUME NEW n \in screens, NEW l \in Layers, others_set_order(n, l) PROVE Fits'
  BY <1>5 DEF others_set_order, outputs, Fits
<1>6. ASSUME launch_client_process PROVE Fits'
  BY <1>6 DEF launch_client_process, Fits
<1>7. ASSUME ivi_shell_client_destroy PROVE Fits'
  BY <1>7 DEF ivi_shell_client_destroy, Background, NoBackground, Fits
<1>8. ASSUME surface_event_configure PROVE Fits'
  BY <1>8 DEF surface_event_configure, set_bkgnd_surface_prop, Background, Fits
<1>9. ASSUME remove_bkgnd_surface PROVE Fits'
  BY <1>9 DEF remove_bkgnd_surface, NoBackground, Fits
<1>10. ASSUME ivi_shell_destroy PROVE Fits'
  BY <1>10 DEF ivi_shell_destroy, NoBackground, Fits
<1> QED BY <1>2, <1>3, <1>4, <1>5, <1>6, <1>7, <1>8, <1>9, <1>10 DEF Outside

LEMMA FittedStep == Fitted /\ [Next]_vars => Fitted'
<1>1. SUFFICES ASSUME Fitted, [Next]_vars PROVE Fits'
  BY TypedStep DEF Fitted
<1>2. Typed /\ Fits
  BY <1>1 DEF Fitted
<1>3. CASE UNCHANGED <<head, screens, hmi, bkgnd>>
  BY <1>2, <1>3 DEF Fits
<1>4. ASSUME NEW c \in Clients, Handle(c) PROVE UNCHANGED <<head, screens, hmi, bkgnd>>
  BY <1>2, <1>4, HandleSays DEF HandleFrame
<1>5. ASSUME NEW c \in Clients, Receive(c) PROVE UNCHANGED <<head, screens, hmi, bkgnd>>
  BY <1>2, <1>5, ReceiveStep DEF ReceiveFrame
<1>6. ASSUME NEW c \in Clients, Take(c) \/ (CallLibrary(c) /\ Follow)
      PROVE  UNCHANGED <<head, screens, hmi, bkgnd>>
  BY <1>2, <1>6, CallStep DEF CallFrame
<1>7. ASSUME NEW s \in held, controller_screenshooter_done(s) PROVE UNCHANGED <<head, screens, hmi, bkgnd>>
  BY <1>7 DEF controller_screenshooter_done, outputs
<1>8. ASSUME NEW size, surface_changes(size) PROVE UNCHANGED <<head, screens, hmi, bkgnd>>
  BY <1>8 DEF surface_changes, outputs
<1>9. ASSUME Finished \/ UNCHANGED vars PROVE UNCHANGED <<head, screens, hmi, bkgnd>>
  BY <1>9 DEF Finished, vars, screenVars, outputs
<1>10. ASSUME NEW c \in Clients, create_layerids_freed(c), Follow
       PROVE  UNCHANGED <<head, screens, hmi, bkgnd>>
  BY <1>10, FreedLost DEF HandleFrame
<1> QED BY <1>1, <1>2, <1>3, <1>4, <1>5, <1>6, <1>7, <1>8, <1>9, <1>10, OutsideFits DEF Next

\* After any order of outputs that come, go and change their mode, and of the
\* background surface, the background covers all outputs (set_bkgnd_surface_prop).
THEOREM BackgroundAlwaysCovers == Spec => []BackgroundCovers
<1>1. ShotsInit => Fitted
  <2>1. ShotsInit => bkgnd.view = FALSE
    BY DEF ShotsInit, Init, NoBackground
  <2>2. ShotsInit => Fits
    BY <2>1 DEF Fits
  <2> QED BY <2>2, TypedInit DEF Fitted
<1>2. Fitted /\ [Next]_vars => Fitted'
  BY FittedStep
<1> QED BY <1>1, <1>2, FittedCovers, PTL DEF Spec

-----------------------------------------------------------------------------
(* The calls that wait, and the answer to a call for layers.               *)

Done == [ev |-> "done"]
LayerEvent(n, l) == [ev |-> "layer", n |-> n, layer |-> l]
Sizings == {r \in Requests : r.op = "surface_get"}
SizesTold == {e \in Events : e.ev = "surface"}

\* At most one request of X or one event of Y is on its way; none is.
OneOf(w, q, X, Y) ==
    Once(w, X) /\ Once(q, Y) /\ (ToSet(w) \cap X = {} \/ ToSet(q) \cap Y = {})
NoneOf(w, q, X, Y) == ToSet(w) \cap X = {} /\ ToSet(q) \cap Y = {}

\* A sync and the request for the size of a surface are on their way only
\* while somebody waits for the answer.
Syncing(c) == stage[c] \in {"globals", "bound", "ids"} \/ call[c].op \in {"layers", "screens", "commit"}
Sizing(c) == call[c].op \in {"sized", "async"}
Exchanges(c) ==
    /\ OneOf(wire[c], inbox[c], {Sync}, {Done})
    /\ ~Syncing(c) => NoneOf(wire[c], inbox[c], {Sync}, {Done})
    /\ OneOf(wire[c], inbox[c], Sizings, SizesTold)
    /\ ~Sizing(c) => NoneOf(wire[c], inbox[c], Sizings, SizesTold)
    /\ stage[c] # "on" => call[c] = Idle

\* The one get request on the wire is for n, and comes before the sync.
Ahead(w, n) ==
    \E i \in 1 .. Len(w) :
        /\ w[i].op = "get" /\ w[i].n = n
        /\ \A j \in 1 .. Len(w) : (w[j].op = "get" => j = i) /\ (w[j].op = "sync" => i < j)

\* k layers of s have been heard, and q holds the others: that at i of q is
\* the one at i + d of s.  Nothing is done before the last of them.
Delivers(q, n, s, d, k) ==
    /\ d \in Int /\ k \in 0 .. Len(s)
    /\ Len(s) - d <= Len(q) /\ (k < Len(s) => d <= k)
    /\ \A i \in 1 .. Len(q) :
          /\ k < i + d /\ i + d <= Len(s) => q[i] = LayerEvent(n, s[i + d])
          /\ ~(k < i + d /\ i + d <= Len(s)) => q[i].ev # "layer"
          /\ q[i].ev = "done" => Len(s) < i + d

\* The contexts of n have the first k layers of s, and the others none.
Begun(C, n, s, k) ==
    \A x \in ToSet(C) :
        /\ x.n = n => Len(x.order) = k /\ \A m \in 1 .. k : x.order[m] = s[m]
        /\ x.n # n => x.order = <<>>

Unordered(C) == \A x \in ToSet(C) : x.order = <<>>

Asked(c, n) ==
    /\ Ahead(wire[c], n) /\ Unordered(ctx[c])
    /\ \A e \in ToSet(inbox[c]) : e.ev \notin {"layer", "done"}
Delivered(c, n) ==
    /\ \A r \in ToSet(wire[c]) : r.op # "get"
    /\ sent[c] \in Seq(Layers)
    /\ \E d \in Int, k \in Nat : Delivers(inbox[c], n, sent[c], d, k) /\ Begun(ctx[c], n, sent[c], k)
Unasked(c) ==
    /\ \A r \in ToSet(wire[c]) : r.op # "get"
    /\ \A e \in ToSet(inbox[c]) : e.ev # "layer"
    /\ Unordered(ctx[c])

Listing(c) ==
    IF call[c].op = "layers"
    THEN /\ call[c].n \in 1 .. Len(head) /\ ~Comes(c, call[c].n)
         /\ Asked(c, call[c].n) \/ Delivered(c, call[c].n)
    ELSE Unasked(c)

-----------------------------------------------------------------------------
LEMMA AheadTail ==
    ASSUME NEW w \in Seq(Requests), NEW n, Ahead(w, n), NEW r, NEW t, Cuts(w, r, t)
    PROVE  /\ r.op # "sync"
           /\ r.op # "get" => Ahead(t, n)
           /\ r.op = "get" => r.n = n /\ \A x \in ToSet(t) : x.op # "get"
<1>1. /\ t \in Seq(Requests) /\ r = w[1] /\ Len(w) \in Nat \ {0} /\ Len(t) = Len(w) - 1
      /\ \A i \in 1 .. Len(t) : t[i] = w[i + 1] /\ i + 1 \in 1 .. Len(w)
      /\ \A j \in 1 .. Len(w) : j = 1 \/ \E i \in 1 .. Len(t) : j = i + 1
      /\ 1 \in 1 .. Len(w)
  BY CutAt
<1>2. PICK i \in 1 .. Len(w) :
        /\ w[i].op = "get" /\ w[i].n = n
        /\ \A j \in 1 .. Len(w) : (w[j].op = "get" => j = i) /\ (w[j].op = "sync" => i < j)
  BY DEF Ahead
<1>3. r.op # "sync"
  <2>1. ~(i < 1)
    OBVIOUS
  <2> QED BY <1>1, <1>2, <2>1
<1>4. ASSUME r.op # "get" PROVE Ahead(t, n)
  <2>1. i # 1
    BY <1>1, <1>2, <1>4
  <2>2. PICK l \in 1 .. Len(t) : i = l + 1
    BY <1>1, <2>1
  <2>3. t[l].op = "get" /\ t[l].n = n
    BY <1>1, <1>2, <2>2
  <2>4. ASSUME NEW j \in 1 .. Len(t)
        PROVE  (t[j].op = "get" => j = l) /\ (t[j].op = "sync" => l < j)
    <3>1. t[j] = w[j + 1] /\ j + 1 \in 1 .. Len(w)
      BY <1>1
    <3>2. (t[j].op = "get" => j + 1 = i) /\ (t[j].op = "sync" => i < j + 1)
      BY <1>2, <3>1
    <3> QED BY <2>2, <3>2
  <2> QED BY <2>3, <2>4 DEF Ahead
<1>5. ASSUME r.op = "get" PROVE r.n = n /\ \A x \in ToSet(t) : x.op # "get"
  <2>1. i = 1
    BY <1>1, <1>2, <1>5
  <2>2. ASSUME NEW x \in ToSet(t) PROVE x.op # "get"
    <3>1. PICK j \in 1 .. Len(t) : x = t[j]
      BY <1>1, SetOf
    <3>2. x = w[j + 1] /\ j + 1 \in 1 .. Len(w) /\ j + 1 # 1
      BY <1>1, <3>1
    <3> QED BY <1>2, <2>1, <3>2
  <2> QED BY <1>1, <1>2, <2>1, <2>2
<1> QED BY <1>3, <1>4, <1>5

LEMMA AheadJoin ==
    ASSUME NEW w \in Seq(Requests), NEW t \in Seq(Requests), NEW n, NEW u, u = w \o t, Ahead(w, n),
           \A x \in ToSet(t) : x.op \notin {"get", "sync"}
    PROVE  Ahead(u, n)
<1>1. Joined(w, t, u)
  BY JoinIs
<1>2. PICK i \in 1 .. Len(w) :
        /\ w[i].op = "get" /\ w[i].n = n
        /\ \A j \in 1 .. Len(w) : (w[j].op = "get" => j = i) /\ (w[j].op = "sync" => i < j)
  BY DEF Ahead
<1>3. i \in 1 .. Len(u) /\ u[i] = w[i]
  BY <1>1 DEF Joined
<1>4. ASSUME NEW j \in 1 .. Len(u)
      PROVE  (u[j].op = "get" => j = i) /\ (u[j].op = "sync" => i < j)
  <2>1. CASE j \in 1 .. Len(w)
    <3>1. u[j] = w[j]
      BY <1>1, <2>1 DEF Joined
    <3> QED BY <1>2, <2>1, <3>1
  <2>2. CASE \E k \in 1 .. Len(t) : j = Len(w) + k
    <3>1. PICK k \in 1 .. Len(t) : j = Len(w) + k
      BY <2>2
    <3>2. u[j] = t[k]
      BY <1>1, <3>1 DEF Joined
    <3>3. u[j].op \notin {"get", "sync"}
      BY <3>2, SetOf
    <3> QED BY <3>3
  <2> QED BY <1>1, <2>1, <2>2 DEF Joined
<1> QED BY <1>2, <1>3, <1>4 DEF Ahead

LEMMA AheadNew ==
    ASSUME NEW w \in Seq(Requests), NEW n, NEW r \in Requests, r = Request("get", n), NEW u,
           u = w \o <<r, Sync>>,
           \A x \in ToSet(w) : x.op \notin {"get", "sync"}
    PROVE  Ahead(u, n)
<1>0. r.op = "get" /\ r.n = n /\ Sync \in Requests /\ Sync.op = "sync"
  BY RequestTypes DEF Request, Sync
<1>1. PICK t \in Seq(Requests) : t = <<r, Sync>>
  <2>1. \A y \in Requests : <<r, y>> \in Seq(Requests)
    OBVIOUS
  <2> QED BY <1>0, <2>1
<1>2. Joined(w, t, u) /\ Len(t) = 2 /\ t[1] = r /\ t[2] = Sync
  BY <1>1, JoinIs
<1>3. Len(w) \in Nat /\ Len(u) = Len(w) + 2
  BY <1>2 DEF Joined
<1>4. /\ Len(w) + 1 \in 1 .. Len(u) /\ u[Len(w) + 1] = r
      /\ Len(w) + 2 \in 1 .. Len(u) /\ u[Len(w) + 2] = Sync
  BY <1>2 DEF Joined
<1>5. ASSUME NEW j \in 1 .. Len(u)
      PROVE  (u[j].op = "get" => j = Len(w) + 1) /\ (u[j].op = "sync" => Len(w) + 1 < j)
  <2>1. CASE j \in 1 .. Len(w)
    <3>1. u[j] = w[j]
      BY <1>2, <2>1 DEF Joined
    <3>2. u[j].op \notin {"get", "sync"}
      BY <2>1, <3>1, SetOf
    <3> QED BY <3>2
  <2>2. CASE j = Len(w) + 1
    BY <1>0, <1>3, <1>4, <2>2
  <2>3. CASE j = Len(w) + 2
    BY <1>0, <1>3, <1>4, <2>3
  <2> QED BY <1>3, <2>1, <2>2, <2>3
<1>6. PICK i \in 1 .. Len(u) : i = Len(w) + 1
  BY <1>4
<1>7. u[i].op = "get" /\ u[i].n = n
  BY <1>0, <1>4, <1>6
<1>8. \A j \in 1 .. Len(u) : (u[j].op = "get" => j = i) /\ (u[j].op = "sync" => i < j)
  BY <1>5, <1>6
<1> QED BY <1>7, <1>8 DEF Ahead

LEMMA DeliversTail ==
    ASSUME NEW q \in Seq(Events), NEW n, NEW s \in Seq(Layers), NEW d, NEW k, Delivers(q, n, s, d, k),
           NEW e, NEW t, Cuts(q, e, t)
    PROVE  /\ e.ev # "layer" => Delivers(t, n, s, d + 1, k)
           /\ e.ev = "layer" => /\ k + 1 \in 1 .. Len(s) /\ e = LayerEvent(n, s[k + 1])
                                /\ Delivers(t, n, s, d + 1, k + 1)
           /\ e.ev = "done" => k = Len(s)
<1>1. /\ e = q[1] /\ Len(q) \in Nat \ {0} /\ Len(t) = Len(q) - 1 /\ 1 \in 1 .. Len(q)
      /\ \A i \in 1 .. Len(t) : t[i] = q[i + 1] /\ i + 1 \in 1 .. Len(q)
  BY CutAt
<1>2. /\ d \in Int /\ k \in 0 .. Len(s) /\ Len(s) \in Nat
      /\ Len(s) - d <= Len(q) /\ (k < Len(s) => d <= k)
  BY DEF Delivers
<1>3. ASSUME NEW i \in 1 .. Len(q)
      PROVE  /\ k < i + d /\ i + d <= Len(s) => q[i] = LayerEvent(n, s[i + d])
             /\ ~(k < i + d /\ i + d <= Len(s)) => q[i].ev # "layer"
             /\ q[i].ev = "done" => Len(s) < i + d
  BY DEF Delivers
<1>4. \A l : LayerEvent(n, l).ev = "layer"
  BY DEF LayerEvent
<1>5. e.ev = "layer" => d = k /\ k + 1 \in 1 .. Len(s) /\ e = LayerEvent(n, s[k + 1])
  <2>1. e.ev = "layer" => k < 1 + d /\ 1 + d <= Len(s) /\ e = LayerEvent(n, s[1 + d])
    BY <1>1, <1>3
  <2>2. k < 1 + d /\ 1 + d <= Len(s) => d = k /\ k + 1 = 1 + d
    BY <1>2
  <2> QED BY <1>2, <2>1, <2>2
<1>6. e.ev = "done" => k = Len(s)
  <2>1. e.ev = "done" => Len(s) < 1 + d
    BY <1>1, <1>3
  <2> QED BY <1>2, <2>1
<1>7. ASSUME NEW i \in 1 .. Len(t)
      PROVE  /\ i + (d + 1) = (i + 1) + d
             /\ k < i + (d + 1) /\ i + (d + 1) <= Len(s) => t[i] = LayerEvent(n, s[i + (d + 1)])
             /\ ~(k < i + (d + 1) /\ i + (d + 1) <= Len(s)) => t[i].ev # "layer"
             /\ t[i].ev = "done" => Len(s) < i + (d + 1)
  <2>1. i + (d + 1) = (i + 1) + d
    BY <1>1, <1>2
  <2>2. t[i] = q[i + 1] /\ i + 1 \in 1 .. Len(q)
    BY <1>1
  <2>3. /\ k < (i + 1) + d /\ (i + 1) + d <= Len(s) => q[i + 1] = LayerEvent(n, s[(i + 1) + d])
        /\ ~(k < (i + 1) + d /\ (i + 1) + d <= Len(s)) => q[i + 1].ev # "layer"
        /\ q[i + 1].ev = "done" => Len(s) < (i + 1) + d
    BY <1>3, <2>2
  <2> QED BY <2>1, <2>2, <2>3
<1>8. d + 1 \in Int /\ Len(s) - (d + 1) <= Len(t)
  BY <1>1, <1>2
<1>9. ASSUME e.ev # "layer" PROVE Delivers(t, n, s, d + 1, k)
  <2>1. ~(k < 1 + d /\ 1 + d <= Len(s))
    BY <1>1, <1>3, <1>4, <1>9
  <2>2. k < Len(s) => d + 1 <= k
    BY <1>2, <2>1
  <2> QED BY <1>2, <1>7, <1>8, <2>2 DEF Delivers
<1>10. ASSUME e.ev = "layer" PROVE Delivers(t, n, s, d + 1, k + 1)
  <2>1. d = k /\ k + 1 \in 0 .. Len(s) /\ k \in Int
    BY <1>2, <1>5, <1>10
  <2>2. \A i \in 1 .. Len(t) : k + 1 < i + (d + 1) /\ k < i + (d + 1)
    BY <1>2, <2>1
  <2>3. ASSUME NEW i \in 1 .. Len(t)
        PROVE  /\ k + 1 < i + (d + 1) /\ i + (d + 1) <= Len(s) => t[i] = LayerEvent(n, s[i + (d + 1)])
               /\ ~(k + 1 < i + (d + 1) /\ i + (d + 1) <= Len(s)) => t[i].ev # "layer"
               /\ t[i].ev = "done" => Len(s) < i + (d + 1)
    BY <1>7, <2>2
  <2>4. k + 1 < Len(s) => d + 1 <= k + 1
    BY <2>1
  <2> QED BY <1>8, <2>1, <2>3, <2>4 DEF Delivers
<1> QED BY <1>5, <1>6, <1>9, <1>10

LEMMA DeliversJoin ==
    ASSUME NEW q \in Seq(Events), NEW t \in Seq(Events), NEW u, u = q \o t, NEW n, NEW s \in Seq(Layers),
           NEW d, NEW k, Delivers(q, n, s, d, k), \A e \in ToSet(t) : e.ev # "layer"
    PROVE  Delivers(u, n, s, d, k)
<1>1. Joined(q, t, u)
  BY JoinIs
<1>2. /\ d \in Int /\ k \in 0 .. Len(s) /\ Len(s) \in Nat
      /\ Len(s) - d <= Len(q) /\ (k < Len(s) => d <= k)
  BY DEF Delivers
<1>3. Len(s) - d <= Len(u) /\ Len(u) \in Nat /\ Len(q) \in Nat
  BY <1>1, <1>2 DEF Joined
<1>4. ASSUME NEW i \in 1 .. Len(u)
      PROVE  /\ k < i + d /\ i + d <= Len(s) => u[i] = LayerEvent(n, s[i + d])
             /\ ~(k < i + d /\ i + d <= Len(s)) => u[i].ev # "layer"
             /\ u[i].ev = "done" => Len(s) < i + d
  <2>1. CASE i \in 1 .. Len(q)
    <3>1. u[i] = q[i]
      BY <1>1, <2>1 DEF Joined
    <3> QED BY <2>1, <3>1 DEF Delivers
  <2>2. CASE \E l \in 1 .. Len(t) : i = Len(q) + l
    <3>1. PICK l \in 1 .. Len(t) : i = Len(q) + l
      BY <2>2
    <3>2. u[i] = t[l]
      BY <1>1, <3>1 DEF Joined
    <3>3. u[i].ev # "layer"
      BY <3>2, SetOf
    <3>4. Len(s) < i + d
      BY <1>2, <1>3, <3>1
    <3>5. ~(i + d <= Len(s))
      BY <1>2, <3>4
    <3> QED BY <3>3, <3>4, <3>5
  <2> QED BY <1>1, <2>1, <2>2 DEF Joined
<1> QED BY <1>2, <1>3, <1>4 DEF Delivers

LEMMA DeliversNew ==
    ASSUME NEW q \in Seq(Events), NEW n, NEW s \in Seq(Layers), LayerEvents(n, s) \in Seq(Events),
           NEW u, u = q \o LayerEvents(n, s), \A e \in ToSet(q) : e.ev \notin {"layer", "done"}
    PROVE  -Len(q) \in Int /\ Delivers(u, n, s, -Len(q), 0)
<1>1. PICK t \in Seq(Events) : t = LayerEvents(n, s)
  OBVIOUS
<1>2. Len(t) = Len(s) /\ \A l \in 1 .. Len(t) : t[l] = LayerEvent(n, s[l])
  BY <1>1 DEF LayerEvents, LayerEvent
<1>3. Joined(q, t, u)
  BY <1>1, JoinIs
<1>4. Len(q) \in Nat /\ Len(s) \in Nat /\ Len(u) = Len(q) + Len(s)
  BY <1>2, <1>3 DEF Joined
<1>5. PICK d \in Int : d = -Len(q)
  BY <1>4
<1>6. ASSUME NEW i \in 1 .. Len(u)
      PROVE  /\ 0 < i + d /\ i + d <= Len(s) => u[i] = LayerEvent(n, s[i + d])
             /\ ~(0 < i + d /\ i + d <= Len(s)) => u[i].ev # "layer"
             /\ u[i].ev = "done" => Len(s) < i + d
  <2>1. CASE i \in 1 .. Len(q)
    <3>1. u[i] = q[i]
      BY <1>3, <2>1 DEF Joined
    <3>2. u[i].ev \notin {"layer", "done"}
      BY <2>1, <3>1, SetOf
    <3>3. ~(0 < i + d)
      BY <1>4, <1>5, <2>1
    <3> QED BY <3>2, <3>3
  <2>2. CASE \E l \in 1 .. Len(t) : i = Len(q) + l
    <3>1. PICK l \in 1 .. Len(t) : i = Len(q) + l
      BY <2>2
    <3>2. u[i] = t[l]
      BY <1>3, <3>1 DEF Joined
    <3>3. i + d = l /\ 0 < i + d /\ i + d <= Len(s)
      BY <1>2, <1>4, <1>5, <3>1
    <3>4. u[i] = LayerEvent(n, s[i + d]) /\ u[i].ev = "layer"
      BY <1>2, <3>2, <3>3 DEF LayerEvent
    <3> QED BY <3>3, <3>4
  <2> QED BY <1>3, <2>1, <2>2 DEF Joined
<1>7. /\ 0 \in 0 .. Len(s) /\ Len(s) - d <= Len(u) /\ (0 < Len(s) => d <= 0)
  BY <1>4, <1>5
<1>8. Delivers(u, n, s, d, 0)
  BY <1>6, <1>7 DEF Delivers
<1> QED BY <1>5, <1>8

LEMMA OneOfTold ==
    ASSUME NEW w \in Seq(Requests), NEW q \in Seq(Events), NEW X, NEW Y, NEW e \in Events, e \notin Y,
           NEW u, u = q \o <<e>>
    PROVE  /\ OneOf(w, q, X, Y) => OneOf(w, u, X, Y)
           /\ NoneOf(w, q, X, Y) => NoneOf(w, u, X, Y)
<1>1. PICK t \in Seq(Events) : t = <<e>>
  <2>1. <<e>> \in Seq(Events)
    OBVIOUS
  <2> QED BY <2>1
<1>2. ToSet(t) = {e} /\ Once(t, Y) /\ ToSet(u) = ToSet(q) \cup ToSet(t) /\ u = q \o t
  <2>1. u = q \o t
    BY <1>1
  <2>2. ToSet(q \o t) = ToSet(q) \cup ToSet(t)
    BY SetOfJoin
  <2>3. ToSet(t) = {e} /\ Once(t, Y)
    BY <1>1, SetOfOne, OnceOne
  <2> QED BY <2>1, <2>2, <2>3
<1>3. ToSet(t) \cap Y = {}
  BY <1>2
<1>4. Once(q, Y) => Once(u, Y)
  BY <1>2, <1>3, OnceJoin
<1> QED BY <1>2, <1>3, <1>4 DEF OneOf, NoneOf

LEMMA OneOfServed ==
    ASSUME NEW w \in Seq(Requests), NEW q \in Seq(Events), NEW X, NEW Y, OneOf(w, q, X, Y),
           NEW r, NEW t, Cuts(w, r, t), NEW evs \in Seq(Events), NEW u, u = q \o evs,
           r \notin X => ToSet(evs) \cap Y = {}, r \in X => Once(evs, Y)
    PROVE  /\ OneOf(t, u, X, Y)
           /\ NoneOf(w, q, X, Y) => NoneOf(t, u, X, Y)
<1>1. ToSet(w) = {r} \cup ToSet(t) /\ Once(t, X) /\ (r \in X => ToSet(t) \cap X = {})
  BY SetOfTail, OnceTail DEF OneOf
<1>2. ToSet(u) = ToSet(q) \cup ToSet(evs)
  BY SetOfJoin
<1>3. CASE r \in X
  <2>1. ToSet(q) \cap Y = {} /\ Once(evs, Y) /\ ToSet(t) \cap X = {}
    BY <1>1, <1>3 DEF OneOf
  <2>2. Once(u, Y)
    BY <2>1, OnceJoin DEF OneOf
  <2> QED BY <1>1, <1>3, <2>1, <2>2 DEF OneOf, NoneOf
<1>4. CASE r \notin X
  <2>1. ToSet(evs) \cap Y = {} /\ Once(evs, Y)
    BY <1>4, OnceApart
  <2>2. Once(u, Y)
    BY <2>1, OnceJoin DEF OneOf
  <2> QED BY <1>1, <1>2, <2>1, <2>2 DEF OneOf, NoneOf
<1> QED BY <1>3, <1>4

LEMMA OneOfHeard ==
    ASSUME NEW w \in Seq(Requests), NEW q \in Seq(Events), NEW X, NEW Y, OneOf(w, q, X, Y),
           NEW e, NEW t, Cuts(q, e, t), NEW reqs \in Seq(Requests), NEW u, u = w \o reqs,
           ToSet(reqs) \cap X = {} \/ (e \in Y /\ Once(reqs, X))
    PROVE  /\ OneOf(u, t, X, Y)
           /\ ToSet(reqs) \cap X = {} =>
                 (e \in Y \/ NoneOf(w, q, X, Y) => NoneOf(u, t, X, Y))
<1>1. ToSet(q) = {e} \cup ToSet(t) /\ Once(t, Y) /\ (e \in Y => ToSet(t) \cap Y = {})
  BY SetOfTail, OnceTail DEF OneOf
<1>2. ToSet(u) = ToSet(w) \cup ToSet(reqs)
  BY SetOfJoin
<1>3. e \in Y => ToSet(w) \cap X = {}
  BY <1>1 DEF OneOf
<1>4. CASE ToSet(reqs) \cap X = {}
  <2>1. Once(reqs, X)
    BY <1>4, OnceApart
  <2>2. Once(u, X)
    BY <1>4, <2>1, OnceJoin DEF OneOf
  <2>3. ToSet(u) \cap X = ToSet(w) \cap X
    BY <1>2, <1>4
  <2> QED BY <1>1, <1>3, <2>2, <2>3 DEF OneOf, NoneOf
<1>5. CASE e \in Y /\ Once(reqs, X) /\ ToSet(reqs) \cap X # {}
  <2>1. Once(u, X)
    BY <1>3, <1>5, OnceJoin DEF OneOf
  <2> QED BY <1>1, <1>5, <2>1 DEF OneOf
<1> QED BY <1>4, <1>5

LEMMA OneOfAsked ==
    ASSUME NEW w \in Seq(Requests), NEW q \in Seq(Events), NEW X, NEW Y, NoneOf(w, q, X, Y),
           NEW reqs \in Seq(Requests), NEW u, u = w \o reqs, Once(reqs, X)
    PROVE  /\ OneOf(u, q, X, Y)
           /\ ToSet(reqs) \cap X = {} => NoneOf(u, q, X, Y)
<1>1. ToSet(u) = ToSet(w) \cup ToSet(reqs)
  BY SetOfJoin
<1>2. Once(w, X) /\ Once(q, Y)
  BY OnceApart DEF NoneOf
<1>3. Once(u, X)
  BY <1>2, OnceJoin DEF NoneOf
<1> QED BY <1>1, <1>2, <1>3 DEF OneOf, NoneOf

LEMMA OthersExchange ==
    ASSUME Base, NEW c \in Clients, Exchanges(c),
           Idles(c) \/ Appears(c) \/ Vanishes(c) \/ Resizes(c) \/ Leaves(c) \/ Answers(c)
    PROVE  Exchanges(c)'
<1>0. Typed
  BY DEF Base
<1>1. ASSUME SameClient(c), NEW e, Told(c, e) \/ inbox'[c] = inbox[c], e.ev \notin {"done", "surface"}
      PROVE  Exchanges(c)'
  <2>1. e \notin {Done} /\ e \notin SizesTold
    BY <1>1 DEF Done, SizesTold
  <2>2. (Syncing(c)' <=> Syncing(c)) /\ (Sizing(c)' <=> Sizing(c)) /\ (stage'[c] # "on" => call'[c] = Idle)
    BY <1>1 DEF Syncing, Sizing, SameClient, Exchanges
  <2>3. wire[c] \in Seq(Requests) /\ inbox[c] \in Seq(Events) /\ wire'[c] = wire[c]
    BY <1>0, <1>1, ClientHas DEF SameClient
  <2>4. CASE inbox'[c] = inbox[c]
    BY <2>2, <2>3, <2>4 DEF Exchanges, Sizings, SizesTold
  <2>5. CASE Told(c, e)
    <3>1. inbox'[c] = inbox[c] \o <<e>> /\ e \in Events
      BY <2>5 DEF Told
    <3>2. /\ OneOf(wire[c], inbox'[c], {Sync}, {Done})
          /\ ~Syncing(c) => NoneOf(wire[c], inbox'[c], {Sync}, {Done})
      BY <2>1, <2>3, <3>1, OneOfTold DEF Exchanges
    <3>3. /\ OneOf(wire[c], inbox'[c], Sizings, SizesTold)
          /\ ~Sizing(c) => NoneOf(wire[c], inbox'[c], Sizings, SizesTold)
      BY <2>1, <2>3, <3>1, OneOfTold DEF Exchanges
    <3>4. Sizings' = Sizings /\ SizesTold' = SizesTold /\ Sync' = Sync /\ Done' = Done
      BY DEF Sizings, SizesTold, Sync, Done
    <3> QED BY <2>2, <2>3, <3>2, <3>3, <3>4 DEF Exchanges
  <2> QED BY <1>1, <2>4, <2>5
<1>2. CASE Idles(c)
  <2>1. IviWm.ev \notin {"done", "surface"}
    BY DEF IviWm
  <2> QED BY <1>1, <1>2, <2>1 DEF Idles
<1>3. CASE Appears(c)
  <2>1. PICK e : e = Event("global", Len(head) + 1)
    OBVIOUS
  <2>2. SameClient(c) /\ (Told(c, e) \/ inbox'[c] = inbox[c]) /\ e.ev = "global"
    BY <1>3, <2>1 DEF Appears, ToldIf, Event
  <2> QED BY <1>1, <2>2
<1>4. CASE Vanishes(c)
  <2>1. PICK n \in screens : ToldIf(c, c \in listening, Event("gone", n))
    BY <1>4 DEF Vanishes
  <2>2. Event("gone", n).ev = "gone"
    BY DEF Event
  <2> QED BY <1>1, <1>4, <2>1, <2>2 DEF Vanishes, ToldIf
<1>5. CASE Resizes(c)
  <2>1. PICK n \in screens : ToldIf(c, <<c, n>> \in viewers, ModeOf(head', n))
    BY <1>5 DEF Resizes
  <2>2. PICK e : e = ModeOf(head', n)
    OBVIOUS
  <2>3. e.ev = "mode"
    BY <2>2 DEF ModeOf
  <2>4. SameClient(c) /\ (Told(c, e) \/ inbox'[c] = inbox[c])
    BY <1>5, <2>1, <2>2 DEF Resizes, ToldIf
  <2> QED BY <1>1, <2>3, <2>4
<1>6. CASE Answers(c)
  <2>1. PICK s \in held, ok \in BOOLEAN : ToldIf(c, <<c, s.shot>> \in shots, Answer(s.shot, ok))
    BY <1>6 DEF Answers
  <2>2. Answer(s.shot, ok).ev = "shot"
    BY DEF Answer
  <2> QED BY <1>1, <1>6, <2>1, <2>2 DEF Answers, ToldIf
<1>7. CASE Leaves(c)
  BY <1>7, SetOfNone, OnceNone DEF Leaves, Exchanges, OneOf, NoneOf
<1> QED BY <1>2, <1>3, <1>4, <1>5, <1>6, <1>7

LEMMA ServesExchange ==
    ASSUME Base, NEW c \in Clients, Exchanges(c), Serves(c)
    PROVE  Exchanges(c)'
<1>0. Typed /\ wire[c] # <<>>
  BY DEF Base, Serves
<1>1. PICK r \in Requests : r = Head(wire[c]) /\ Served(c, r)
  BY DEF Serves
<1>2. PICK evs \in Seq(Events) : Reply(c, evs) /\ EventsAfter(c, r, evs)
  BY <1>1 DEF Served
<1>3. stage'[c] = stage[c] /\ call'[c] = call[c] /\ Handled(c)
  BY <1>1 DEF Served
<1>4. /\ Cuts(wire[c], r, wire'[c]) /\ wire[c] \in Seq(Requests) /\ inbox[c] \in Seq(Events)
      /\ inbox'[c] = inbox[c] \o evs
  BY <1>0, <1>1, <1>2, <1>3, HandledWire, RepliedInbox
<1>5. Syncing(c)' = Syncing(c) /\ Sizing(c)' = Sizing(c)
  BY <1>3 DEF Syncing, Sizing
<1>6. Sizings' = Sizings /\ SizesTold' = SizesTold /\ Sync' = Sync /\ Done' = Done
  BY DEF Sizings, SizesTold, Sync, Done
<1>7. /\ r \notin {Sync} => ToSet(evs) \cap {Done} = {}
      /\ r \in {Sync} => Once(evs, {Done})
  <2>1. Done \in ToSet(evs) => r.op = "sync"
    BY <1>2 DEF EventsAfter, Answering, Done
  <2>2. r.op = "sync" => r = Sync
    BY DEF Requests, Sync
  <2>3. r = Sync => evs = <<Done>>
    BY <1>2 DEF EventsAfter, Done, Sync
  <2> QED BY <2>1, <2>2, <2>3, OnceOne
<1>8. /\ r \notin Sizings => ToSet(evs) \cap SizesTold = {}
      /\ r \in Sizings => Once(evs, SizesTold)
  <2>1. ToSet(evs) \cap SizesTold # {} => r.op = "surface_get"
    <3>1. ASSUME NEW e \in ToSet(evs), e \in SizesTold PROVE r.op = "surface_get"
      BY <1>2, <3>1 DEF EventsAfter, Answering, SizesTold
    <3> QED BY <3>1
  <2>2. r \in Sizings => \E e : evs = <<e>>
    BY <1>2 DEF EventsAfter, Sizings
  <2> QED BY <2>1, <2>2, OnceOne DEF Sizings
<1>9. /\ OneOf(wire'[c], inbox'[c], {Sync}, {Done})
      /\ ~Syncing(c) => NoneOf(wire'[c], inbox'[c], {Sync}, {Done})
  BY <1>4, <1>7, OneOfServed DEF Exchanges
<1>10. /\ OneOf(wire'[c], inbox'[c], Sizings, SizesTold)
       /\ ~Sizing(c) => NoneOf(wire'[c], inbox'[c], Sizings, SizesTold)
  BY <1>4, <1>8, OneOfServed DEF Exchanges
<1> QED BY <1>3, <1>5, <1>6, <1>9, <1>10 DEF Exchanges

\* A client sends a sync when ilm_init goes on, and only then.
LEMMA HearsSync ==
    ASSUME NEW c, NEW e \in Events, NEW reqs \in Seq(Requests), NEW C, NEW k, NEW st,
           Received(c, e, reqs, C, k, st)
    PROVE  /\ Once(reqs, {Sync})
           /\ ToSet(reqs) \cap Sizings = {}
           /\ \/ ToSet(reqs) \cap {Sync} = {}
              \/ e = Done /\ stage[c] = "bound" /\ st = "ids" /\ k = call[c]
<1>0. Receives(c, e, reqs, C, k, st) /\ \A r \in ToSet(reqs) : r.op # "surface_get" /\ r.op # "get"
  BY HearsSends DEF Received
<1>1. ToSet(reqs) \cap Sizings = {}
  BY <1>0 DEF Sizings
<1>2. ASSUME NEW q \in Seq(Requests), reqs = q \o <<Sync>>, \A r \in ToSet(q) : r.op = "create_screen"
      PROVE  Once(reqs, {Sync})
  <2>1. Sync \in Requests /\ Sync.op = "sync"
    BY RequestTypes DEF Sync
  <2>2. PICK t \in Seq(Requests) : t = <<Sync>>
    <3>1. \A y \in Requests : <<y>> \in Seq(Requests)
      OBVIOUS
    <3> QED BY <2>1, <3>1
  <2>3. Once(t, {Sync}) /\ ToSet(q) \cap {Sync} = {} /\ Once(q, {Sync})
    <3>1. ToSet(q) \cap {Sync} = {}
      BY <1>2, <2>1
    <3>2. Once(q, {Sync})
      BY <3>1, OnceApart
    <3> QED BY <2>2, <3>1, <3>2, OnceOne
  <2>4. reqs = q \o t
    BY <1>2, <2>2
  <2> QED BY <2>3, <2>4, OnceJoin
<1>3. CASE reqs = <<>>
  BY <1>1, <1>3, SetOfNone, OnceNone
<1>4. CASE e.ev = "done" /\ reqs # <<>>
  <2>1. /\ stage[c] = "bound" /\ st = "ids" /\ k = call[c]
        /\ \E q \in Seq(Requests) : reqs = q \o <<Sync>> /\ \A r \in ToSet(q) : r.op = "create_screen"
    BY <1>0, <1>4 DEF Receives, Sync
  <2>2. e = Done
    BY <1>4, EventFields DEF Done
  <2> QED BY <1>1, <1>2, <2>1, <2>2
<1>5. CASE e.ev # "done" /\ reqs # <<>>
  <2>1. \A r \in ToSet(reqs) : r.op # "sync"
    <3>1. CASE e.ev = "global"
      <4>1. Request("bind_output", e.n).op = "bind_output" /\ Request("create_screen", e.n).op = "create_screen"
        BY DEF Request
      <4> QED BY <1>0, <3>1, <4>1 DEF Receives
    <3>2. CASE e.ev = "gone"
      <4>1. Request("screen_destroy", e.n).op = "screen_destroy"
        BY DEF Request
      <4> QED BY <1>0, <3>2, <4>1 DEF Receives
    <3>3. CASE e.ev = "surface"
      <4>1. reqs = <<[op |-> "surface_screenshot", n |-> e.n, size |-> e.size]>>
        BY <1>0, <1>5, <3>3 DEF Receives
      <4> QED BY <4>1, SetOfOne
    <3> QED BY <1>0, <1>5, <3>1, <3>2, <3>3, EventFields DEF Receives
  <2>2. ToSet(reqs) \cap {Sync} = {}
    BY <2>1 DEF Sync
  <2> QED BY <1>1, <2>2, OnceApart
<1> QED BY <1>3, <1>4, <1>5

LEMMA HearsExchange ==
    ASSUME Base, NEW c \in Clients, Exchanges(c), Hears(c)
    PROVE  Exchanges(c)'
<1>0. Typed /\ ReceiveFrame(c) /\ Registered(c)
  BY DEF Base, Hears
<1>1. PICK e \in Events : e = Head(inbox[c]) /\ ReceiveSays(c, e)
  BY DEF Hears
<1>2. PICK reqs \in Seq(Requests), C \in Seq(ScreenContexts), k \in Calls, st \in Stages :
        Received(c, e, reqs, C, k, st)
  BY <1>1 DEF ReceiveSays
<1>3. stage'[c] = st /\ call'[c] = k /\ Receives(c, e, reqs, C, k, st)
  BY <1>0, <1>2 DEF Received, Typed, ClientTypes
<1>4. /\ Cuts(inbox[c], e, inbox'[c]) /\ wire[c] \in Seq(Requests) /\ inbox[c] \in Seq(Events)
      /\ wire'[c] = wire[c] \o reqs /\ ToSet(inbox[c]) = {e} \cup ToSet(inbox'[c])
  BY <1>0, <1>1, <1>2, HeardInbox, SentWire DEF Received
<1>5. /\ Once(reqs, {Sync}) /\ ToSet(reqs) \cap Sizings = {}
      /\ \/ ToSet(reqs) \cap {Sync} = {}
         \/ e = Done /\ stage[c] = "bound" /\ st = "ids" /\ k = call[c]
  BY <1>2, HearsSync
<1>6. Sizings' = Sizings /\ SizesTold' = SizesTold /\ Sync' = Sync /\ Done' = Done
  BY DEF Sizings, SizesTold, Sync, Done
<1>7. Idle.op = "none" /\ Request("shot", e.n).op = "shot"
  BY DEF Idle, Request
<1>8. /\ e.ev = "done" <=> e = Done
      /\ e.ev = "surface" <=> e \in SizesTold
  BY EventFields DEF Done, SizesTold
<1>9. /\ e.ev = "done" => Syncing(c)
      /\ e.ev = "surface" => Sizing(c)
  BY <1>4, <1>8 DEF Exchanges, NoneOf
<1>10. call[c] # Idle => stage[c] = "on"
  BY DEF Exchanges
<1>11. st # "on" => k = Idle
  <2>1. CASE e.ev = "surface"
    BY <1>3, <1>7, <1>9, <1>10, <2>1 DEF Receives, Sizing
  <2>2. CASE e.ev = "ivi_wm"
    <3>1. e = IviWm /\ c \in listening
      BY <1>0, <2>2, EventFields DEF IviWm, Registered, ReceiveFrame
    <3>2. stage[c] = "globals"
      BY <1>0, <1>4, <3>1 DEF Registered
    <3> QED BY <1>3, <1>10, <2>2, <3>2 DEF Receives
  <2>3. CASE e.ev \notin {"surface", "ivi_wm"}
    BY <1>3, <1>10, <2>3, EventFields DEF Receives
  <2> QED BY <2>1, <2>2, <2>3
<1>12. /\ OneOf(wire'[c], inbox'[c], {Sync}, {Done})
       /\ ToSet(reqs) \cap {Sync} = {} =>
             (e \in {Done} \/ NoneOf(wire[c], inbox[c], {Sync}, {Done}) =>
                 NoneOf(wire'[c], inbox'[c], {Sync}, {Done}))
  BY <1>4, <1>5, OneOfHeard DEF Exchanges
<1>13. /\ OneOf(wire'[c], inbox'[c], Sizings, SizesTold)
       /\ e \in SizesTold \/ NoneOf(wire[c], inbox[c], Sizings, SizesTold) =>
             NoneOf(wire'[c], inbox'[c], Sizings, SizesTold)
  BY <1>4, <1>5, OneOfHeard DEF Exchanges
<1>14. ~Syncing(c)' => NoneOf(wire'[c], inbox'[c], {Sync}, {Done})
  <2>1. CASE ToSet(reqs) \cap {Sync} # {}
    BY <1>3, <1>5, <2>1 DEF Syncing
  <2>2. CASE ToSet(reqs) \cap {Sync} = {} /\ e = Done
    BY <1>12, <2>2
  <2>3. CASE ToSet(reqs) \cap {Sync} = {} /\ e # Done
    <3>1. Syncing(c) => Syncing(c)'
      <4>1. CASE e.ev = "surface"
        BY <1>9, <1>10, <1>7, <4>1 DEF Syncing, Sizing
      <4>2. CASE e.ev = "shot"
        BY <1>3, <1>7, <1>10, <4>2 DEF Syncing, Receives
      <4>3. CASE e.ev = "ivi_wm"
        BY <1>3, <4>3 DEF Syncing, Receives
      <4>4. CASE e.ev \in {"global", "gone", "mode", "screen_id", "layer"}
        BY <1>3, <4>4 DEF Syncing, Receives
      <4> QED BY <1>8, <2>3, <4>1, <4>2, <4>3, <4>4, EventFields
    <3> QED BY <1>12, <2>3, <3>1 DEF Exchanges
  <2> QED BY <2>1, <2>2, <2>3
<1>15. ~Sizing(c)' => NoneOf(wire'[c], inbox'[c], Sizings, SizesTold)
  <2>1. CASE e.ev = "surface"
    BY <1>8, <1>13, <2>1
  <2>2. CASE e.ev # "surface"
    <3>1. Sizing(c) => Sizing(c)'
      <4>1. CASE e.ev = "done"
        <5>1. Sizing(c) => call[c] # Idle
          BY <1>7 DEF Sizing
        <5>2. ~Sizing(c)
          BY <1>9, <1>10, <4>1, <5>1 DEF Syncing, Sizing
        <5> QED BY <5>2
      <4>2. CASE e.ev = "shot"
        BY <1>3, <1>7, <4>2 DEF Sizing, Receives
      <4>3. CASE e.ev \notin {"done", "shot", "surface"}
        BY <1>3, <4>3, EventFields DEF Sizing, Receives
      <4> QED BY <2>2, <4>1, <4>2, <4>3
    <3> QED BY <1>13, <3>1 DEF Exchanges
  <2> QED BY <2>1, <2>2
<1> QED BY <1>3, <1>6, <1>11, <1>12, <1>13, <1>14, <1>15 DEF Exchanges

\* What a call sends, and what it then waits for.
LEMMA AsksSync ==
    ASSUME Typed, NEW c \in Clients, NEW reqs \in Seq(Requests), NEW k \in Calls, NEW st \in Stages,
           Calling(c, reqs, k, st)
    PROVE  /\ Once(reqs, {Sync}) /\ Once(reqs, Sizings)
           /\ stage[c] \in {"off", "on", "lost"} /\ (st # "on" => k = Idle)
           /\ \/ ToSet(reqs) \cap {Sync} = {}
              \/ st = "globals" \/ k.op \in {"layers", "screens", "commit"}
           /\ ToSet(reqs) \cap Sizings = {} \/ k.op \in {"sized", "async"}
<1>0. Sync \in Requests /\ Sync.op = "sync" /\ Sync \notin Sizings
  BY RequestTypes DEF Sync, Sizings
<1>a. PICK s \in Requests : s = Sync
  BY <1>0
<1>b. PICK t \in Seq(Requests) : t = <<s>>
  <2>1. <<s>> \in Seq(Requests)
    OBVIOUS
  <2> QED BY <2>1
<1>c. ToSet(t) = {Sync} /\ Once(t, {Sync})
  BY <1>a, <1>b, SetOfOne, OnceOne
<1>1. ASSUME NEW q \in Seq(Requests), reqs = q \o t, \A r \in ToSet(q) : r.op \notin {"sync", "surface_get"}
      PROVE  Once(reqs, {Sync}) /\ ToSet(reqs) \cap Sizings = {} /\ Once(reqs, Sizings)
  <2>1. ToSet(q) \cap {Sync} = {} /\ ToSet(q) \cap Sizings = {}
    BY <1>0, <1>1 DEF Sizings
  <2>2. Once(q, {Sync})
    BY <2>1, OnceApart
  <2>3. Once(reqs, {Sync})
    BY <1>1, <1>c, <2>1, <2>2, OnceJoin
  <2>4. ToSet(reqs) = ToSet(q) \cup {Sync}
    BY <1>1, <1>c, SetOfJoin
  <2>5. ToSet(reqs) \cap Sizings = {}
    BY <1>0, <2>1, <2>4
  <2> QED BY <2>3, <2>5, OnceApart
<1>2. ASSUME \A r \in ToSet(reqs) : r.op \notin {"sync", "surface_get"}
      PROVE  /\ Once(reqs, {Sync}) /\ Once(reqs, Sizings)
             /\ ToSet(reqs) \cap {Sync} = {} /\ ToSet(reqs) \cap Sizings = {}
  <2>1. ToSet(reqs) \cap {Sync} = {} /\ ToSet(reqs) \cap Sizings = {}
    BY <1>0, <1>2 DEF Sizings
  <2> QED BY <2>1, OnceApart
<1>3. CASE Begins(c, reqs, k, st)
  <2>1. PICK a \in Requests : a = [op |-> "get_registry"]
    BY RequestTypes
  <2>2. PICK q \in Seq(Requests) : q = <<a>>
    <3>1. <<a>> \in Seq(Requests)
      OBVIOUS
    <3> QED BY <3>1
  <2>3. ToSet(q) = {a} /\ a.op = "get_registry"
    BY <2>1, <2>2, SetOfOne
  <2>4. <<a, s>> = <<a>> \o <<s>>
    OBVIOUS
  <2>5. reqs = q \o t
    BY <1>3, <1>a, <1>b, <2>1, <2>2, <2>4 DEF Begins
  <2>6. \A r \in ToSet(q) : r.op \notin {"sync", "surface_get"}
    BY <2>3
  <2> QED BY <1>1, <1>3, <2>5, <2>6 DEF Begins
<1>4. CASE Waits(c, reqs, k, st)
  <2>1. PICK q \in Seq(Requests) :
          /\ reqs = q \o <<Sync>>
          /\ \/ \E x \in ToSet(ctx[c]) : k = Request("layers", x.n) /\ q = <<Request("get", x.n)>>
             \/ k \in {Request("screens", 0), Request("commit", 0)} /\ \A r \in ToSet(q) : r.op = "commit"
    BY <1>4 DEF Waits
  <2>2. \A n : Request("get", n).op = "get" /\ Request("layers", n).op = "layers"
               /\ Request("screens", n).op = "screens" /\ Request("commit", n).op = "commit"
    BY DEF Request
  <2>3. \A r \in ToSet(q) : r.op \in {"get", "commit"}
    BY <2>1, <2>2, SetOfOne
  <2>4. reqs = q \o t
    BY <1>a, <1>b, <2>1
  <2>5. k.op \in {"layers", "screens", "commit"}
    BY <2>1, <2>2
  <2>6. \A r \in ToSet(q) : r.op \notin {"sync", "surface_get"}
    BY <2>3
  <2> QED BY <1>1, <1>4, <2>4, <2>5, <2>6 DEF Waits
<1>5. CASE SetsOrder(c, reqs, k, st)
  <2>1. \A r \in ToSet(reqs) : r.op \in {"clear", "add", "remove"}
    BY <1>5, CallSends
  <2> QED BY <1>2, <1>5, <2>1 DEF SetsOrder
<1>6. CASE Ends(c, reqs, k, st)
  <2>1. \A r \in ToSet(reqs) : r.op \in {"screen_destroy", "disconnect"}
    BY <1>6, SetOfNone DEF Ends
  <2> QED BY <1>2, <1>6, <2>1 DEF Ends
<1>7. CASE Shoots(c, reqs, k, st)
  <2>1. CASE reqs = <<>>
    BY <1>2, <1>7, <2>1, SetOfNone DEF Shoots
  <2>2. CASE \E n \in Nat : reqs = <<[op |-> "screenshot", n |-> n, shot |-> Shot]>>
    <3>1. \A r \in ToSet(reqs) : r.op = "screenshot"
      BY <2>2, SetOfOne
    <3> QED BY <1>2, <1>7, <3>1 DEF Shoots
  <2>3. CASE reqs = <<Request("surface_get", Shot)>> /\ k \in {Request("async", Shot), Request("sized", Shot)}
    <3>1. PICK a : a = Request("surface_get", Shot)
      OBVIOUS
    <3>2. a.op = "surface_get" /\ k.op \in {"sized", "async"}
      BY <2>3, <3>1 DEF Request
    <3>3. ToSet(reqs) = {a} /\ Once(reqs, Sizings)
      BY <2>3, <3>1, SetOfOne, OnceOne
    <3>4. ToSet(reqs) \cap {Sync} = {}
      BY <1>0, <3>2, <3>3
    <3> QED BY <1>7, <3>2, <3>3, <3>4, OnceApart DEF Shoots
  <2> QED BY <1>7, <2>1, <2>2, <2>3 DEF Shoots
<1> QED BY <1>3, <1>4, <1>5, <1>6, <1>7 DEF Calling

LEMMA AsksExchange ==
    ASSUME Base, NEW c \in Clients, Exchanges(c), Asks(c)
    PROVE  Exchanges(c)'
<1>0. Typed /\ CallFrame(c)
  BY DEF Base, Asks
<1>1. PICK reqs \in Seq(Requests), k \in Calls, st \in Stages : CallMade(c, reqs, k, st)
  BY DEF Asks, CallSays
<1>2. stage'[c] = st /\ call'[c] = k /\ inbox'[c] = inbox[c] /\ Send(c, reqs) /\ call[c] = Idle
  BY <1>0, <1>1 DEF CallMade, CallFrame, Typed, ClientTypes
<1>3. wire'[c] = wire[c] \o reqs /\ wire[c] \in Seq(Requests) /\ inbox[c] \in Seq(Events)
  BY <1>0, <1>2, SentWire, ClientHas
<1>4. /\ Once(reqs, {Sync}) /\ Once(reqs, Sizings)
      /\ stage[c] \in {"off", "on", "lost"} /\ (st # "on" => k = Idle)
      /\ \/ ToSet(reqs) \cap {Sync} = {}
         \/ st = "globals" \/ k.op \in {"layers", "screens", "commit"}
      /\ ToSet(reqs) \cap Sizings = {} \/ k.op \in {"sized", "async"}
  BY <1>0, <1>1, AsksSync DEF CallMade
<1>5. ~Syncing(c) /\ ~Sizing(c)
  BY <1>2, <1>4 DEF Syncing, Sizing, Idle
<1>6. Sizings' = Sizings /\ SizesTold' = SizesTold /\ Sync' = Sync /\ Done' = Done
  BY DEF Sizings, SizesTold, Sync, Done
<1>7. /\ OneOf(wire'[c], inbox[c], {Sync}, {Done})
      /\ ToSet(reqs) \cap {Sync} = {} => NoneOf(wire'[c], inbox[c], {Sync}, {Done})
  BY <1>3, <1>4, <1>5, OneOfAsked DEF Exchanges
<1>8. /\ OneOf(wire'[c], inbox[c], Sizings, SizesTold)
      /\ ToSet(reqs) \cap Sizings = {} => NoneOf(wire'[c], inbox[c], Sizings, SizesTold)
  BY <1>3, <1>4, <1>5, OneOfAsked DEF Exchanges
<1>9. ~Syncing(c)' => ToSet(reqs) \cap {Sync} = {}
  BY <1>2, <1>4 DEF Syncing
<1>10. ~Sizing(c)' => ToSet(reqs) \cap Sizings = {}
  BY <1>2, <1>4 DEF Sizing
<1> QED BY <1>2, <1>4, <1>6, <1>7, <1>8, <1>9, <1>10 DEF Exchanges

LEMMA ToldListing ==
    ASSUME Typed, NEW c \in Clients, Listing(c), SameClient(c), HeadsStay, NEW e,
           Told(c, e) \/ inbox'[c] = inbox[c], e.ev \notin {"layer", "done"},
           call[c].op = "layers" => e # Event("global", call[c].n)
    PROVE  Listing(c)'
<1>1. wire'[c] = wire[c] /\ ctx'[c] = ctx[c] /\ call'[c] = call[c] /\ sent'[c] = sent[c]
      /\ inbox[c] \in Seq(Events)
  BY ClientHas DEF SameClient
<1>2. ToSet(inbox'[c]) \subseteq ToSet(inbox[c]) \cup {e}
  BY ToldInbox
<1>3. CASE call[c].op = "layers"
  <2>1. PICK n : n = call[c].n
    OBVIOUS
  <2>2. n \in 1 .. Len(head) /\ ~Comes(c, n) /\ (Asked(c, n) \/ Delivered(c, n))
    BY <1>3, <2>1 DEF Listing
  <2>3. n \in 1 .. Len(head') /\ ~Comes(c, n)'
    BY <1>2, <1>3, <2>1, <2>2 DEF HeadsStay, Comes
  <2>4. Asked(c, n) => Asked(c, n)'
    BY <1>1, <1>2 DEF Asked
  <2>5. ASSUME Delivered(c, n) PROVE Delivered(c, n)'
    <3>1. PICK d \in Int, k \in Nat : Delivers(inbox[c], n, sent[c], d, k) /\ Begun(ctx[c], n, sent[c], k)
      BY <2>5 DEF Delivered
    <3>2. sent[c] \in Seq(Layers)
      BY <2>5 DEF Delivered
    <3>3. Delivers(inbox'[c], n, sent[c], d, k)
      <4>1. CASE Told(c, e)
        <5>1. /\ inbox'[c] = inbox[c] \o <<e>> /\ <<e>> \in Seq(Events) /\ ToSet(<<e>>) = {e}
          BY <4>1, ToldInbox
        <5>2. PICK t \in Seq(Events) : t = <<e>>
          BY <5>1
        <5>3. inbox'[c] = inbox[c] \o t /\ \A y \in ToSet(t) : y.ev # "layer"
          BY <5>1, <5>2
        <5> QED BY <1>1, <3>1, <3>2, <5>3, DeliversJoin
      <4>2. CASE inbox'[c] = inbox[c]
        BY <3>1, <4>2
      <4> QED BY <4>1, <4>2
    <3> QED BY <1>1, <2>5, <3>1, <3>2, <3>3 DEF Delivered
  <2> QED BY <1>1, <1>3, <2>1, <2>2, <2>3, <2>4, <2>5 DEF Listing
<1>4. CASE call[c].op # "layers"
  BY <1>1, <1>2, <1>4 DEF Listing, Unasked
<1> QED BY <1>3, <1>4

LEMMA OthersListing ==
    ASSUME Base, [Next]_vars, NEW c \in Clients, Listing(c),
           Idles(c) \/ Appears(c) \/ Vanishes(c) \/ Resizes(c) \/ Leaves(c) \/ Answers(c)
    PROVE  Listing(c)'
<1>0. Typed /\ HeadsStay
  BY StepHeads DEF Base
<1>1. CASE Idles(c)
  <2>1. IviWm.ev = "ivi_wm" /\ \A n : IviWm # Event("global", n)
    BY DEF IviWm, Event
  <2> QED BY <1>0, <1>1, <2>1, ToldListing DEF Idles
<1>2. CASE Appears(c)
  <2>1. PICK h \in Heads : head' = Append(head, h)
    BY <1>2 DEF Appears
  <2>2. Len(head) \in Nat
    BY <1>0, <2>1, AppearsHeads
  <2>3. PICK m : m = Len(head) + 1
    OBVIOUS
  <2>4. PICK e : e = Event("global", m)
    OBVIOUS
  <2>5. e.ev = "global" /\ \A n : e = Event("global", n) => n = m
    BY <2>4 DEF Event
  <2>6. call[c].op = "layers" => e # Event("global", call[c].n)
    <3>1. call[c].op = "layers" => call[c].n \in 1 .. Len(head)
      BY DEF Listing
    <3> QED BY <2>2, <2>3, <2>5, <3>1
  <2>7. SameClient(c) /\ (Told(c, e) \/ inbox'[c] = inbox[c])
    BY <1>2, <2>3, <2>4 DEF Appears, ToldIf
  <2> QED BY <1>0, <2>5, <2>6, <2>7, ToldListing
<1>3. CASE Vanishes(c)
  <2>1. PICK n \in screens : ToldIf(c, c \in listening, Event("gone", n))
    BY <1>3 DEF Vanishes
  <2>2. Event("gone", n).ev = "gone" /\ \A m : Event("gone", n) # Event("global", m)
    BY DEF Event
  <2> QED BY <1>0, <1>3, <2>1, <2>2, ToldListing DEF Vanishes, ToldIf
<1>4. CASE Resizes(c)
  <2>1. PICK n \in screens : ToldIf(c, <<c, n>> \in viewers, ModeOf(head', n))
    BY <1>4 DEF Resizes
  <2>2. PICK e : e = ModeOf(head', n)
    OBVIOUS
  <2>3. e.ev = "mode" /\ \A m : e # Event("global", m)
    BY <2>2 DEF ModeOf, Event
  <2>4. SameClient(c) /\ (Told(c, e) \/ inbox'[c] = inbox[c])
    BY <1>4, <2>1, <2>2 DEF Resizes, ToldIf
  <2> QED BY <1>0, <2>3, <2>4, ToldListing
<1>5. CASE Answers(c)
  <2>1. PICK s \in held, ok \in BOOLEAN : ToldIf(c, <<c, s.shot>> \in shots, Answer(s.shot, ok))
    BY <1>5 DEF Answers
  <2>2. Answer(s.shot, ok).ev = "shot" /\ \A m : Answer(s.shot, ok) # Event("global", m)
    BY DEF Answer, Event
  <2> QED BY <1>0, <1>5, <2>1, <2>2, ToldListing DEF Answers, ToldIf
<1>6. CASE Leaves(c)
  <2>1. wire'[c] = <<>> /\ inbox'[c] = <<>> /\ ctx'[c] = <<>> /\ call'[c] = Idle
    BY <1>6 DEF Leaves
  <2>2. Unasked(c)'
    BY <2>1, SetOfNone DEF Unasked, Unordered
  <2> QED BY <2>1, <2>2 DEF Listing, Idle
<1> QED BY <1>1, <1>2, <1>3, <1>4, <1>5, <1>6

LEMMA ServesListing ==
    ASSUME Base, NEW c \in Clients, Exchanges(c), Listing(c), Serves(c)
    PROVE  Listing(c)'
<1>0. Typed /\ wire[c] # <<>> /\ head' = head /\ Registered(c)
  BY DEF Base, Serves, HandleFrame
<1>1. PICK r \in Requests : r = Head(wire[c]) /\ Served(c, r)
  BY DEF Serves
<1>2. PICK evs \in Seq(Events) : Reply(c, evs) /\ EventsAfter(c, r, evs)
  BY <1>1 DEF Served
<1>3. ctx'[c] = ctx[c] /\ call'[c] = call[c] /\ Handled(c)
  BY <1>1 DEF Served
<1>4. /\ Cuts(wire[c], r, wire'[c]) /\ wire[c] \in Seq(Requests) /\ inbox[c] \in Seq(Events)
      /\ inbox'[c] = inbox[c] \o evs /\ ToSet(wire[c]) = {r} \cup ToSet(wire'[c])
      /\ ToSet(inbox'[c]) = ToSet(inbox[c]) \cup ToSet(evs)
  BY <1>0, <1>1, <1>2, <1>3, HandledWire, RepliedInbox
<1>5. \A e \in ToSet(evs) : /\ e.ev = "layer" => r.op = "get"
                            /\ e.ev = "done" => r.op = "sync"
                            /\ e.ev = "global" => r.op = "get_registry"
  BY <1>2 DEF EventsAfter, Answering
<1>6. r.op # "get" => sent' = sent
  BY <1>2 DEF EventsAfter
<1>7. CASE call[c].op = "layers"
  <2>1. PICK n : n = call[c].n
    OBVIOUS
  <2>2. n \in 1 .. Len(head) /\ ~Comes(c, n) /\ (Asked(c, n) \/ Delivered(c, n))
    BY <1>7, <2>1 DEF Listing
  <2>3. r.op # "get_registry"
    <3>1. stage[c] = "on"
      BY <1>7 DEF Exchanges, Idle
    <3> QED BY <1>0, <1>4, <3>1 DEF Registered
  <2>4. ~Comes(c, n)'
    <3>1. \A e \in ToSet(evs) : e # Event("global", n)
      BY <1>5, <2>3 DEF Event
    <3> QED BY <1>4, <2>2, <3>1 DEF Comes
  <2>5. ASSUME Asked(c, n) PROVE Asked(c, n)' \/ Delivered(c, n)'
    <3>1. /\ r.op # "sync"
          /\ r.op # "get" => Ahead(wire'[c], n)
          /\ r.op = "get" => r.n = n /\ \A x \in ToSet(wire'[c]) : x.op # "get"
      BY <1>4, <2>5, AheadTail DEF Asked
    <3>2. CASE r.op # "get"
      BY <1>3, <1>4, <1>5, <2>5, <3>1, <3>2 DEF Asked
    <3>3. CASE r.op = "get"
      <4>1. PICK q \in Seq(Layers) : evs = LayerEvents(r.n, q) /\ sent' = [sent EXCEPT ![c] = q]
        BY <1>2, <3>3 DEF EventsAfter
      <4>2. sent'[c] = q
        BY <1>0, <4>1 DEF Typed, ClientTypes
      <4>3. LayerEvents(n, q) \in Seq(Events) /\ inbox'[c] = inbox[c] \o LayerEvents(n, q)
        BY <1>4, <3>1, <3>3, <4>1
      <4>4. -Len(inbox[c]) \in Int /\ Delivers(inbox'[c], n, q, -Len(inbox[c]), 0)
        BY <1>4, <2>5, <4>3, DeliversNew DEF Asked
      <4>5. Begun(ctx'[c], n, q, 0)
        <5>1. Len(<<>>) = 0
          OBVIOUS
        <5> QED BY <1>3, <2>5, <5>1 DEF Asked, Unordered, Begun
      <4>6. PICK d \in Int : d = -Len(inbox[c])
        BY <4>4
      <4>7. 0 \in Nat /\ Delivers(inbox'[c], n, q, d, 0)
        BY <4>4, <4>6
      <4> QED BY <3>1, <3>3, <4>2, <4>5, <4>7 DEF Delivered
    <3> QED BY <3>2, <3>3
  <2>6. ASSUME Delivered(c, n) PROVE Delivered(c, n)'
    <3>1. PICK d \in Int, k \in Nat : Delivers(inbox[c], n, sent[c], d, k) /\ Begun(ctx[c], n, sent[c], k)
      BY <2>6 DEF Delivered
    <3>2. sent[c] \in Seq(Layers) /\ r.op # "get" /\ \A x \in ToSet(wire'[c]) : x.op # "get"
      BY <1>4, <2>6 DEF Delivered
    <3>3. Delivers(inbox'[c], n, sent[c], d, k)
      BY <1>4, <1>5, <3>1, <3>2, DeliversJoin
    <3> QED BY <1>3, <1>6, <3>1, <3>2, <3>3 DEF Delivered
  <2> QED BY <1>0, <1>3, <1>7, <2>1, <2>2, <2>4, <2>5, <2>6 DEF Listing
<1>8. CASE call[c].op # "layers"
  <2>1. Unasked(c)
    BY <1>8 DEF Listing
  <2>2. Unasked(c)'
    BY <1>3, <1>4, <1>5, <2>1 DEF Unasked
  <2> QED BY <1>3, <1>8, <2>2 DEF Listing
<1> QED BY <1>7, <1>8

\* Two sequences of one put together.
LEMMA PairOf ==
    ASSUME NEW E, NEW r \in E, NEW s \in E
    PROVE  <<r>> \o <<s>> = <<r, s>>
<1>1. /\ <<r>> \in Seq(E) /\ <<s>> \in Seq(E) /\ <<r, s>> \in Seq(E) /\ Len(<<r>>) = 1 /\ Len(<<s>>) = 1 /\ Len(<<r,s>>) = 2
  OBVIOUS
<1>2. PICK a \in Seq(E), b \in Seq(E), t \in Seq(E) : a = <<r>> /\ b = <<s>> /\ t = <<r, s>>
  BY <1>1
<1>3. a[1] = r /\ b[1] = s /\ t[1] = r /\ t[2] = s /\ Len(a) = 1 /\ Len(b) = 1 /\ Len(t) = 2
  BY <1>1, <1>2
<1>4. PICK u \in Seq(E) : u = a \o b
  BY ConcatProperties
<1>5. Len(u) = 2 /\ u[1] = r /\ u[2] = s
  BY <1>3, <1>4, ConcatProperties
<1>6. u = t
  BY <1>3, <1>5
<1> QED BY <1>2, <1>4, <1>6

\* The orders of the contexts after an event.
LEMMA HeardOrders ==
    ASSUME Typed, NEW c \in Clients, NEW e \in Events, NEW reqs \in Seq(Requests), NEW C \in Seq(ScreenContexts),
           NEW k \in Calls, NEW st \in Stages, Received(c, e, reqs, C, k, st), NEW y \in ToSet(C)
    PROVE  \/ e.ev = "global" /\ y.n = e.n /\ y.order = <<>>
           \/ \E x \in ToSet(ctx[c]) :
                 /\ y.n = x.n
                 /\ IF e.ev = "layer" /\ y.n = e.n THEN y.order = Append(x.order, e.layer)
                    ELSE y.order = x.order \/ (e.ev = "done" /\ y.order = <<>>)
<1>0. ctx[c] \in Seq(ScreenContexts) /\ Receives(c, e, reqs, C, k, st)
  BY DEF Received, Typed, ClientTypes
<1>1. CASE e.ev = "global"
  <2>1. PICK b \in BOOLEAN : b = (stage[c] # "globals")
    OBVIOUS
  <2>2. C = <<NewContext(e.n, b)>> \o ctx[c]
    BY <1>0, <1>1, <2>1 DEF Receives
  <2>3. PICK x : x = NewContext(e.n, b)
    OBVIOUS
  <2>4. x.n = e.n /\ x.order = <<>> /\ x \in ScreenContexts
    <3>1. <<>> \in Seq(Layers) /\ e.n \in Nat
      BY <1>1, EventFields
    <3> QED BY <2>3, <3>1 DEF NewContext, ScreenContexts
  <2>5. PICK q \in Seq(ScreenContexts) : q = <<x>>
    <3>1. <<x>> \in Seq(ScreenContexts)
      BY <2>4
    <3> QED BY <3>1
  <2>6. ToSet(q) = {x} /\ C = q \o ctx[c]
    BY <2>2, <2>3, <2>5, SetOfOne, Zenon
  <2>7. ToSet(C) = {x} \cup ToSet(ctx[c])
    BY <1>0, <2>6, SetOfJoin
  <2> QED BY <1>1, <2>4, <2>7
<1>2. CASE e.ev = "gone"
  <2>1. y \in ToSet(ctx[c])
    BY <1>0, <1>2 DEF Receives
  <2> QED BY <1>2, <2>1
<1>3. CASE e.ev \notin {"global", "gone"}
  <2>1. Len(C) = Len(ctx[c]) /\ \A i \in 1 .. Len(C) : Becomes(e, k, ctx[c][i], C[i])
    BY <1>0, <1>3, HeardContexts
  <2>2. PICK i \in 1 .. Len(ctx[c]) : y = C[i] /\ ctx[c][i] \in ToSet(ctx[c])
    BY <1>0, <2>1, ChangedSet
  <2>3. PICK x \in ScreenContexts : x = ctx[c][i]
    BY <1>0, <2>2, ElementOf
  <2>4. Becomes(e, k, x, y) /\ y.n = x.n
    BY <2>1, <2>2, <2>3, BecomesFields
  <2>5. CASE e.ev = "layer"
    <3>1. Layered(ctx[c], C, e)
      BY <1>0, <2>5 DEF Receives
    <3>2. x.n = e.n => y = [x EXCEPT !.order = Append(@, e.layer)]
      BY <2>2, <2>3, <3>1 DEF Layered
    <3>3. x.n # e.n => y = x
      BY <2>2, <2>3, <3>1 DEF Layered, Changed
    <3>4. PICK z : z = Append(x.order, e.layer)
      OBVIOUS
    <3>5. x.n = e.n => y = [x EXCEPT !.order = z]
      BY <3>2, <3>4
    <3>6. x.n = e.n => y.order = z
      BY <2>3, <3>5 DEF ScreenContexts
    <3> QED BY <2>2, <2>3, <2>4, <2>5, <3>3, <3>4, <3>6
  <2>6. CASE e.ev # "layer"
    <3>1. y.order = x.order \/ (e.ev = "done" /\ y.order = <<>>)
      <4>1. CASE y = x
        BY <4>1
      <4>2. CASE e.ev = "mode" /\ y = [x EXCEPT !.size = IF e.turned THEN <<e.mode[2], e.mode[1]>> ELSE e.mode]
        <5>1. PICK z : z = IF e.turned THEN <<e.mode[2], e.mode[1]>> ELSE e.mode
          OBVIOUS
        <5>2. y = [x EXCEPT !.size = z]
          BY <4>2, <5>1
        <5> QED BY <2>3, <5>2 DEF ScreenContexts
      <4>3. CASE y = [x EXCEPT !.id = e.id, !.named = TRUE]
        BY <2>3, <4>3 DEF ScreenContexts
      <4>4. CASE e.ev = "done" /\ y = [x EXCEPT !.order = <<>>]
        BY <2>3, <4>4 DEF ScreenContexts
      <4>5. CASE y = [x EXCEPT !.made = TRUE]
        BY <2>3, <4>5 DEF ScreenContexts
      <4> QED BY <2>4, <2>6, <4>1, <4>2, <4>3, <4>4, <4>5 DEF Becomes
    <3> QED BY <2>2, <2>3, <2>4, <2>6, <3>1
  <2> QED BY <2>5, <2>6
<1> QED BY <1>1, <1>2, <1>3

\* With one layer more, the contexts have the first k + 1.
LEMMA BegunNext ==
    ASSUME NEW k \in Nat, NEW s \in Seq(Layers), k + 1 \in 1 .. Len(s), NEW p \in Seq(Layers), Len(p) = k,
           \A m \in 1 .. k : p[m] = s[m], NEW u, u = Append(p, s[k + 1])
    PROVE  Len(u) = k + 1 /\ \A m \in 1 .. k + 1 : u[m] = s[m]
<1>1. Len(u) = k + 1 /\ u[k + 1] = s[k + 1] /\ \A m \in 1 .. k : u[m] = p[m]
  OBVIOUS
<1>2. ASSUME NEW m \in 1 .. k + 1 PROVE u[m] = s[m]
  <2>1. m \in 1 .. k \/ m = k + 1
    OBVIOUS
  <2> QED BY <1>1, <2>1
<1> QED BY <1>1, <1>2

\* The done event comes after every layer.
LEMMA DeliversAll ==
    ASSUME NEW q \in Seq(Events), NEW n, NEW s \in Seq(Layers), NEW d, NEW k, Delivers(q, n, s, d, k),
           NEW e, NEW t, Cuts(q, e, t)
    PROVE  e.ev = "done" => k = Len(s) /\ Delivers(t, n, s, d + 1, k)
<1>1. e.ev = "done" => k = Len(s)
  <2>1. e = q[1] /\ 1 \in 1 .. Len(q)
    BY CutAt
  <2>2. d \in Int /\ k \in 0 .. Len(s) /\ Len(s) \in Nat /\ (k < Len(s) => d <= k)
    BY DEF Delivers
  <2>3. e.ev = "done" => Len(s) < 1 + d
    BY <2>1 DEF Delivers
  <2> QED BY <2>2, <2>3
<1>2. e.ev # "layer" => Delivers(t, n, s, d + 1, k)
  BY DeliversTail, Zenon
<1> QED BY <1>1, <1>2

\* What a client has when the answer has come in full.
LEMMA DeliveredDone ==
    ASSUME Base, NEW c \in Clients, inbox[c] # <<>>, NEW e, e = Head(inbox[c]), e.ev = "done", NEW n, Delivered(c, n)
    PROVE  /\ \A x \in ToSet(ctx[c]) : /\ x.n = n => x.order = sent[c]
                                       /\ x.n # n => x.order = <<>>
           /\ \A i \in ToSet(Tail(inbox[c])) : i.ev # "layer"
<1>0. inbox[c] \in Seq(Events) /\ ctx[c] \in Seq(ScreenContexts)
  BY ClientHas DEF Base
<1>1. PICK s \in Seq(Layers) : s = sent[c]
  BY DEF Delivered
<1>2. PICK d \in Int, k \in Nat : Delivers(inbox[c], n, s, d, k) /\ Begun(ctx[c], n, s, k)
  BY <1>1 DEF Delivered
<1>3. PICK t : t = Tail(inbox[c])
  OBVIOUS
<1>4. Cuts(inbox[c], e, t)
  BY <1>3 DEF Cuts
<1>5. k = Len(s) /\ Delivers(t, n, s, d + 1, k) /\ t \in Seq(Events)
  <2>2. PICK q \in Seq(Events) : q = inbox[c] /\ Cuts(q, e, t) /\ Delivers(q, n, s, d, k)
    BY <1>0, <1>2, <1>4
  <2>3. k = Len(s) /\ Delivers(t, n, s, d + 1, k)
    BY <2>2, DeliversAll
  <2>4. t \in Seq(Events)
    BY <2>2, CutAt
  <2> QED BY <2>3, <2>4
<1>6. ASSUME NEW x \in ToSet(ctx[c]), x.n = n PROVE x.order = s
  <2>1. Len(x.order) = k /\ \A m \in 1 .. k : x.order[m] = s[m]
    BY <1>2, <1>6 DEF Begun
  <2>2. x.order \in Seq(Layers)
    <3>1. x \in ScreenContexts
      BY <1>0, SetOf
    <3> QED BY <3>1 DEF ScreenContexts
  <2>3. PICK p \in Seq(Layers) : p = x.order
    BY <2>2
  <2>4. Len(p) = Len(s) /\ \A m \in 1 .. Len(s) : p[m] = s[m]
    BY <1>5, <2>1, <2>3
  <2>5. p = s
    BY <2>4
  <2> QED BY <2>3, <2>5
<1>7. ASSUME NEW i \in ToSet(t) PROVE i.ev # "layer"
  <2>1. PICK j \in 1 .. Len(t) : i = t[j]
    BY <1>5, SetOf
  <2>2. ~(k < j + (d + 1) /\ j + (d + 1) <= Len(s))
    BY <1>5
  <2> QED BY <1>5, <2>1, <2>2 DEF Delivers
<1> QED BY <1>1, <1>2, <1>3, <1>6, <1>7 DEF Begun

\* An event of a client that waits for layers leaves its call alone unless it
\* is the end of it.
LEMMA HearsWaiting ==
    ASSUME Base, NEW c \in Clients, Exchanges(c), call[c].op = "layers", ReceiveFrame(c),
           NEW e \in Events, e = Head(inbox[c]), NEW reqs \in Seq(Requests), NEW C \in Seq(ScreenContexts),
           NEW k \in Calls, NEW st \in Stages, Received(c, e, reqs, C, k, st)
    PROVE  /\ stage[c] = "on" /\ ToSet(reqs) \cap {Sync} = {}
           /\ e.ev # "done" => k = call[c]
           /\ e.ev = "done" => k = Idle /\ Copied(ctx[c], C, call[c].n)
<1>0. Receives(c, e, reqs, C, k, st) /\ Typed
  BY DEF Received, Base
<1>1. stage[c] = "on" /\ ~Sizing(c)
  BY DEF Exchanges, Idle, Sizing
<1>2. e.ev # "surface"
  <2>1. e \notin SizesTold
    <3>1. e \in ToSet(inbox[c])
      BY <1>0, HeardInbox
    <3> QED BY <1>1, <3>1 DEF Exchanges, NoneOf
  <2> QED BY <2>1 DEF SizesTold
<1>3. ToSet(reqs) \cap {Sync} = {}
  BY <1>1, HearsSync
<1>4. e.ev # "done" => k = call[c]
  <2>1. Request("shot", e.n).op = "shot"
    BY DEF Request
  <2> QED BY <1>0, <1>1, <1>2, <2>1, EventFields DEF Receives
<1>5. e.ev = "done" => k = Idle /\ Copied(ctx[c], C, call[c].n)
  BY <1>0, <1>1 DEF Receives
<1> QED BY <1>1, <1>3, <1>4, <1>5

LEMMA HearsListing ==
    ASSUME Base, NEW c \in Clients, Exchanges(c), Listing(c), Hears(c)
    PROVE  Listing(c)'
<1>0. Typed /\ ReceiveFrame(c) /\ head' = head
  BY DEF Base, Hears, ReceiveFrame
<1>1. PICK e \in Events : e = Head(inbox[c]) /\ ReceiveSays(c, e)
  BY DEF Hears
<1>2. PICK reqs \in Seq(Requests), C \in Seq(ScreenContexts), k \in Calls, st \in Stages :
        Received(c, e, reqs, C, k, st)
  BY <1>1 DEF ReceiveSays
<1>3. /\ call'[c] = k /\ ctx'[c] = C /\ sent'[c] = sent[c] /\ Receives(c, e, reqs, C, k, st)
      /\ ctx[c] \in Seq(ScreenContexts)
  BY <1>0, <1>2 DEF Received, ReceiveFrame, Typed, ClientTypes
<1>4. /\ Cuts(inbox[c], e, inbox'[c]) /\ wire[c] \in Seq(Requests) /\ inbox[c] \in Seq(Events)
      /\ wire'[c] = wire[c] \o reqs /\ ToSet(inbox[c]) = {e} \cup ToSet(inbox'[c])
      /\ ToSet(wire'[c]) = ToSet(wire[c]) \cup ToSet(reqs)
  BY <1>0, <1>1, <1>2, HeardInbox, SentWire DEF Received
<1>5. \A r \in ToSet(reqs) : r.op # "get"
  BY <1>2, HearsSends
<1>6. \A y \in ToSet(C) :
        \/ e.ev = "global" /\ y.n = e.n /\ y.order = <<>>
        \/ \E x \in ToSet(ctx[c]) :
              /\ y.n = x.n
              /\ IF e.ev = "layer" /\ y.n = e.n THEN y.order = Append(x.order, e.layer)
                 ELSE y.order = x.order \/ (e.ev = "done" /\ y.order = <<>>)
  BY <1>0, <1>2, HeardOrders
<1>7. CASE call[c].op = "layers"
  <2>1. PICK n : n = call[c].n
    OBVIOUS
  <2>2. n \in 1 .. Len(head) /\ ~Comes(c, n) /\ (Asked(c, n) \/ Delivered(c, n))
    BY <1>7, <2>1 DEF Listing
  <2>3. /\ ToSet(reqs) \cap {Sync} = {}
        /\ e.ev # "done" => k = call[c]
        /\ e.ev = "done" => k = Idle /\ Copied(ctx[c], C, n)
    BY <1>0, <1>1, <1>2, <1>7, <2>1, HearsWaiting
  <2>4. ~Comes(c, n)' /\ (e.ev = "global" => e.n # n)
    <3>1. e.ev = "global" => e = Event("global", e.n)
      BY EventFields
    <3> QED BY <1>4, <2>2, <3>1 DEF Comes
  <2>5. \A r \in ToSet(reqs) : r.op # "sync"
    <3>1. \A r \in Requests : r.op = "sync" => r = Sync
      BY DEF Requests, Sync
    <3> QED BY <2>3, <3>1, SetOf
  <2>6. ASSUME Asked(c, n) PROVE Asked(c, n)' /\ k = call[c]
    <3>1. e.ev \notin {"layer", "done"}
      BY <1>4, <2>6 DEF Asked
    <3>2. Unordered(C)
      BY <1>6, <2>6, <3>1 DEF Asked, Unordered
    <3>3. Ahead(wire'[c], n)
      BY <1>4, <1>5, <2>5, <2>6, AheadJoin DEF Asked
    <3> QED BY <1>3, <1>4, <2>3, <2>6, <3>1, <3>2, <3>3 DEF Asked
  <2>7. ASSUME Delivered(c, n), e.ev # "done" PROVE Delivered(c, n)'
    <3>1. PICK s \in Seq(Layers) : s = sent[c]
      BY <2>7 DEF Delivered
    <3>2. PICK d \in Int, j \in Nat : Delivers(inbox[c], n, s, d, j) /\ Begun(ctx[c], n, s, j)
      BY <2>7, <3>1 DEF Delivered
    <3>3. /\ e.ev # "layer" => Delivers(inbox'[c], n, s, d + 1, j)
          /\ e.ev = "layer" => /\ j + 1 \in 1 .. Len(s) /\ e = LayerEvent(n, s[j + 1])
                               /\ Delivers(inbox'[c], n, s, d + 1, j + 1)
      BY <1>4, <3>2, DeliversTail
    <3>4. d + 1 \in Int /\ j + 1 \in Nat
      OBVIOUS
    <3>5. \A r \in ToSet(wire'[c]) : r.op # "get"
      BY <1>4, <1>5, <2>7 DEF Delivered
    <3>6. CASE e.ev # "layer"
      <4>1. Begun(C, n, s, j)
        BY <1>6, <2>4, <2>7, <3>2, <3>6 DEF Begun
      <4> QED BY <1>3, <3>1, <3>3, <3>4, <3>5, <3>6, <4>1 DEF Delivered
    <3>7. CASE e.ev = "layer"
      <4>1. e.n = n /\ e.layer = s[j + 1]
        BY <3>3, <3>7 DEF LayerEvent
      <4>2. ASSUME NEW y \in ToSet(C), y.n = n
            PROVE  Len(y.order) = j + 1 /\ \A m \in 1 .. j + 1 : y.order[m] = s[m]
        <5>1. PICK x \in ToSet(ctx[c]) : y.n = x.n /\ y.order = Append(x.order, e.layer)
          BY <1>6, <3>7, <4>1, <4>2
        <5>2. x \in ScreenContexts
          BY <1>3, SetOf
        <5>3. x.order \in Seq(Layers) /\ Len(x.order) = j /\ \A m \in 1 .. j : x.order[m] = s[m]
          BY <3>2, <4>2, <5>1, <5>2 DEF Begun, ScreenContexts
        <5> QED BY <3>3, <3>7, <4>1, <5>1, <5>3, BegunNext
      <4>3. ASSUME NEW y \in ToSet(C), y.n # n PROVE y.order = <<>>
        BY <1>6, <3>2, <3>7, <4>1, <4>3 DEF Begun
      <4>4. Begun(C, n, s, j + 1)
        BY <4>2, <4>3 DEF Begun
      <4> QED BY <1>3, <3>1, <3>3, <3>4, <3>5, <3>7, <4>4 DEF Delivered
    <3> QED BY <3>6, <3>7
  <2>8. ASSUME Delivered(c, n), e.ev = "done" PROVE Unasked(c)' /\ k.op # "layers"
    <3>1. /\ \A x \in ToSet(ctx[c]) : x.n # n => x.order = <<>>
          /\ \A i \in ToSet(inbox'[c]) : i.ev # "layer"
      <4>1. inbox'[c] = Tail(inbox[c]) /\ inbox[c] # <<>>
        BY <1>4 DEF Cuts
      <4> QED BY <1>1, <2>8, <4>1, DeliveredDone
    <3>2. Unordered(C)
      <4>1. ASSUME NEW y \in ToSet(C) PROVE y.order = <<>>
        <5>1. Len(C) = Len(ctx[c]) /\ Copied(ctx[c], C, n)
          BY <2>3, <2>8 DEF Copied, Changed
        <5>2. PICK i \in 1 .. Len(ctx[c]) : y = C[i] /\ ctx[c][i] \in ToSet(ctx[c])
          BY <1>3, <4>1, <5>1, ChangedSet
        <5>3. PICK x \in ScreenContexts : x = ctx[c][i]
          BY <1>3, <5>2, ElementOf
        <5>4. x.n = n => y = [x EXCEPT !.order = <<>>]
          BY <5>1, <5>2, <5>3 DEF Copied
        <5>5. x.n # n => y = x
          BY <5>1, <5>2, <5>3 DEF Copied, Changed
        <5> QED BY <3>1, <5>2, <5>3, <5>4, <5>5 DEF ScreenContexts
      <4> QED BY <4>1 DEF Unordered
    <3>3. \A r \in ToSet(wire'[c]) : r.op # "get"
      BY <1>4, <1>5, <2>8 DEF Delivered
    <3> QED BY <1>3, <2>3, <2>8, <3>1, <3>2, <3>3 DEF Unasked, Idle
  <2>9. CASE k = call[c]
    <3>1. e.ev # "done"
      BY <1>7, <2>3, <2>9 DEF Idle
    <3> QED BY <1>0, <1>3, <1>7, <2>1, <2>2, <2>4, <2>6, <2>7, <2>9, <3>1 DEF Listing
  <2>10. CASE k # call[c]
    BY <1>3, <2>2, <2>3, <2>6, <2>8, <2>10 DEF Listing
  <2> QED BY <2>9, <2>10
<1>8. CASE call[c].op # "layers"
  <2>1. Unasked(c) /\ e.ev # "layer"
    BY <1>4, <1>8 DEF Listing, Unasked
  <2>2. Unordered(C)
    BY <1>6, <2>1 DEF Unasked, Unordered
  <2>3. Unasked(c)'
    BY <1>3, <1>4, <1>5, <2>1, <2>2 DEF Unasked
  <2>4. k.op # "layers"
    <3>1. Request("shot", e.n).op = "shot" /\ Idle.op = "none"
      BY DEF Request, Idle
    <3> QED BY <1>3, <1>8, <3>1, EventFields DEF Receives
  <2> QED BY <1>3, <2>3, <2>4 DEF Listing
<1> QED BY <1>7, <1>8

LEMMA AsksGet ==
    ASSUME NEW c, NEW reqs \in Seq(Requests), NEW k, NEW st, Calling(c, reqs, k, st)
    PROVE  \/ \E x \in ToSet(ctx[c]) : /\ k = Request("layers", x.n) /\ stage[c] = "on"
                                       /\ reqs = <<Request("get", x.n)>> \o <<Sync>>
           \/ k.op # "layers" /\ \A r \in ToSet(reqs) : r.op # "get"
<1>0. Sync \in Requests /\ Sync.op = "sync"
  BY RequestTypes DEF Sync
<1>1. CASE Begins(c, reqs, k, st)
  <2>1. PICK a : a = [op |-> "get_registry"]
    OBVIOUS
  <2>2. reqs = <<a, Sync>>
    BY <1>1, <2>1 DEF Begins
  <2>3. ToSet(reqs) = {a, Sync}
    BY <2>2, SetOfTwo
  <2> QED BY <1>0, <1>1, <2>1, <2>3 DEF Begins, Idle
<1>2. CASE Waits(c, reqs, k, st)
  <2>1. PICK q \in Seq(Requests) :
          /\ reqs = q \o <<Sync>>
          /\ \/ \E x \in ToSet(ctx[c]) : k = Request("layers", x.n) /\ q = <<Request("get", x.n)>>
             \/ k \in {Request("screens", 0), Request("commit", 0)} /\ \A r \in ToSet(q) : r.op = "commit"
    BY <1>2 DEF Waits
  <2>2. CASE \E x \in ToSet(ctx[c]) : k = Request("layers", x.n) /\ q = <<Request("get", x.n)>>
    BY <1>2, <2>1, <2>2 DEF Waits
  <2>3. CASE k \in {Request("screens", 0), Request("commit", 0)} /\ \A r \in ToSet(q) : r.op = "commit"
    <3>1. ToSet(reqs) = ToSet(q) \cup {Sync}
      BY <1>0, <2>1, SetOfMore
    <3>2. \A n : Request("screens", n).op = "screens" /\ Request("commit", n).op = "commit"
      BY DEF Request
    <3>3. k.op # "layers"
      BY <2>3, <3>2
    <3>4. \A r \in ToSet(reqs) : r.op # "get"
      BY <1>0, <2>3, <3>1
    <3> QED BY <3>3, <3>4
  <2> QED BY <2>1, <2>2, <2>3
<1>3. CASE SetsOrder(c, reqs, k, st)
  <2>1. \A r \in ToSet(reqs) : r.op \in {"clear", "add", "remove"}
    BY <1>3, CallSends
  <2> QED BY <1>3, <2>1 DEF SetsOrder, Idle
<1>4. CASE Ends(c, reqs, k, st)
  BY <1>4, SetOfNone DEF Ends, Idle
<1>5. CASE Shoots(c, reqs, k, st)
  <2>1. k.op # "layers"
    BY <1>5 DEF Shoots, Idle, Request
  <2>2. CASE reqs = <<>>
    BY <2>1, <2>2, SetOfNone
  <2>3. CASE \E n \in Nat : reqs = <<[op |-> "screenshot", n |-> n, shot |-> Shot]>>
    <3>1. \A r \in ToSet(reqs) : r.op = "screenshot"
      BY <2>3, SetOfOne
    <3> QED BY <2>1, <3>1
  <2>4. CASE reqs = <<Request("surface_get", Shot)>>
    <3>1. Request("surface_get", Shot).op = "surface_get"
      BY DEF Request
    <3>2. \A r \in ToSet(reqs) : r.op = "surface_get"
      BY <2>4, <3>1, SetOfOne
    <3> QED BY <2>1, <3>2
  <2> QED BY <1>5, <2>2, <2>3, <2>4 DEF Shoots
<1> QED BY <1>1, <1>2, <1>3, <1>4, <1>5 DEF Calling

LEMMA AsksListing ==
    ASSUME Base, NEW c \in Clients, Exchanges(c), Listing(c), c \in listening => \A n : Heard(c, n), Asks(c)
    PROVE  Listing(c)'
<1>0. Typed /\ CallFrame(c) /\ head' = head /\ Registered(c)
  BY DEF Base, Asks, CallFrame
<1>1. PICK reqs \in Seq(Requests), k \in Calls, st \in Stages : CallMade(c, reqs, k, st)
  BY DEF Asks, CallSays
<1>2. call'[c] = k /\ inbox'[c] = inbox[c] /\ ctx'[c] = ctx[c] /\ sent'[c] = sent[c] /\ call[c] = Idle
  BY <1>0, <1>1 DEF CallMade, CallFrame, Typed, ClientTypes
<1>3. /\ wire'[c] = wire[c] \o reqs /\ wire[c] \in Seq(Requests) /\ inbox[c] \in Seq(Events)
      /\ ToSet(wire'[c]) = ToSet(wire[c]) \cup ToSet(reqs)
  BY <1>0, <1>1, SentWire, ClientHas DEF CallMade
<1>4. Unasked(c)
  BY <1>2 DEF Listing, Idle
<1>5. CASE k.op # "layers" /\ \A r \in ToSet(reqs) : r.op # "get"
  <2>1. Unasked(c)'
    BY <1>2, <1>3, <1>4, <1>5 DEF Unasked
  <2> QED BY <1>2, <1>5, <2>1 DEF Listing
<1>6. ASSUME NEW x \in ToSet(ctx[c]), k = Request("layers", x.n), stage[c] = "on",
             reqs = <<Request("get", x.n)>> \o <<Sync>>
      PROVE  Listing(c)'
  <2>1. x \in ScreenContexts /\ x.n \in Nat
    <3>1. ctx[c] \in Seq(ScreenContexts)
      BY <1>0, ClientHas
    <3>2. x \in ScreenContexts
      BY <1>6, <3>1, SetOf
    <3> QED BY <3>2 DEF ScreenContexts
  <2>2. PICK n \in Nat : n = x.n
    BY <2>1
  <2>3. k.op = "layers" /\ k.n = n
    BY <1>6, <2>2 DEF Request
  <2>4. n \in 1 .. Len(head) /\ ~Comes(c, n)
    <3>1. c \in listening
      BY <1>0, <1>6 DEF Registered
    <3>2. Has(c, n) /\ Heard(c, n)
      BY <1>6, <2>2, <3>1 DEF Has
    <3> QED BY <3>2 DEF Heard
  <2>5. ~Comes(c, n)'
    BY <1>2, <2>4 DEF Comes
  <2>6. NoneOf(wire[c], inbox[c], {Sync}, {Done})
    <3>1. ~Syncing(c)
      BY <1>2, <1>6 DEF Syncing, Idle
    <3> QED BY <3>1 DEF Exchanges
  <2>7. \A r \in ToSet(wire[c]) : r.op \notin {"get", "sync"}
    <3>1. \A r \in Requests : r.op = "sync" => r = Sync
      BY DEF Requests, Sync
    <3>2. ToSet(wire[c]) \subseteq Requests
      BY <1>3, SetOf
    <3> QED BY <1>4, <2>6, <3>1, <3>2 DEF Unasked, NoneOf
  <2>8. \A e \in ToSet(inbox[c]) : e.ev \notin {"layer", "done"}
    <3>1. \A e \in Events : e.ev = "done" => e = Done
      BY EventFields DEF Done
    <3>2. ToSet(inbox[c]) \subseteq Events
      BY <1>3, SetOf
    <3> QED BY <1>4, <2>6, <3>1, <3>2 DEF Unasked, NoneOf
  <2>9. Ahead(wire'[c], n)
    <3>1. PICK r \in Requests : r = Request("get", n)
      BY RequestTypes
    <3>2. PICK s \in Requests : s = Sync
      BY RequestTypes DEF Sync
    <3>3. <<r>> \o <<s>> = <<r, s>>
      BY PairOf
    <3>4. reqs = <<r, Sync>>
      BY <1>6, <2>2, <3>1, <3>2, <3>3
    <3> QED BY <1>3, <2>7, <3>1, <3>4, AheadNew
  <2>10. Asked(c, n)'
    BY <1>2, <1>4, <2>8, <2>9 DEF Asked, Unasked
  <2> QED BY <1>0, <1>2, <2>3, <2>4, <2>5, <2>10 DEF Listing
<1> QED BY <1>1, <1>5, <1>6, AsksGet DEF CallMade

\* Every client has heard of its screens, waits for what is on its way, and
\* is told the layers it asks for in their order.
Listings == HeardAll /\ \A c \in Clients : Exchanges(c) /\ Listing(c)

LEMMA ListingsInit == ShotsInit => Listings
<1>1. ASSUME ShotsInit, NEW c \in Clients PROVE Exchanges(c) /\ Listing(c)
  <2>1. wire[c] = <<>> /\ inbox[c] = <<>> /\ ctx[c] = <<>> /\ call[c] = Idle
    BY <1>1 DEF ShotsInit, Init
  <2>2. \A X, Y : OneOf(wire[c], inbox[c], X, Y) /\ NoneOf(wire[c], inbox[c], X, Y)
    BY <2>1, SetOfNone, OnceNone DEF OneOf, NoneOf
  <2>3. Unasked(c)
    BY <2>1, SetOfNone DEF Unasked, Unordered
  <2> QED BY <2>1, <2>2, <2>3 DEF Exchanges, Listing, Idle
<1> QED BY <1>1, HeardInit DEF Listings

LEMMA ListingsStep == Listings /\ [Next]_vars => Listings'
<1> SUFFICES ASSUME Listings, [Next]_vars PROVE Listings'
  OBVIOUS
<1>1. HeardAll /\ HeardAll' /\ Base
  BY HeardStep DEF Listings, HeardAll
<1>2. ASSUME NEW c \in Clients PROVE Exchanges(c)' /\ Listing(c)'
  <2>1. Exchanges(c) /\ Listing(c) /\ (c \in listening => \A n : Heard(c, n))
    BY <1>1 DEF Listings, HeardAll
  <2>2. CASE Serves(c)
    BY <1>1, <2>1, <2>2, ServesExchange, ServesListing
  <2>3. CASE Hears(c)
    BY <1>1, <2>1, <2>3, HearsExchange, HearsListing
  <2>4. CASE Asks(c)
    BY <1>1, <2>1, <2>4, AsksExchange, AsksListing
  <2>5. CASE Idles(c) \/ Appears(c) \/ Vanishes(c) \/ Resizes(c) \/ Leaves(c) \/ Answers(c)
    BY <1>1, <2>1, <2>5, OthersExchange, OthersListing
  <2> QED BY <1>1, <2>2, <2>3, <2>4, <2>5, StepCases
<1> QED BY <1>1, <1>2 DEF Listings

\* The call returns when the roundtrip is done, and by then has every layer.
LEMMA ListingAnswered ==
    ASSUME Listings, [Next]_vars, NEW c \in Clients, call[c].op = "layers", call'[c] = Idle, stage'[c] = "on"
    PROVE  IF Freed(c) THEN call[c].n \notin screens
           ELSE \A i \in DOMAIN ctx[c] : ctx[c][i].n = call[c].n => ctx[c][i].order = sent[c]
<1>0. Base /\ Typed /\ Exchanges(c) /\ Listing(c)
  BY DEF Listings, HeardAll, Base
<1>1. call'[c] # call[c]
  BY DEF Idle
<1>2. Hears(c)
  <2>1. ~Asks(c)
    BY DEF Asks, CallFrame, Idle
  <2>2. ~Serves(c)
    BY <1>1 DEF Serves, Served
  <2> QED BY <1>0, <1>1, <2>1, <2>2, StepCases DEF Idles, Appears, Vanishes, Resizes, Leaves, Answers, SameClient
<1>3. PICK e \in Events : e = Head(inbox[c]) /\ ReceiveSays(c, e) /\ ReceiveFrame(c)
  BY <1>2 DEF Hears
<1>4. PICK reqs \in Seq(Requests), C \in Seq(ScreenContexts), k \in Calls, st \in Stages :
        Received(c, e, reqs, C, k, st)
  BY <1>3 DEF ReceiveSays
<1>5. call'[c] = k
  BY <1>0, <1>4 DEF Received, Typed, ClientTypes
<1>6. e.ev = "done"
  BY <1>0, <1>1, <1>3, <1>4, <1>5, HearsWaiting
<1>7. inbox[c] # <<>> /\ e \in ToSet(inbox[c])
  BY <1>0, <1>3, HeardInbox DEF ReceiveFrame
<1>8. Delivered(c, call[c].n)
  BY <1>0, <1>6, <1>7 DEF Listing, Asked
<1>9. \A x \in ToSet(ctx[c]) : x.n = call[c].n => x.order = sent[c]
  BY <1>0, <1>3, <1>6, <1>7, <1>8, DeliveredDone
<1>10. \A i \in DOMAIN ctx[c] : ctx[c][i] \in ToSet(ctx[c])
  BY DEF ToSet
<1>11. ASSUME Freed(c) PROVE call[c].n \notin screens
  <2>1. ~Comes(c, call[c].n)
    BY <1>0 DEF Listing
  <2>2. ~Has(c, call[c].n)
    <3>1. ctx[c] \in Seq(ScreenContexts)
      BY <1>0, ClientHas
    <3> QED BY <1>11, <3>1, SetOf DEF Has, Freed
  <2>3. Heard(c, call[c].n)
    <3>1. c \in listening
      BY <1>0, <1>7 DEF Base, Registered
    <3> QED BY <3>1 DEF Listings, HeardAll
  <2> QED BY <2>1, <2>2, <2>3 DEF Heard
<1> QED BY <1>9, <1>10, <1>11

\* ilm_getLayerIDsOnScreen answers with the render order its screen had when
\* the compositor saw the request, and with nothing of earlier answers, unless
\* the context of the screen was freed while the call waited, and then its
\* output is gone (controller_screen_get, wm_screen_listener_layer_added,
\* registry_handle_control_remove, create_layerids).
THEOREM LayersAlwaysAnswered == Spec => LayersAnswered
<1>1. ShotsInit => Listings
  BY ListingsInit
<1>2. Listings /\ [Next]_vars => Listings'
  BY ListingsStep
<1>3. Listings /\ [Next]_vars =>
        [\A c \in Clients : call[c].op = "layers" /\ call'[c] = Idle /\ stage'[c] = "on" =>
           IF Freed(c) THEN call[c].n \notin screens
           ELSE \A i \in DOMAIN ctx[c] : ctx[c][i].n = call[c].n => ctx[c][i].order = sent[c]]_screenVars
  BY ListingAnswered
<1> QED BY <1>1, <1>2, <1>3, PTL DEF Spec, LayersAnswered

=============================================================================
