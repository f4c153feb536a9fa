--------------------------- MODULE FramingProofs ---------------------------
(***************************************************************************)
(* What is proved about Framing, for every set of frames, every buffer and *)
(* every number of frames and replies: the type invariant, that what the   *)
(* server writes is framed, and that the machine reads the frames that     *)
(* were sent, as FrameReader says.                                         *)
(***************************************************************************)
EXTENDS Framing, SequencesExt, SequenceTheorems, FiniteSetTheorems, TLAPS

-----------------------------------------------------------------------------
(* Sequences.                                                              *)

\* A message is added at the end, and the others keep their places.
LEMMA AppendFacts ==
  ASSUME NEW S, NEW s \in Seq(S), NEW e \in S
  PROVE  /\ Append(s, e) \in Seq(S)
         /\ Len(s) \in Nat /\ Len(Append(s, e)) = Len(s) + 1
         /\ DOMAIN s = 1..Len(s) /\ DOMAIN Append(s, e) = 1..(Len(s) + 1)
         /\ \A i \in 1..Len(s) : Append(s, e)[i] = s[i]
         /\ Append(s, e)[Len(s) + 1] = e
BY AppendProperties, LenProperties

\* The head is removed, and the others move up by one.
LEMMA TailFacts ==
  ASSUME NEW S, NEW s \in Seq(S), s # << >>
  PROVE  /\ Tail(s) \in Seq(S)
         /\ Len(s) \in Nat \ {0} /\ Len(Tail(s)) = Len(s) - 1
         /\ DOMAIN s = 1..Len(s) /\ DOMAIN Tail(s) = 1..(Len(s) - 1)
         /\ \A i \in 1..(Len(s) - 1) : Tail(s)[i] = s[i + 1]
         /\ Head(s) = s[1] /\ s[1] \in S
BY HeadTailProperties, LenProperties, EmptySeq

\* The last element is removed, and the others keep their places.
LEMMA FrontElements ==
  ASSUME NEW S, NEW s \in Seq(S), s # << >>
  PROVE  /\ Front(s) \in Seq(S)
         /\ Len(s) \in Nat \ {0} /\ Len(Front(s)) = Len(s) - 1
         /\ DOMAIN s = 1..Len(s) /\ DOMAIN Front(s) = 1..(Len(s) - 1)
         /\ \A f \in 1..(Len(s) - 1) : Front(s)[f] = s[f]
<1> DEFINE n == Len(s)
           front == SubSeq(s, 1, n - 1)
<1>1. n \in Nat \ {0} /\ DOMAIN s = 1..n /\ \A f \in 1..(n - 1) : s[f] \in S
  BY LenProperties, EmptySeq, ElementOfSeq
<1>2. /\ front \in Seq(S) /\ Len(front) = n - 1
      /\ \A f \in 1..(n - 1) : front[f] = s[f]
  <2> HIDE DEF n
  <2>1. /\ front \in Seq(S)
        /\ Len(front) = IF 1 <= n - 1 THEN (n - 1) - 1 + 1 ELSE 0
        /\ \A f \in 1..((n - 1) - 1 + 1) : front[f] = s[1 + f - 1]
    BY <1>1, SubSeqProperties
  <2> HIDE DEF front
  <2>2. (n - 1) - 1 + 1 = n - 1 /\ (~(1 <= n - 1) => n - 1 = 0)
    BY <1>1
  <2>3. \A f \in 1..(n - 1) : 1 + f - 1 = f
    OBVIOUS
  <2> QED BY <1>1, <2>1, <2>2, <2>3
<1>3. Front(s) = front
  BY DEF Front
<1> HIDE DEF front
<1>4. DOMAIN front = 1..(n - 1)
  BY <1>2, LenProperties
<1> QED BY <1>1, <1>2, <1>3, <1>4

\* Induction up to n, over a set: a finite set that a shift by one maps into
\* itself has no least element to spare.
LEMMA Climb ==
  ASSUME NEW n \in Nat, NEW S, 0 \in S, \A k \in 0..(n - 1) : k \in S => k + 1 \in S
  PROVE  0..n \subseteq S
<1> DEFINE T == {k \in 0..n : k \notin S}
<1> SUFFICES ASSUME T # {} PROVE FALSE
  OBVIOUS
<1>1. IsFiniteSet(T) /\ IsFiniteSet(0..n)
  <2>1. IsFiniteSet(0..n)
    BY FS_Interval
  <2> QED BY <2>1, FS_Subset
<1>2. \A k \in T : k \in 1..n /\ k - 1 \in T
  <2> TAKE k \in T
  <2>1. k \in 0..n /\ k # 0
    OBVIOUS
  <2>2. k - 1 \in 0..(n - 1) /\ (k - 1) + 1 = k
    BY <2>1
  <2> QED BY <2>1, <2>2
<1>3. \A k \in T : k + 1 \in T
  <2> DEFINE down == [k \in T |-> k - 1]
  <2>1. down \in Injection(T, T)
    <3>1. \A i, j \in T : i - 1 = j - 1 => i = j
      BY <1>2
    <3> QED BY <1>2, <3>1 DEF Injection, IsInjective
  <2>2. down \in Surjection(T, T)
    BY <1>1, <2>1, FS_Injection
  <2>3. \A k \in T : \E j \in T : k = j - 1
    BY <2>2 DEF Surjection
  <2> QED BY <1>2, <2>3
<1> DEFINE D == {k \in 0..n : \E t \in T : k <= t}
           up == [k \in D |-> k + 1]
<1>4. \A k \in D : k + 1 \in D
  <2> SUFFICES ASSUME NEW k \in D PROVE k + 1 \in D
    OBVIOUS
  <2>1. PICK t \in T : k <= t
    OBVIOUS
  <2>2. t + 1 \in T /\ k + 1 <= t + 1
    BY <1>2, <1>3, <2>1
  <2> QED BY <1>2, <2>2
<1>5. 0 \in D
  BY <1>2
<1>6. IsFiniteSet(D)
  BY <1>1, FS_Subset
<1>7. up \in Injection(D, D)
  BY <1>4 DEF Injection, IsInjective
<1>8. up \in Surjection(D, D)
  BY <1>6, <1>7, FS_Injection
<1>9. \E k \in D : k + 1 = 0
  BY <1>5, <1>8 DEF Surjection
<1> QED BY <1>9

-----------------------------------------------------------------------------
(* Recursive functions up to n, as the operators on sequences are written. *)

Iterates(g, n, b, f) == g[0] = b /\ \A k \in 1..n : g[k] = f[k][g[k - 1]]

LEMMA Recursion ==
  ASSUME NEW S, NEW b \in S, NEW n \in Nat, NEW f \in [1..n -> [S -> S]]
  PROVE  \E g \in [0..n -> S] : Iterates(g, n, b, f)
<1> DEFINE IsRunTo(g, m) ==
             g \in [0..m -> S] /\ g[0] = b /\ \A k \in 1..m : g[k] = f[k][g[k - 1]]
           T == {m \in 0..n : \E g : IsRunTo(g, m)}
<1>1. 0 \in T
  <2> DEFINE g == [k \in 0..0 |-> b]
  <2>1. IsRunTo(g, 0)
    OBVIOUS
  <2> HIDE DEF g
  <2>2. 0 \in 0..n /\ \E h : IsRunTo(h, 0)
    BY <2>1
  <2> QED BY <2>2
<1>2. ASSUME NEW m \in 0..(n - 1), m \in T
      PROVE  m + 1 \in T
  <2>1. PICK g : IsRunTo(g, m)
    BY <1>2
  <2> DEFINE h == [k \in 0..(m + 1) |-> IF k = m + 1 THEN f[m + 1][g[m]] ELSE g[k]]
  <2>2. m \in Nat /\ m + 1 \in 0..n /\ m + 1 \in 1..n /\ g[m] \in S
    BY <2>1
  <2>3. f[m + 1][g[m]] \in S
    BY <2>2
  <2>4. h \in [0..(m + 1) -> S] /\ h[0] = b
    BY <2>1, <2>2, <2>3
  <2>5. ASSUME NEW k \in 1..(m + 1)
        PROVE  h[k] = f[k][h[k - 1]]
    <3>1. CASE k = m + 1
      <4>1. h[k - 1] = g[m] /\ h[k] = f[m + 1][g[m]]
        BY <2>2, <3>1
      <4> HIDE DEF h
      <4> QED BY <3>1, <4>1
    <3>2. CASE k # m + 1
      <4>1. k \in 1..m /\ h[k] = g[k] /\ h[k - 1] = g[k - 1]
        BY <2>2, <3>2
      <4>2. g[k] = f[k][g[k - 1]]
        BY <2>1, <4>1
      <4> HIDE DEF h
      <4> QED BY <4>1, <4>2
    <3> QED BY <3>1, <3>2
  <2> HIDE DEF h
  <2>6. IsRunTo(h, m + 1)
    BY <2>4, <2>5
  <2> QED BY <2>2, <2>6
<1> HIDE DEF T
<1>3. n \in T
  <2>1. 0..n \subseteq T
    BY <1>1, <1>2, Climb
  <2> QED BY <2>1
<1> QED BY <1>3 DEF T, Iterates

\* The bytes of no runs, and of one run more.
IsSum(g, runs) ==
  g = [k \in 0..Len(runs) |-> IF k = 0 THEN 0 ELSE g[k - 1] + runs[k].n]

LEMMA TotalSum ==
  ASSUME NEW S, \A x \in S : x.n \in Nat, NEW runs \in Seq(S)
  PROVE  \E g : /\ g \in [0..Len(runs) -> Nat] /\ Total(runs) = g[Len(runs)] /\ g[0] = 0
                /\ \A k \in 1..Len(runs) : g[k] = g[k - 1] + runs[k].n
<1> DEFINE n == Len(runs)
           f == [k \in 1..n |-> [v \in Nat |-> v + runs[k].n]]
           g == CHOOSE g : IsSum(g, runs)
<1>1. n \in Nat /\ \A k \in 1..n : runs[k].n \in Nat
  BY LenProperties, ElementOfSeq
<1>2. \E h : IsSum(h, runs)
  <2>1. \A k \in 1..n, v \in Nat : f[k][v] = v + runs[k].n /\ f[k][v] \in Nat
    BY <1>1
  <2> HIDE DEF f
  <2>2. PICK h \in [0..n -> Nat] : h[0] = 0 /\ \A k \in 1..n : h[k] = f[k][h[k - 1]]
    <3>1. f \in [1..n -> [Nat -> Nat]]
      BY <1>1 DEF f
    <3> HIDE DEF n
    <3>2. \E h \in [0..n -> Nat] : Iterates(h, n, 0, f)
      BY <1>1, <3>1, Recursion
    <3> QED BY <3>2 DEF Iterates
  <2>3. \A k \in 0..n : k # 0 => k \in 1..n /\ h[k - 1] \in Nat
    BY <1>1
  <2>4. \A k \in 0..n : h[k] = IF k = 0 THEN 0 ELSE h[k - 1] + runs[k].n
    BY <2>1, <2>2, <2>3
  <2> HIDE DEF n
  <2>5. h = [k \in 0..n |-> IF k = 0 THEN 0 ELSE h[k - 1] + runs[k].n]
    BY <2>4
  <2> QED BY <2>5 DEF IsSum, n
<1>3. IsSum(g, runs)
  BY <1>2
<1>4. Total(runs) = g[n]
  BY DEF Total, IsSum
<1> HIDE DEF g
<1>5. /\ DOMAIN g = 0..n /\ g[0] = 0 /\ \A k \in 1..n : g[k] = g[k - 1] + runs[k].n
      /\ g = [k \in 0..n |-> g[k]]
  BY <1>1, <1>3 DEF IsSum
<1> DEFINE T == {k \in 0..n : g[k] \in Nat}
<1>6. 0..n \subseteq T
  <2>1. 0 \in T
    BY <1>1, <1>5
  <2>2. ASSUME NEW k \in 0..(n - 1), k \in T PROVE k + 1 \in T
    <3>1. k + 1 \in 1..n /\ (k + 1) - 1 = k /\ g[k] \in Nat
      BY <1>1, <2>2
    <3>2. runs[k + 1].n \in Nat /\ g[k + 1] = g[k] + runs[k + 1].n
      BY <1>1, <1>5, <3>1
    <3> QED BY <1>1, <3>1, <3>2
  <2> HIDE DEF T, n
  <2> QED BY <1>1, <2>1, <2>2, Climb
<1> QED BY <1>4, <1>5, <1>6

LEMMA TotalFacts ==
  ASSUME NEW S, \A x \in S : x.n \in Nat, NEW runs \in Seq(S)
  PROVE  /\ Total(runs) \in Nat
         /\ Total(<< >>) = 0
         /\ \A run \in S : Total(Append(runs, run)) = Total(runs) + run.n
<1>1. Total(runs) \in Nat
  BY TotalSum, LenProperties
<1>2. Total(<< >>) = 0
  <2>1. << >> \in Seq(S) /\ Len(<< >>) = 0
    BY EmptySeq
  <2> QED BY <2>1, TotalSum
<1>3. ASSUME NEW run \in S
      PROVE  Total(Append(runs, run)) = Total(runs) + run.n
  <2> DEFINE more == Append(runs, run)
             n == Len(runs)
  <2>1. /\ more \in Seq(S) /\ Len(more) = n + 1 /\ n \in Nat
        /\ \A k \in 1..n : more[k] = runs[k]
        /\ more[n + 1] = run
    BY AppendFacts
  <2> HIDE DEF more
  <2>2. PICK g : /\ g \in [0..n -> Nat] /\ Total(runs) = g[n] /\ g[0] = 0
                 /\ \A k \in 1..n : g[k] = g[k - 1] + runs[k].n
    BY TotalSum
  <2>3. PICK h : /\ h \in [0..(n + 1) -> Nat] /\ Total(more) = h[n + 1] /\ h[0] = 0
                 /\ \A k \in 1..(n + 1) : h[k] = h[k - 1] + more[k].n
    <3> HIDE DEF n
    <3>1. more \in Seq(S)
      BY <2>1
    <3>2. \E h : /\ h \in [0..Len(more) -> Nat] /\ Total(more) = h[Len(more)] /\ h[0] = 0
                 /\ \A k \in 1..Len(more) : h[k] = h[k - 1] + more[k].n
      BY <3>1, TotalSum
    <3> QED BY <2>1, <3>2
  <2> HIDE DEF n
  <2> DEFINE T == {k \in 0..n : g[k] = h[k]}
  <2>4. 0..n \subseteq T
    <3>1. 0 \in T
      BY <2>1, <2>2, <2>3
    <3>2. ASSUME NEW k \in 0..(n - 1), k \in T PROVE k + 1 \in T
      <4>1. k + 1 \in 1..n /\ k + 1 \in 1..(n + 1) /\ (k + 1) - 1 = k /\ k + 1 \in 0..n
        BY <2>1
      <4>2. g[k + 1] = g[k] + runs[k + 1].n /\ h[k + 1] = h[k] + more[k + 1].n
        BY <2>2, <2>3, <4>1
      <4> QED BY <2>1, <3>2, <4>1, <4>2
    <3> HIDE DEF T
    <3> QED BY <2>1, <3>1, <3>2, Climb
  <2>5. g[n] = h[n]
    BY <2>1, <2>4
  <2>6. h[n + 1] = h[n] + run.n
    BY <2>1, <2>3
  <2> QED BY <2>2, <2>3, <2>5, <2>6 DEF more
<1> QED BY <1>1, <1>2, <1>3

-----------------------------------------------------------------------------
(* The bytes of a length.                                                  *)

IsShift(g, len) == g = [i \in 0..8 |-> IF i = 0 THEN len ELSE g[i - 1] \div 256]

\* A length less one byte after the other, from the lowest on.
LEMMA ShiftedFacts ==
  ASSUME NEW len \in Nat
  PROVE  /\ Shifted(len) \in [0..8 -> Nat] /\ Shifted(len)[0] = len
         /\ \A i \in 1..8 : Shifted(len)[i] = Shifted(len)[i - 1] \div 256
<1> DEFINE f == [k \in 1..8 |-> [v \in Nat |-> v \div 256]]
           g == CHOOSE g : IsShift(g, len)
<1>1. \E h : IsShift(h, len)
  <2>1. \A k \in 1..8, v \in Nat : f[k][v] = v \div 256
    OBVIOUS
  <2>2. PICK h \in [0..8 -> Nat] : h[0] = len /\ \A k \in 1..8 : h[k] = f[k][h[k - 1]]
    <3>1. f \in [1..8 -> [Nat -> Nat]]
      OBVIOUS
    <3> DEFINE n == 8
    <3> HIDE DEF f, n
    <3>2. n \in Nat /\ f \in [1..n -> [Nat -> Nat]]
      BY <3>1 DEF n
    <3>3. \E h \in [0..n -> Nat] : Iterates(h, n, len, f)
      BY <3>2, Recursion
    <3> QED BY <3>3 DEF Iterates, n
  <2> HIDE DEF f
  <2>3. \A k \in 0..8 : h[k] = IF k = 0 THEN len ELSE h[k - 1] \div 256
    <3>1. \A k \in 0..8 : k # 0 => k \in 1..8 /\ h[k - 1] \in Nat
      OBVIOUS
    <3> QED BY <2>1, <2>2, <3>1
  <2>4. h = [k \in 0..8 |-> IF k = 0 THEN len ELSE h[k - 1] \div 256]
    BY <2>3
  <2> QED BY <2>4 DEF IsShift
<1>2. IsShift(g, len)
  BY <1>1
<1>3. Shifted(len) = g
  BY DEF Shifted, IsShift
<1> HIDE DEF g
<1>4. /\ DOMAIN g = 0..8 /\ g[0] = len /\ \A i \in 1..8 : g[i] = g[i - 1] \div 256
      /\ g = [i \in 0..8 |-> g[i]]
  BY <1>2 DEF IsShift
<1> DEFINE T == {i \in 0..8 : g[i] \in Nat}
<1>5. 0..8 \subseteq T
  <2> DEFINE n == 8
  <2>1. 0 \in T
    BY <1>4
  <2>2. ASSUME NEW k \in 0..(n - 1), k \in T PROVE k + 1 \in T
    <3>1. k + 1 \in 1..8 /\ (k + 1) - 1 = k /\ g[k] \in Nat
      BY <2>2
    <3>2. g[k + 1] = g[k] \div 256
      BY <1>4, <3>1
    <3> QED BY <3>1, <3>2
  <2>3. n \in Nat
    OBVIOUS
  <2> HIDE DEF T, n
  <2>4. 0..n \subseteq T
    BY <2>1, <2>2, <2>3, Climb
  <2> QED BY <2>4 DEF n
<1> QED BY <1>3, <1>4, <1>5

Octet == 0..255
High(n) == n \div 256
Low(n) == n % 256
Join(high, low) == 256 * high + low

\* A byte brings back what the shift took.
LEMMA ShiftedBack ==
  ASSUME NEW len \in Nat
  PROVE  \A i \in 1..8 : /\ Shifted(len)[i - 1] \in Nat /\ Shifted(len)[i] \in Nat
                         /\ Shifted(len)[i] = High(Shifted(len)[i - 1])
                         /\ Low(Shifted(len)[i - 1]) \in Octet
                         /\ Join(Shifted(len)[i], Low(Shifted(len)[i - 1]))
                              = Shifted(len)[i - 1]
<1> DEFINE s == Shifted(len)
<1>1. s \in [0..8 -> Nat] /\ \A i \in 1..8 : s[i] = s[i - 1] \div 256
  BY ShiftedFacts
<1> HIDE DEF s
<1>2. ASSUME NEW n \in Nat
      PROVE  Low(n) \in Octet /\ Join(High(n), Low(n)) = n
  BY DEF High, Low, Join, Octet
<1>3. ASSUME NEW i \in 1..8
      PROVE  /\ s[i - 1] \in Nat /\ s[i] \in Nat /\ s[i] = High(s[i - 1])
             /\ Low(s[i - 1]) \in Octet
             /\ Join(s[i], Low(s[i - 1])) = s[i - 1]
  <2>1. s[i - 1] \in Nat /\ s[i] \in Nat
    BY <1>1
  <2>2. s[i] = High(s[i - 1])
    BY <1>1 DEF High
  <2> QED BY <1>2, <2>1, <2>2
<1> QED BY <1>3 DEF s

\* Short lengths leave nothing, and shorter ones less than longer ones.
LEMMA ShiftedSmall ==
  ASSUME NEW len \in Nat, len <= 65535
  PROVE  Shifted(len)[2] = 0
<1> DEFINE s == Shifted(len)
<1>1. s[0] = len /\ s[1] = s[0] \div 256 /\ s[2] = s[1] \div 256
  <2>1. 1 \in 1..8 /\ 2 \in 1..8 /\ 1 - 1 = 0 /\ 2 - 1 = 1
    OBVIOUS
  <2> QED BY <2>1, ShiftedFacts
<1> HIDE DEF s
<1>2. s[1] < 256 /\ s[1] \in Nat
  BY <1>1
<1>3. s[2] = 0
  BY <1>1, <1>2
<1> QED BY <1>3 DEF s

LEMMA ShiftedLess ==
  ASSUME NEW long \in Nat, Shifted(long)[7] < 128, NEW len \in 0..long
  PROVE  Shifted(len)[7] < 128 /\ Shifted(len)[8] = 0
<1> DEFINE s == Shifted(len)
           t == Shifted(long)
           T == {i \in 0..8 : s[i] <= t[i]}
           n == 8
<1>1. /\ s \in [0..8 -> Nat] /\ s[0] = len /\ t \in [0..8 -> Nat] /\ t[0] = long
      /\ \A i \in 1..8 : s[i] = s[i - 1] \div 256
      /\ \A i \in 1..8 : t[i] = t[i - 1] \div 256
  BY ShiftedFacts
<1>2. t[7] < 128
  OBVIOUS
<1> HIDE DEF s, t
<1>3. 0..8 \subseteq T
  <2>1. 0 \in T /\ n \in Nat
    BY <1>1
  <2>2. ASSUME NEW i \in 0..(n - 1), i \in T PROVE i + 1 \in T
    <3>1. i + 1 \in 1..8 /\ i + 1 \in 0..8 /\ (i + 1) - 1 = i /\ s[i] <= t[i]
      BY <2>2
    <3>2. s[i] \in Nat /\ t[i] \in Nat
      BY <1>1
    <3>3. s[i] \div 256 <= t[i] \div 256
      BY <3>1, <3>2
    <3>4. s[i + 1] = s[i] \div 256 /\ t[i + 1] = t[i] \div 256
      BY <1>1, <3>1
    <3> QED BY <3>1, <3>3, <3>4
  <2> HIDE DEF T, n
  <2>3. 0..n \subseteq T
    BY <2>1, <2>2, Climb
  <2> QED BY <2>3 DEF n
<1>4. s[7] <= t[7] /\ s[7] \in Nat /\ t[7] \in Nat
  BY <1>1, <1>3
<1>5. s[7] < 128
  BY <1>2, <1>4
<1>6. s[8] = s[7] \div 256
  BY <1>1
<1>7. s[8] = 0
  BY <1>4, <1>5, <1>6
<1> QED BY <1>5, <1>7 DEF s

LEMMA LenIs ==
  ASSUME NEW S, NEW s \in Seq(S), NEW n \in Nat, DOMAIN s = 1..n
  PROVE  Len(s) = n
<1>1. DOMAIN s = 1..Len(s) /\ Len(s) \in Nat
  BY LenProperties
<1> QED BY <1>1

LEMMA OctetsFacts ==
  ASSUME NEW len \in Nat, NEW count \in 0..8
  PROVE  /\ Octets(len, count) \in Seq(Octet) /\ Len(Octets(len, count)) = count
         /\ \A i \in 1..count : Octets(len, count)[i] = Low(Shifted(len)[count - i])
<1> DEFINE s == Shifted(len)
           octets == Octets(len, count)
<1>1. \A i \in 1..count : Low(s[count - i]) \in Octet
  <2>1. \A i \in 1..count : count - i + 1 \in 1..8 /\ (count - i + 1) - 1 = count - i
    OBVIOUS
  <2> QED BY <2>1, ShiftedBack
<1> HIDE DEF s
<1>2. octets = [i \in 1..count |-> Low(s[count - i])]
  BY DEF Octets, Low, s
<1> HIDE DEF octets
<1>3. octets \in [1..count -> Octet]
  BY <1>1, <1>2
<1>4. count \in Nat
  OBVIOUS
<1>5. octets \in Seq(Octet)
  BY <1>3, <1>4, SeqDef
<1>6. Len(octets) = count
  <2>1. DOMAIN octets = 1..count
    BY <1>3
  <2> QED BY <1>4, <1>5, <2>1, LenIs
<1> QED BY <1>2, <1>5, <1>6 DEF s, octets

IsNumber(g, octets) ==
  g = [k \in 0..Len(octets) |-> IF k = 0 THEN 0 ELSE Join(g[k - 1], octets[k])]

AreOctets(octets, len, count) ==
  Len(octets) = count /\ \A i \in 1..count : octets[i] = Low(Shifted(len)[count - i])

\* The bytes of a length are read back as the length, if it has no more of them.
LEMMA NumberOfOctets ==
  ASSUME NEW len \in Nat, NEW count \in 0..8, Shifted(len)[count] = 0,
         NEW octets, AreOctets(octets, len, count)
  PROVE  Number(octets) = len
<1> DEFINE s == Shifted(len)
           g == CHOOSE g : IsNumber(g, octets)
<1>1. s[0] = len
  BY ShiftedFacts
<1>2. \A i \in 1..8 : Join(s[i], Low(s[i - 1])) = s[i - 1]
  BY ShiftedBack
<1>3. /\ s[count] = 0 /\ Len(octets) = count
      /\ \A i \in 1..count : octets[i] = Low(s[count - i])
  BY DEF AreOctets
<1> HIDE DEF s
<1>4. \A k \in 0..count : k # 0 =>
        /\ k \in 1..count /\ k - 1 \in 0..count
        /\ count - (k - 1) \in 1..8 /\ (count - (k - 1)) - 1 = count - k
  OBVIOUS
<1>5. IsNumber([k \in 0..count |-> s[count - k]], octets)
  <2> DEFINE h == [k \in 0..count |-> s[count - k]]
             at(k) == IF k = 0 THEN 0 ELSE Join(h[k - 1], octets[k])
  <2>1. \A k \in 0..count : h[k] = s[count - k]
    OBVIOUS
  <2>2. h = [k \in 0..count |-> h[k]]
    OBVIOUS
  <2> HIDE DEF h
  <2>3. ASSUME NEW k \in 0..count PROVE h[k] = at(k)
    <3>1. CASE k = 0
      BY <1>3, <2>1, <3>1
    <3>2. CASE k # 0
      <4>1. h[k - 1] = s[count - (k - 1)] /\ h[k] = s[count - k]
        BY <1>4, <2>1, <3>2
      <4>2. octets[k] = Low(s[count - k])
        BY <1>3, <1>4, <3>2
      <4>3. Join(s[count - (k - 1)], Low(s[count - k])) = s[count - k]
        <5> DEFINE i == count - (k - 1)
        <5>1. i \in 1..8 /\ i - 1 = count - k
          BY <1>4, <3>2
        <5> HIDE DEF i
        <5>2. Join(s[i], Low(s[i - 1])) = s[i - 1]
          BY <1>2, <5>1
        <5> QED BY <5>1, <5>2 DEF i
      <4> QED BY <3>2, <4>1, <4>2, <4>3
    <3> QED BY <3>1, <3>2
  <2>4. h = [k \in 0..count |-> at(k)]
    <3> HIDE DEF at
    <3> QED BY <2>2, <2>3
  <2>5. IsNumber(h, octets)
    BY <1>3, <2>4 DEF IsNumber
  <2> QED BY <2>5 DEF h
<1>6. IsNumber(g, octets)
  BY <1>5
<1>7. Number(octets) = g[count]
  BY <1>3 DEF Number, IsNumber, Join
<1> HIDE DEF g
<1>8. g[0] = 0 /\ \A k \in 1..count : g[k] = Join(g[k - 1], octets[k])
  BY <1>3, <1>6 DEF IsNumber
<1> DEFINE T == {k \in 0..count : g[k] = s[count - k]}
<1>9. 0..count \subseteq T
  <2>1. 0 \in T
    BY <1>3, <1>8
  <2>2. ASSUME NEW k \in 0..(count - 1), k \in T PROVE k + 1 \in T
    <3>1. /\ k + 1 \in 1..count /\ (k + 1) - 1 = k /\ k + 1 \in 0..count
          /\ count - k \in 1..8 /\ (count - k) - 1 = count - (k + 1)
      OBVIOUS
    <3>2. g[k + 1] = Join(g[k], octets[k + 1])
      BY <1>8, <3>1
    <3>3. octets[k + 1] = Low(s[count - (k + 1)]) /\ g[k] = s[count - k]
      BY <1>3, <2>2, <3>1
    <3>4. Join(s[count - k], Low(s[count - (k + 1)])) = s[count - (k + 1)]
      BY <1>2, <3>1
    <3>5. g[k + 1] = s[count - (k + 1)]
      BY <3>2, <3>3, <3>4
    <3> QED BY <3>1, <3>5
  <2>3. count \in Nat
    OBVIOUS
  <2> HIDE DEF T
  <2> QED BY <2>1, <2>2, <2>3, Climb
<1>10. count \in T
  BY <1>9
<1>11. g[count] = s[0]
  BY <1>10
<1> QED BY <1>1, <1>7, <1>11

-----------------------------------------------------------------------------
(* The header of a browser's frame.                                        *)

\* Where the key begins.
Begins(f) == 2 + Extended(f.len)

LEMMA FrameFacts ==
  ASSUME NEW f \in Frames
  PROVE  /\ f.opcode \in 0..15 /\ f.fin \in BOOLEAN
         /\ f.len \in Nat /\ f.len <= MaxLen /\ MaxLen \in Nat
         /\ f.key \in Seq(Octet) /\ Len(f.key) = IF f.key = << >> THEN 0 ELSE 4
<1>1. << >> \in Seq(Octet) /\ Len(<< >>) = 0
  BY EmptySeq
<1>2. /\ f.opcode \in 0..15 /\ f.fin \in BOOLEAN /\ f.len \in 0..MaxLen /\ MaxLen \in Nat
      /\ f.key = << >> \/ (Len(f.key) = 4 /\ f.key \in Seq(Octet))
  BY FramingAssumption DEF Octet
<1>3. CASE f.key = << >>
  BY <1>1, <1>2, <1>3
<1>4. CASE f.key # << >>
  BY <1>2, <1>4
<1> QED BY <1>2, <1>3, <1>4

LEMMA ExtendedFacts ==
  ASSUME NEW len \in Nat
  PROVE  /\ Extended(len) \in {0, 2, 8}
         /\ Extended(len) = 0 <=> len < 126
         /\ Extended(len) = 2 => Shifted(len)[2] = 0
<1>1. Extended(len) \in {0, 2, 8} /\ (Extended(len) = 0 <=> len < 126)
  BY DEF Extended
<1>2. Extended(len) = 2 => len <= 65535
  BY DEF Extended
<1> QED BY <1>1, <1>2, ShiftedSmall

LEMMA HeaderFacts ==
  ASSUME NEW f \in Frames
  PROVE  LET e == Extended(f.len)
             h == Header(f)
         IN /\ e \in {0, 2, 8} /\ (e = 0 <=> f.len < 126)
            /\ h \in Seq(Octet) /\ Len(h) = 2 + e + Len(f.key)
            /\ h[1] % 16 = f.opcode
            /\ h[2] >= 128 <=> f.key # << >>
            /\ h[2] % 128 = IF e = 0 THEN f.len ELSE IF e = 2 THEN 126 ELSE 127
            /\ \A i \in 1..e : h[2 + i] = Low(Shifted(f.len)[e - i])
            /\ \A i \in 1..Len(f.key) : h[2 + e + i] = f.key[i]
<1> DEFINE e == Extended(f.len)
           h == Header(f)
           b1 == (IF f.fin THEN 128 ELSE 0) + f.opcode
           b2 == (IF f.key = << >> THEN 0 ELSE 128) +
                   (CASE e = 0 -> f.len [] e = 2 -> 126 [] OTHER -> 127)
           two == << b1, b2 >>
           octets == Octets(f.len, e)
           both == two \o octets
<1>1. e \in {0, 2, 8} /\ (e = 0 <=> f.len < 126) /\ f.len \in Nat
  BY FrameFacts, ExtendedFacts
<1>2. f.opcode \in 0..15 /\ f.fin \in BOOLEAN /\ f.key \in Seq(Octet)
  BY FrameFacts
<1>3. h = both \o f.key
  BY DEF Header
<1>4. /\ octets \in Seq(Octet) /\ Len(octets) = e
      /\ \A i \in 1..e : octets[i] = Low(Shifted(f.len)[e - i])
  <2> HIDE DEF e
  <2>1. e \in 0..8
    BY <1>1
  <2> QED BY <1>1, <2>1, OctetsFacts
<1> HIDE DEF e, h, octets
<1>5. b1 \in Octet /\ b1 % 16 = f.opcode
  <2>1. b1 = f.opcode \/ b1 = 128 + f.opcode
    BY <1>2
  <2>2. \A n \in 0..15 : /\ n \in Octet /\ 128 + n \in Octet
                         /\ n % 16 = n /\ (128 + n) % 16 = n
    BY DEF Octet
  <2> HIDE DEF b1
  <2> DEFINE op == f.opcode
  <2>3. op \in 0..15 /\ (b1 = op \/ b1 = 128 + op)
    BY <1>2, <2>1
  <2> HIDE DEF op
  <2>4. b1 \in Octet /\ b1 % 16 = op
    BY <2>2, <2>3
  <2> QED BY <2>4 DEF op
<1>6. /\ b2 \in Octet /\ (b2 >= 128 <=> f.key # << >>)
      /\ b2 % 128 = IF e = 0 THEN f.len ELSE IF e = 2 THEN 126 ELSE 127
  <2> DEFINE len7 == CASE e = 0 -> f.len [] e = 2 -> 126 [] OTHER -> 127
             bit == IF f.key = << >> THEN 0 ELSE 128
  <2>1. len7 = (IF e = 0 THEN f.len ELSE IF e = 2 THEN 126 ELSE 127) /\ len7 \in 0..127
    BY <1>1
  <2>2. bit \in {0, 128} /\ (bit = 128 <=> f.key # << >>)
    OBVIOUS
  <2>3. b2 = bit + len7
    OBVIOUS
  <2> HIDE DEF b2, bit, len7
  <2>4. b2 \in Octet /\ (b2 >= 128 <=> bit = 128) /\ b2 % 128 = len7
    <3>1. \A n \in 0..127 : /\ 0 + n \in Octet /\ 128 + n \in Octet
                            /\ ~(0 + n >= 128) /\ 128 + n >= 128
                            /\ (0 + n) % 128 = n /\ (128 + n) % 128 = n
      BY DEF Octet
    <3>2. CASE bit = 0
      BY <2>1, <2>3, <3>1, <3>2
    <3>3. CASE bit = 128
      BY <2>1, <2>3, <3>1, <3>3
    <3> QED BY <2>2, <3>2, <3>3
  <2> QED BY <2>1, <2>2, <2>4
<1> HIDE DEF b1, b2
<1>7. two \in Seq(Octet) /\ Len(two) = 2 /\ two[1] = b1 /\ two[2] = b2
  BY <1>5, <1>6
<1> HIDE DEF two
<1>8. /\ both \in Seq(Octet) /\ Len(both) = 2 + e
      /\ \A i \in 1..(2 + e) : both[i] = IF i <= 2 THEN two[i] ELSE octets[i - 2]
  <2>1. e \in Nat
    BY <1>1
  <2>2. /\ both \in Seq(Octet) /\ Len(both) = Len(two) + Len(octets)
        /\ \A i \in 1..(Len(two) + Len(octets)) :
              both[i] = IF i <= Len(two) THEN two[i] ELSE octets[i - Len(two)]
    BY <1>4, <1>7, ConcatProperties
  <2> HIDE DEF both
  <2> QED BY <1>4, <1>7, <2>1, <2>2
<1> HIDE DEF both
<1>9. /\ h \in Seq(Octet) /\ Len(h) = 2 + e + Len(f.key) /\ Len(f.key) \in Nat
      /\ \A i \in 1..(2 + e + Len(f.key)) :
            h[i] = IF i <= 2 + e THEN both[i] ELSE f.key[i - (2 + e)]
  <2>1. Len(f.key) \in Nat
    BY <1>2, LenProperties
  <2>2. /\ h \in Seq(Octet) /\ Len(h) = Len(both) + Len(f.key)
        /\ \A i \in 1..(Len(both) + Len(f.key)) :
              h[i] = IF i <= Len(both) THEN both[i] ELSE f.key[i - Len(both)]
    BY <1>2, <1>3, <1>8, ConcatProperties
  <2> QED BY <1>8, <2>1, <2>2
<1>10. h[1] = b1 /\ h[2] = b2
  <2>1. /\ 1 \in 1..(2 + e) /\ 2 \in 1..(2 + e) /\ 1 <= 2 + e /\ 2 <= 2 + e
        /\ 1 \in 1..(2 + e + Len(f.key)) /\ 2 \in 1..(2 + e + Len(f.key))
    <3> DEFINE k == Len(f.key)
    <3>1. e \in Nat /\ k \in Nat
      BY <1>1, <1>2, LenProperties
    <3> HIDE DEF k
    <3>2. /\ 1 \in 1..(2 + e) /\ 2 \in 1..(2 + e) /\ 1 <= 2 + e /\ 2 <= 2 + e
          /\ 1 \in 1..(2 + e + k) /\ 2 \in 1..(2 + e + k)
      BY <3>1
    <3> QED BY <3>2 DEF k
  <2>2. h[1] = both[1] /\ h[2] = both[2]
    BY <1>9, <2>1
  <2>3. both[1] = two[1] /\ both[2] = two[2]
    BY <1>8, <2>1
  <2> QED BY <1>7, <2>2, <2>3
<1>11. ASSUME NEW i \in 1..e
       PROVE  h[2 + i] = Low(Shifted(f.len)[e - i])
  <2>1. /\ 2 + i \in 1..(2 + e + Len(f.key)) /\ 2 + i <= 2 + e /\ ~(2 + i <= 2)
        /\ 2 + i \in 1..(2 + e) /\ (2 + i) - 2 = i
    <3> DEFINE k == Len(f.key)
    <3>1. e \in Nat /\ k \in Nat
      BY <1>1, <1>2, LenProperties
    <3> HIDE DEF k
    <3>2. /\ 2 + i \in 1..(2 + e + k) /\ 2 + i <= 2 + e /\ ~(2 + i <= 2)
          /\ 2 + i \in 1..(2 + e) /\ (2 + i) - 2 = i
      BY <3>1
    <3> QED BY <3>2 DEF k
  <2>2. h[2 + i] = octets[i]
    BY <1>8, <1>9, <2>1
  <2> QED BY <1>4, <2>2
<1>12. ASSUME NEW i \in 1..Len(f.key)
       PROVE  h[2 + e + i] = f.key[i]
  <2>1. /\ 2 + e + i \in 1..(2 + e + Len(f.key)) /\ ~(2 + e + i <= 2 + e)
        /\ (2 + e + i) - (2 + e) = i
    <3> DEFINE k == Len(f.key)
    <3>1. e \in Nat /\ k \in Nat /\ i \in 1..k
      BY <1>1, <1>2, LenProperties
    <3> HIDE DEF k
    <3>2. /\ 2 + e + i \in 1..(2 + e + k) /\ ~(2 + e + i <= 2 + e)
          /\ (2 + e + i) - (2 + e) = i
      BY <3>1
    <3> QED BY <3>2 DEF k
  <2> QED BY <1>9, <2>1
<1> HIDE DEF e
<1> QED BY <1>1, <1>5, <1>6, <1>9, <1>10, <1>11, <1>12 DEF e, h

-----------------------------------------------------------------------------
(* The header of a frame that the server writes.                           *)

LEMMA DecodeShort ==
  ASSUME NEW kind \in {Text, Close, Pong}, NEW len \in Nat, len < 126,
         NEW h \in Seq(Octet), Len(h) = 2, h[1] = 128 + kind, h[2] = len
  PROVE  Decode(h) = [fin |-> TRUE, opcode |-> kind, masked |-> FALSE, len |-> len]
<1> DEFINE len7 == h[2] % 128
<1>1. len7 = len /\ len7 < 126 /\ h[2] \div 128 = 0
  OBVIOUS
<1>2. h[1] \div 128 = 1 /\ h[1] % 16 = kind
  BY DEF Text, Close, Pong
<1> HIDE DEF len7
<1>3. Decode(h) =
        [fin |-> h[1] \div 128 = 1, opcode |-> h[1] % 16, masked |-> h[2] \div 128 = 1,
         len |-> CASE len7 = 126 /\ Len(h) = 4 -> Number(SubSeq(h, 3, 4))
                   [] len7 = 127 /\ Len(h) = 10 -> Number(SubSeq(h, 3, 10))
                   [] len7 < 126 /\ Len(h) = 2 -> len7
                   [] OTHER -> -1]
  BY DEF Decode, len7
<1>4. (CASE len7 = 126 /\ Len(h) = 4 -> Number(SubSeq(h, 3, 4))
         [] len7 = 127 /\ Len(h) = 10 -> Number(SubSeq(h, 3, 10))
         [] len7 < 126 /\ Len(h) = 2 -> len7
         [] OTHER -> -1) = len
  BY <1>1
<1>5. (h[1] \div 128 = 1) = TRUE /\ (h[2] \div 128 = 1) = FALSE
  BY <1>1, <1>2
<1> QED BY <1>2, <1>3, <1>4, <1>5, Zenon

ExtendsBy(h, len, e) == \A i \in 1..e : h[2 + i] = Low(Shifted(len)[e - i])

LEMMA DecodeExtended ==
  ASSUME NEW kind \in {Text, Close, Pong}, NEW len \in Nat,
         NEW e \in {2, 8}, Shifted(len)[e] = 0,
         NEW h \in Seq(Octet), Len(h) = 2 + e, h[1] = 128 + kind,
         h[2] = IF e = 2 THEN 126 ELSE 127,
         ExtendsBy(h, len, e)
  PROVE  Decode(h) = [fin |-> TRUE, opcode |-> kind, masked |-> FALSE, len |-> len]
<1> DEFINE len7 == h[2] % 128
           octets == SubSeq(h, 3, 2 + e)
<1>1. len7 = (IF e = 2 THEN 126 ELSE 127) /\ h[2] \div 128 = 0
  <2>1. h[2] = 126 \/ h[2] = 127
    OBVIOUS
  <2> QED BY <2>1
<1>2. h[1] \div 128 = 1 /\ h[1] % 16 = kind
  BY DEF Text, Close, Pong
<1> HIDE DEF len7
<1>3. Len(octets) = e /\ \A i \in 1..e : octets[i] = h[2 + i]
  <2>1. e \in Nat /\ e >= 2
    OBVIOUS
  <2>2. \A i \in 3..(2 + e) : h[i] \in Octet
    <3>1. \A i \in 3..(2 + e) : i \in 1..Len(h)
      BY <2>1
    <3>2. \A i \in 1..Len(h) : h[i] \in Octet
      BY LenProperties
    <3> QED BY <3>1, <3>2
  <2>3. /\ Len(octets) = IF 3 <= 2 + e THEN (2 + e) - 3 + 1 ELSE 0
        /\ \A i \in 1..((2 + e) - 3 + 1) : octets[i] = h[3 + i - 1]
    BY <2>1, <2>2, SubSeqProperties
  <2> HIDE DEF octets
  <2>4. (2 + e) - 3 + 1 = e /\ 3 <= 2 + e /\ \A i \in 1..e : 3 + i - 1 = 2 + i
    BY <2>1
  <2> QED BY <2>3, <2>4
<1>4. Number(octets) = len
  <2>1. e \in 0..8
    OBVIOUS
  <2>2. AreOctets(octets, len, e)
    BY <1>3 DEF AreOctets, ExtendsBy
  <2> HIDE DEF octets
  <2> QED BY <2>1, <2>2, NumberOfOctets
<1>5. Decode(h) =
        [fin |-> h[1] \div 128 = 1, opcode |-> h[1] % 16, masked |-> h[2] \div 128 = 1,
         len |-> CASE len7 = 126 /\ Len(h) = 4 -> Number(SubSeq(h, 3, 4))
                   [] len7 = 127 /\ Len(h) = 10 -> Number(SubSeq(h, 3, 10))
                   [] len7 < 126 /\ Len(h) = 2 -> len7
                   [] OTHER -> -1]
  BY DEF Decode, len7
<1>6. (CASE len7 = 126 /\ Len(h) = 4 -> Number(SubSeq(h, 3, 4))
         [] len7 = 127 /\ Len(h) = 10 -> Number(SubSeq(h, 3, 10))
         [] len7 < 126 /\ Len(h) = 2 -> len7
         [] OTHER -> -1) = len
  <2> DEFINE two == Number(SubSeq(h, 3, 4))
             eight == Number(SubSeq(h, 3, 10))
             n == Len(h)
  <2>1. \/ two = len /\ len7 = 126 /\ n = 4
        \/ eight = len /\ len7 = 127 /\ n = 10
    BY <1>1, <1>4
  <2> HIDE DEF two, eight, n
  <2>2. (CASE len7 = 126 /\ n = 4 -> two [] len7 = 127 /\ n = 10 -> eight
           [] len7 < 126 /\ n = 2 -> len7 [] OTHER -> -1) = len
    BY <2>1
  <2> QED BY <2>2 DEF two, eight, n
<1>7. (h[1] \div 128 = 1) = TRUE /\ (h[2] \div 128 = 1) = FALSE
  BY <1>1, <1>2
<1> QED BY <1>2, <1>5, <1>6, <1>7, Zenon

HeaderOf(kind, len) == << 128 + kind >> \o LengthBytes(len)

\* What libwebsocket_write puts before a payload is read as its kind and length.
LEMMA WrittenHeader ==
  ASSUME NEW kind \in {Text, Close, Pong}, NEW len \in Nat, Shifted(len)[8] = 0
  PROVE  /\ Decode(HeaderOf(kind, len)) =
              [fin |-> TRUE, opcode |-> kind, masked |-> FALSE, len |-> len]
         /\ HeaderOf(kind, len) \in Seq(Octet) /\ Len(HeaderOf(kind, len)) <= 14
<1> DEFINE bytes == LengthBytes(len)
           first == << 128 + kind >>
           h == first \o bytes
<1>1. first \in Seq(Octet) /\ Len(first) = 1 /\ first[1] = 128 + kind
  BY DEF Text, Close, Pong, Octet
<1>2. ASSUME bytes \in Seq(Octet)
      PROVE  /\ h \in Seq(Octet) /\ Len(h) = 1 + Len(bytes) /\ h[1] = 128 + kind
             /\ Len(bytes) \in Nat /\ \A i \in 1..Len(bytes) : h[1 + i] = bytes[i]
  <2> HIDE DEF first, bytes
  <2>1. Len(bytes) \in Nat
    BY <1>2, LenProperties
  <2>2. /\ h \in Seq(Octet) /\ Len(h) = Len(first) + Len(bytes)
        /\ \A i \in 1..(Len(first) + Len(bytes)) :
              h[i] = IF i <= Len(first) THEN first[i] ELSE bytes[i - Len(first)]
    BY <1>1, <1>2, ConcatProperties
  <2> HIDE DEF h
  <2>3. h[1] = first[1]
    BY <1>1, <2>1, <2>2
  <2>4. ASSUME NEW i \in 1..Len(bytes) PROVE h[1 + i] = bytes[i]
    <3>1. 1 + i \in 1..(1 + Len(bytes)) /\ ~(1 + i <= 1) /\ (1 + i) - 1 = i
      BY <2>1
    <3> QED BY <1>1, <2>2, <3>1
  <2> QED BY <1>1, <2>1, <2>2, <2>3, <2>4
<1> HIDE DEF first
<1>3. CASE len < 126
  <2>1. bytes = << len >>
    BY <1>3 DEF LengthBytes
  <2>2. bytes \in Seq(Octet) /\ Len(bytes) = 1 /\ bytes[1] = len
    BY <1>3, <2>1 DEF Octet
  <2> HIDE DEF bytes
  <2>3. h \in Seq(Octet) /\ Len(h) = 2 /\ h[1] = 128 + kind /\ h[2] = len
    BY <1>2, <2>2
  <2> HIDE DEF h
  <2>4. Decode(h) = [fin |-> TRUE, opcode |-> kind, masked |-> FALSE, len |-> len]
    BY <1>3, <2>3, DecodeShort
  <2> QED BY <2>3, <2>4 DEF h, first, bytes, HeaderOf
<1>4. CASE 126 <= len /\ len <= 65535
  <2>1. bytes = << 126, (len \div 256) % 256, len % 256 >>
    BY <1>4 DEF LengthBytes
  <2>2. /\ (len \div 256) % 256 = Low(Shifted(len)[1]) /\ len % 256 = Low(Shifted(len)[0])
    <3>1. Shifted(len)[0] = len /\ Shifted(len)[1] = Shifted(len)[0] \div 256
      BY ShiftedFacts
    <3> QED BY <3>1 DEF Low
  <2>3. Low(Shifted(len)[0]) \in Octet /\ Low(Shifted(len)[1]) \in Octet
    <3>1. 1 - 1 = 0 /\ 2 - 1 = 1
      OBVIOUS
    <3> QED BY <3>1, ShiftedBack
  <2>4. bytes = << 126, Low(Shifted(len)[1]), Low(Shifted(len)[0]) >>
    BY <2>1, <2>2
  <2> HIDE DEF bytes
  <2>5. /\ bytes \in Seq(Octet) /\ Len(bytes) = 3 /\ bytes[1] = 126
        /\ bytes[2] = Low(Shifted(len)[1]) /\ bytes[3] = Low(Shifted(len)[0])
    BY <2>3, <2>4 DEF Octet
  <2>6. /\ h \in Seq(Octet) /\ Len(h) = 4 /\ h[1] = 128 + kind /\ h[2] = 126
        /\ h[3] = Low(Shifted(len)[1]) /\ h[4] = Low(Shifted(len)[0])
    <3>1. 1 \in 1..3 /\ 2 \in 1..3 /\ 3 \in 1..3 /\ 1 + 1 = 2 /\ 1 + 2 = 3 /\ 1 + 3 = 4
      OBVIOUS
    <3> QED BY <1>2, <2>5, <3>1
  <2> HIDE DEF h
  <2>7. \A i \in 1..2 : h[2 + i] = Low(Shifted(len)[2 - i])
    <3>1. \A i \in 1..2 : (i = 1 /\ 2 + i = 3 /\ 2 - i = 1) \/ (i = 2 /\ 2 + i = 4 /\ 2 - i = 0)
      OBVIOUS
    <3> QED BY <2>6, <3>1
  <2>8. Shifted(len)[2] = 0
    BY <1>4, ShiftedSmall
  <2>9. Decode(h) = [fin |-> TRUE, opcode |-> kind, masked |-> FALSE, len |-> len]
    <3> DEFINE e == 2
    <3>1. /\ e \in {2, 8} /\ Shifted(len)[e] = 0 /\ Len(h) = 2 + e
          /\ h[2] = IF e = 2 THEN 126 ELSE 127
          /\ ExtendsBy(h, len, e)
      BY <2>6, <2>7, <2>8 DEF ExtendsBy
    <3> HIDE DEF e
    <3> QED BY <2>6, <3>1, DecodeExtended
  <2> QED BY <2>6, <2>9 DEF h, first, bytes, HeaderOf
<1>5. CASE ~(len < 126) /\ ~(126 <= len /\ len <= 65535)
  <2> DEFINE octets == Octets(len, 8)
  <2> DEFINE lead == << 127 >>
  <2>1. bytes = lead \o octets
    BY <1>5 DEF LengthBytes
  <2>2. /\ octets \in Seq(Octet) /\ Len(octets) = 8
        /\ \A i \in 1..8 : octets[i] = Low(Shifted(len)[8 - i])
    <3>1. 8 \in 0..8
      OBVIOUS
    <3> QED BY <3>1, OctetsFacts
  <2>3. lead \in Seq(Octet) /\ Len(lead) = 1 /\ lead[1] = 127
    BY DEF Octet
  <2> HIDE DEF lead, octets, bytes
  <2>4. /\ bytes \in Seq(Octet) /\ Len(bytes) = 9 /\ bytes[1] = 127
        /\ \A i \in 1..8 : bytes[1 + i] = octets[i]
    <3>1. /\ bytes \in Seq(Octet) /\ Len(bytes) = Len(lead) + Len(octets)
          /\ \A i \in 1..(Len(lead) + Len(octets)) :
                bytes[i] = IF i <= Len(lead) THEN lead[i] ELSE octets[i - Len(lead)]
      <4>1. lead \in Seq(Octet) /\ octets \in Seq(Octet)
        BY <2>2, <2>3
      <4> QED BY <2>1, <4>1, ConcatProperties
    <3>2. \A i \in 1..8 : 1 + i \in 1..9 /\ ~(1 + i <= 1) /\ (1 + i) - 1 = i
      OBVIOUS
    <3> QED BY <2>2, <2>3, <3>1, <3>2
  <2>5. /\ h \in Seq(Octet) /\ Len(h) = 10 /\ h[1] = 128 + kind /\ h[2] = 127
        /\ \A i \in 1..9 : h[1 + i] = bytes[i]
    <3>1. /\ h \in Seq(Octet) /\ Len(h) = 1 + Len(bytes) /\ h[1] = 128 + kind
          /\ \A i \in 1..Len(bytes) : h[1 + i] = bytes[i]
      BY <1>2, <2>4
    <3> HIDE DEF h
    <3>2. \A i \in 1..9 : h[1 + i] = bytes[i]
      BY <2>4, <3>1
    <3>3. h[2] = 127
      <4>1. 1 \in 1..9 /\ 1 + 1 = 2
        OBVIOUS
      <4> QED BY <2>4, <3>2, <4>1
    <3>4. Len(h) = 10
      BY <2>4, <3>1
    <3> QED BY <3>1, <3>2, <3>3, <3>4
  <2> HIDE DEF h
  <2>6. \A i \in 1..8 : h[2 + i] = Low(Shifted(len)[8 - i])
    <3>1. \A i \in 1..8 : 1 + i \in 1..9 /\ 1 + (1 + i) = 2 + i
      OBVIOUS
    <3> QED BY <2>2, <2>4, <2>5, <3>1
  <2>7. Decode(h) = [fin |-> TRUE, opcode |-> kind, masked |-> FALSE, len |-> len]
    <3>1. /\ h \in Seq(Octet) /\ Len(h) = 10 /\ h[1] = 128 + kind /\ h[2] = 127
      BY <2>5
    <3> DEFINE e == 8
    <3>2. /\ e \in {2, 8} /\ Shifted(len)[e] = 0 /\ Len(h) = 2 + e
          /\ h[2] = IF e = 2 THEN 126 ELSE 127
          /\ ExtendsBy(h, len, e)
      BY <3>1, <2>6 DEF ExtendsBy
    <3> HIDE DEF e
    <3> QED BY <3>1, <3>2, DecodeExtended
  <2> QED BY <2>5, <2>7 DEF h, first, bytes, HeaderOf
<1> QED BY <1>3, <1>4, <1>5

-----------------------------------------------------------------------------
(* The stream: the frames s that were sent, from some byte on.             *)

Items == [frame : 1..MaxFrames, part : {"header", "payload"}, from : Nat,
          n : Nat \ {0}, value : Octet]

\* x is a byte of a header or what is left of a payload.
IsPart(x, s) ==
  /\ x.frame \in 1..Len(s)
  /\ \/ /\ x.part = "header" /\ x.from < Len(Header(s[x.frame])) /\ x.n = 1
        /\ x.value = Header(s[x.frame])[x.from + 1]
     \/ x.part = "payload" /\ x.from + x.n = s[x.frame].len

EndsFrame(x, s) ==
  x.part = "header" => x.from + 1 = Len(Header(s[x.frame])) /\ s[x.frame].len = 0

Begun(y, i) == y.frame = i /\ y.part = "header" /\ y.from = 0

\* y comes right behind x.
Follows(x, y, s) ==
  IF EndsFrame(x, s) THEN Begun(y, x.frame + 1)
  ELSE /\ y.frame = x.frame
       /\ IF x.from + 1 < Len(Header(s[x.frame]))
            THEN y.part = "header" /\ y.from = x.from + 1
            ELSE y.part = "payload" /\ y.from = 0

Streams(st, s) ==
  /\ s \in Seq(Frames) /\ Len(s) <= MaxFrames
  /\ st \in Seq(Items)
  /\ \A p \in 1..Len(st) : IsPart(st[p], s)
  /\ \A p \in 1..(Len(st) - 1) : Follows(st[p], st[p + 1], s)
  /\ st # << >> => st[Len(st)].frame = Len(s) /\ EndsFrame(st[Len(st)], s)

\* Behind the first of the stream.
LEMMA StreamTail ==
  ASSUME NEW st, NEW s, Streams(st, s), st # << >>
  PROVE  /\ Head(st) \in Items /\ IsPart(Head(st), s)
         /\ Streams(Tail(st), s)
         /\ IF Tail(st) = << >> THEN Head(st).frame = Len(s) /\ EndsFrame(Head(st), s)
            ELSE Follows(Head(st), Head(Tail(st)), s)
<1> DEFINE n == Len(st)
           t == Tail(st)
<1>1. /\ s \in Seq(Frames) /\ Len(s) <= MaxFrames /\ st \in Seq(Items)
      /\ \A p \in 1..n : IsPart(st[p], s)
      /\ \A p \in 1..(n - 1) : Follows(st[p], st[p + 1], s)
      /\ st[n].frame = Len(s) /\ EndsFrame(st[n], s)
  BY DEF Streams
<1>2. /\ t \in Seq(Items) /\ n \in Nat \ {0} /\ Len(t) = n - 1
      /\ \A p \in 1..(n - 1) : t[p] = st[p + 1]
      /\ Head(st) = st[1] /\ st[1] \in Items
  BY <1>1, TailFacts
<1>3. t = << >> <=> n = 1
  <2>1. t \in Seq(Items) /\ Len(t) = n - 1 /\ n \in Nat
    BY <1>2
  <2> HIDE DEF t, n
  <2>2. t = << >> => Len(t) = 0
    BY EmptySeq
  <2>3. t # << >> => Len(t) # 0
    BY <2>1, EmptySeq
  <2> QED BY <2>1, <2>2, <2>3
<1>4. t # << >> => Head(t) = t[1] /\ 1 \in 1..(n - 1)
  BY <1>2, <1>3, TailFacts
<1> HIDE DEF n, t
<1>5. IsPart(st[1], s)
  BY <1>1, <1>2
<1>6. \A p \in 1..(n - 1) : IsPart(t[p], s)
  <2>1. \A p \in 1..(n - 1) : p + 1 \in 1..n
    BY <1>2
  <2> QED BY <1>1, <1>2, <2>1
<1>7. \A p \in 1..((n - 1) - 1) : Follows(t[p], t[p + 1], s)
  <2>1. \A p \in 1..((n - 1) - 1) :
          p \in 1..(n - 1) /\ p + 1 \in 1..(n - 1) /\ (p + 1) + 1 = p + 2
    BY <1>2
  <2>2. \A p \in 1..((n - 1) - 1) : t[p] = st[p + 1] /\ t[p + 1] = st[(p + 1) + 1]
    BY <1>2, <2>1
  <2> QED BY <1>1, <2>1, <2>2
<1>8. t # << >> => t[n - 1] = st[n]
  <2>1. t # << >> => n - 1 \in 1..(n - 1) /\ (n - 1) + 1 = n
    BY <1>2, <1>3
  <2> QED BY <1>2, <2>1
<1>9. Streams(t, s)
  BY <1>1, <1>2, <1>6, <1>7, <1>8 DEF Streams
<1>10. t = << >> => st[1].frame = Len(s) /\ EndsFrame(st[1], s)
  BY <1>1, <1>3
<1>11. t # << >> => Follows(st[1], t[1], s)
  <2>1. t # << >> => 1 \in 1..(n - 1) /\ 1 + 1 = 2
    BY <1>4
  <2> QED BY <1>1, <1>2, <2>1
<1> QED BY <1>2, <1>4, <1>5, <1>9, <1>10, <1>11 DEF t

\* Behind the first bytes of a payload.
Cut(x, m) == [x EXCEPT !.from = @ + m, !.n = @ - m]

LEMMA StreamCut ==
  ASSUME NEW st, NEW s, Streams(st, s), st # << >>,
         NEW m \in Nat \ {0}, m < Head(st).n
  PROVE  LET cut == [st EXCEPT ![1] = Cut(Head(st), m)] IN
           /\ Head(st).part = "payload"
           /\ cut # << >> /\ Head(cut) = Cut(Head(st), m)
           /\ Streams(cut, s)
<1> DEFINE n == Len(st)
           x == Head(st)
           y == Cut(x, m)
           cut == [st EXCEPT ![1] = Cut(Head(st), m)]
<1>1. /\ s \in Seq(Frames) /\ Len(s) <= MaxFrames /\ st \in Seq(Items)
      /\ \A p \in 1..n : IsPart(st[p], s)
      /\ \A p \in 1..(n - 1) : Follows(st[p], st[p + 1], s)
      /\ st[n].frame = Len(s) /\ EndsFrame(st[n], s)
  BY DEF Streams
<1>2. n \in Nat \ {0} /\ x = st[1] /\ x \in Items
  BY <1>1, TailFacts
<1>3. x.part = "payload" /\ x.from + x.n = s[x.frame].len
  <2>1. IsPart(x, s)
    BY <1>1, <1>2
  <2>2. x.n # 1
    BY <1>2 DEF Items
  <2> QED BY <2>1, <2>2 DEF IsPart
<1>4. /\ y \in Items /\ y.frame = x.frame /\ y.part = "payload"
      /\ y.from = x.from + m /\ y.n = x.n - m
  <2>1. m < x.n
    OBVIOUS
  <2> HIDE DEF x
  <2>2. x.from \in Nat /\ x.n \in Nat \ {0}
    BY <1>2 DEF Items
  <2>3. y = [x EXCEPT !.from = x.from + m, !.n = x.n - m]
    BY DEF Cut
  <2>4. x.from + m \in Nat /\ x.n - m \in Nat \ {0}
    BY <2>1, <2>2
  <2> HIDE DEF y
  <2> QED BY <1>2, <1>3, <2>3, <2>4 DEF Items
<1>5. cut = [st EXCEPT ![1] = y]
  BY <1>2
<1> HIDE DEF y
<1>6. /\ cut \in Seq(Items) /\ Len(cut) = n
      /\ \A p \in 1..n : cut[p] = IF p = 1 THEN y ELSE st[p]
  <2>1. 1 \in 1..Len(st)
    BY <1>2
  <2> QED BY <1>1, <1>4, <1>5, <2>1, ExceptSeq
<1>7. cut # << >> /\ Head(cut) = y
  <2>1. cut # << >>
    BY <1>2, <1>6, EmptySeq
  <2> QED BY <1>2, <1>6, <2>1, TailFacts
<1> HIDE DEF cut, n, x
<1>8. IsPart(y, s)
  <2>1. x.frame \in 1..Len(s)
    BY <1>1, <1>2 DEF IsPart
  <2>2. y.from + y.n = s[y.frame].len
    <3>1. x.from \in Nat /\ x.n \in Nat
      BY <1>2 DEF Items
    <3> QED BY <1>3, <1>4, <3>1
  <2> QED BY <1>4, <2>1, <2>2 DEF IsPart
<1>9. EndsFrame(x, s) /\ EndsFrame(y, s)
  BY <1>3, <1>4 DEF EndsFrame
<1>10. \A p \in 1..n : IsPart(cut[p], s)
  BY <1>1, <1>6, <1>8
<1>11. ASSUME NEW p \in 1..(n - 1)
       PROVE  Follows(cut[p], cut[p + 1], s)
  <2>1. p \in 1..n /\ p + 1 \in 1..n /\ p + 1 # 1
    BY <1>2
  <2>2. cut[p + 1] = st[p + 1] /\ Follows(st[p], st[p + 1], s)
    BY <1>1, <1>6, <2>1
  <2>3. CASE p = 1
    <3>1. cut[p] = y /\ st[p] = x
      BY <1>2, <1>6, <2>1, <2>3
    <3>2. Begun(st[p + 1], x.frame + 1)
      BY <1>9, <2>2, <3>1 DEF Follows
    <3> QED BY <1>4, <1>9, <2>2, <3>1, <3>2 DEF Follows
  <2>4. CASE p # 1
    BY <1>6, <2>1, <2>2, <2>4
  <2> QED BY <2>3, <2>4
<1>12. cut[n].frame = Len(s) /\ EndsFrame(cut[n], s)
  <2>1. n \in 1..n
    BY <1>2
  <2>2. CASE n = 1
    BY <1>1, <1>2, <1>4, <1>6, <1>9, <2>1, <2>2
  <2>3. CASE n # 1
    BY <1>1, <1>6, <2>1, <2>3
  <2> QED BY <2>2, <2>3
<1>13. Streams(cut, s)
  BY <1>1, <1>6, <1>10, <1>11, <1>12 DEF Streams
<1> QED BY <1>3, <1>7, <1>13 DEF cut, x, y

\* A frame's bytes.
LEMMA EncodeFacts ==
  ASSUME NEW f \in Frames, NEW i \in 1..MaxFrames
  PROVE  LET m == Len(Header(f))
             bytes == Encode(i, f)
             n == Len(bytes)
         IN /\ bytes \in Seq(Items) /\ m \in Nat /\ m >= 2
            /\ n = IF f.len = 0 THEN m ELSE m + 1
            /\ \A k \in 1..m : bytes[k] = Byte(i, k, Header(f)[k])
            /\ f.len # 0 => bytes[m + 1] = Payload(i, f.len)
<1> DEFINE h == Header(f)
           m == Len(h)
           head == [k \in DOMAIN h |-> Byte(i, k, h[k])]
           body == IF f.len = 0 THEN << >> ELSE << Payload(i, f.len) >>
           bytes == Encode(i, f)
<1>1. h \in Seq(Octet) /\ m \in Nat /\ m >= 2 /\ DOMAIN h = 1..m
  <2>1. /\ h \in Seq(Octet) /\ m = 2 + Extended(f.len) + Len(f.key)
        /\ Extended(f.len) \in {0, 2, 8}
    BY HeaderFacts
  <2>2. Len(f.key) \in Nat
    BY FrameFacts
  <2> HIDE DEF h
  <2> QED BY <2>1, <2>2, LenProperties
<1>2. bytes = head \o body
  BY DEF Encode
<1> HIDE DEF h, bytes
<1>3. \A k \in 1..m : h[k] \in Octet
  BY <1>1, ElementOfSeq
<1> HIDE DEF m
<1>4. \A k \in 1..m : Byte(i, k, h[k]) \in Items
  BY <1>1, <1>3 DEF Byte, Items
<1>5. head \in Seq(Items) /\ Len(head) = m /\ \A k \in 1..m : head[k] = Byte(i, k, h[k])
  <2>1. head \in [1..m -> Items] /\ \A k \in 1..m : head[k] = Byte(i, k, h[k])
    BY <1>1, <1>4
  <2> HIDE DEF head
  <2>2. head \in Seq(Items)
    BY <1>1, <2>1, SeqDef
  <2>3. DOMAIN head = 1..m
    BY <2>1
  <2> QED BY <1>1, <2>1, <2>2, <2>3, LenIs
<1> HIDE DEF head
<1>6. f.len \in Nat /\ (f.len # 0 => Payload(i, f.len) \in Items)
  <2>1. f.len \in Nat
    BY FrameFacts
  <2> QED BY <2>1 DEF Payload, Items, Octet
<1>7. CASE f.len = 0
  <2>1. bytes = head
    BY <1>2, <1>5, <1>7, ConcatEmptySeq
  <2> QED BY <1>1, <1>5, <1>7, <2>1 DEF bytes, m, h
<1>8. CASE f.len # 0
  <2> DEFINE last == Payload(i, f.len)
  <2>1. bytes = head \o << last >>
    BY <1>2, <1>8
  <2>2. last \in Items
    BY <1>6, <1>8
  <2> HIDE DEF last
  <2>3. bytes = Append(head, last)
    BY <1>5, <2>1, <2>2, AppendIsConcat
  <2>4. /\ bytes \in Seq(Items) /\ Len(bytes) = m + 1
        /\ \A k \in 1..m : bytes[k] = head[k]
        /\ bytes[m + 1] = last
    BY <1>5, <2>2, <2>3, AppendFacts
  <2> QED BY <1>1, <1>5, <1>8, <2>4 DEF bytes, m, h, last
<1> QED BY <1>7, <1>8

LEMMA EncodeStreams ==
  ASSUME NEW s, NEW i \in 1..MaxFrames, i \in 1..Len(s), s[i] \in Frames
  PROVE  LET bytes == Encode(i, s[i])
             n == Len(bytes)
         IN /\ bytes \in Seq(Items) /\ n \in Nat \ {0} /\ Begun(bytes[1], i)
            /\ \A p \in 1..n : IsPart(bytes[p], s)
            /\ \A p \in 1..(n - 1) : Follows(bytes[p], bytes[p + 1], s)
            /\ bytes[n].frame = i /\ EndsFrame(bytes[n], s)
<1> DEFINE f == s[i]
           h == Header(f)
           m == Len(h)
           bytes == Encode(i, f)
           n == Len(bytes)
<1>1. /\ bytes \in Seq(Items) /\ m \in Nat /\ m >= 2
      /\ n = IF f.len = 0 THEN m ELSE m + 1
      /\ \A k \in 1..m : bytes[k] = Byte(i, k, h[k])
      /\ f.len # 0 => bytes[m + 1] = Payload(i, f.len)
  BY EncodeFacts
<1> HIDE DEF bytes, n
<1>2. f.len \in Nat
  BY FrameFacts
<1>3. ASSUME NEW k \in 1..m
      PROVE  /\ bytes[k].frame = i /\ bytes[k].part = "header" /\ bytes[k].from = k - 1
             /\ bytes[k].n = 1 /\ bytes[k].value = h[k]
  <2>1. bytes[k] = Byte(i, k, h[k])
    BY <1>1
  <2> HIDE DEF h
  <2> QED BY <2>1 DEF Byte
<1>4. f.len # 0 => /\ bytes[m + 1].frame = i /\ bytes[m + 1].part = "payload"
                   /\ bytes[m + 1].from = 0 /\ bytes[m + 1].n = f.len
  BY <1>1 DEF Payload
<1> HIDE DEF m
<1>5. n \in Nat \ {0} /\ Begun(bytes[1], i)
  <2>1. n \in Nat \ {0} /\ 1 \in 1..m /\ 1 - 1 = 0
    BY <1>1
  <2> QED BY <1>3, <2>1 DEF Begun
<1>6. ASSUME NEW k \in 1..m
      PROVE  /\ IsPart(bytes[k], s)
             /\ EndsFrame(bytes[k], s) <=> k = m /\ f.len = 0
  <2>1. k \in Nat /\ k - 1 < m /\ (k - 1) + 1 = k
    BY <1>1
  <2>2. IsPart(bytes[k], s)
    BY <1>3, <2>1 DEF IsPart, m
  <2>3. EndsFrame(bytes[k], s) <=> k = m /\ f.len = 0
    BY <1>3, <2>1 DEF EndsFrame, m
  <2> QED BY <2>2, <2>3
<1>7. f.len # 0 => IsPart(bytes[m + 1], s) /\ EndsFrame(bytes[m + 1], s)
  <2>1. 0 + f.len = f.len
    BY <1>2
  <2> QED BY <1>4, <2>1 DEF IsPart, EndsFrame
<1>8. ASSUME NEW p \in 1..n PROVE IsPart(bytes[p], s)
  <2>1. p \in 1..m \/ (f.len # 0 /\ p = m + 1)
    BY <1>1
  <2> QED BY <1>6, <1>7, <2>1
<1>9. ASSUME NEW p \in 1..(n - 1) PROVE Follows(bytes[p], bytes[p + 1], s)
  <2>1. p \in 1..m /\ p \in Nat /\ (p - 1) + 1 = p /\ (p + 1) - 1 = p
        /\ (p = m => f.len # 0)
    BY <1>1
  <2>2. ~EndsFrame(bytes[p], s) /\ bytes[p].frame = i /\ bytes[p].from + 1 = p
    BY <1>3, <1>6, <2>1
  <2>3. CASE p < m
    <3>1. p + 1 \in 1..m
      BY <1>1, <2>1, <2>3
    <3>2. bytes[p + 1].frame = i /\ bytes[p + 1].part = "header" /\ bytes[p + 1].from = p
      BY <1>3, <2>1, <3>1
    <3> QED BY <2>2, <2>3, <3>2 DEF Follows, m
  <2>4. CASE ~(p < m)
    <3>1. p = m /\ f.len # 0
      BY <1>1, <2>1, <2>4
    <3> QED BY <1>4, <2>2, <2>4, <3>1 DEF Follows, m
  <2> QED BY <2>3, <2>4
<1>10. bytes[n].frame = i /\ EndsFrame(bytes[n], s)
  <2>1. CASE f.len = 0
    <3>1. n = m /\ m \in 1..m
      BY <1>1, <2>1
    <3> QED BY <1>3, <1>6, <2>1, <3>1
  <2>2. CASE f.len # 0
    BY <1>1, <1>4, <1>7, <2>2
  <2> QED BY <2>1, <2>2
<1> QED BY <1>1, <1>5, <1>8, <1>9, <1>10 DEF n, bytes

\* Another frame changes nothing for the bytes of the others.
LEMMA SameFrames ==
  ASSUME NEW s, NEW s2, Len(s) \in Nat, Len(s2) \in Nat, Len(s) <= Len(s2),
         \A i \in 1..Len(s) : s2[i] = s[i],
         NEW x, IsPart(x, s)
  PROVE  /\ IsPart(x, s2)
         /\ EndsFrame(x, s2) <=> EndsFrame(x, s)
         /\ \A y : Follows(x, y, s) => Follows(x, y, s2)
<1>1. x.frame \in 1..Len(s) /\ x.frame \in 1..Len(s2) /\ s2[x.frame] = s[x.frame]
  BY DEF IsPart
<1>2. IsPart(x, s2)
  BY <1>1 DEF IsPart
<1>3. EndsFrame(x, s2) <=> EndsFrame(x, s)
  BY <1>1 DEF EndsFrame
<1>4. ASSUME NEW y, Follows(x, y, s) PROVE Follows(x, y, s2)
  BY <1>1, <1>3, <1>4 DEF Follows
<1> QED BY <1>2, <1>3, <1>4

\* A frame is sent behind those that are still to be read.
LEMMA StreamSend ==
  ASSUME NEW st, NEW s, Streams(st, s), Len(s) < MaxFrames, NEW f \in Frames
  PROVE  LET s2 == Append(s, f)
             t == st \o Encode(Len(s) + 1, f)
         IN /\ Streams(t, s2) /\ t # << >>
            /\ IF st = << >> THEN Begun(Head(t), Len(s) + 1) ELSE Head(t) = Head(st)
<1> DEFINE i == Len(s) + 1
           s2 == Append(s, f)
           bytes == Encode(i, f)
           t == st \o bytes
           n == Len(st)
           m == Len(bytes)
<1>1. /\ s \in Seq(Frames) /\ Len(s) <= MaxFrames /\ st \in Seq(Items)
      /\ \A p \in 1..n : IsPart(st[p], s)
      /\ \A p \in 1..(n - 1) : Follows(st[p], st[p + 1], s)
      /\ st # << >> => st[n].frame = Len(s) /\ EndsFrame(st[n], s)
  BY DEF Streams
<1>2. /\ s2 \in Seq(Frames) /\ Len(s) \in Nat /\ Len(s2) = i /\ s2[i] = f
      /\ \A k \in 1..Len(s) : s2[k] = s[k]
  BY <1>1, AppendFacts
<1>3. i \in 1..MaxFrames /\ i \in 1..Len(s2) /\ i <= MaxFrames
  <2>1. MaxFrames \in Nat
    BY FramingAssumption
  <2> HIDE DEF s2
  <2> QED BY <1>2, <2>1
<1> HIDE DEF s2
<1>4. /\ bytes \in Seq(Items) /\ m \in Nat \ {0} /\ Begun(bytes[1], i)
      /\ \A p \in 1..m : IsPart(bytes[p], s2)
      /\ \A p \in 1..(m - 1) : Follows(bytes[p], bytes[p + 1], s2)
      /\ bytes[m].frame = i /\ EndsFrame(bytes[m], s2)
  BY <1>2, <1>3, EncodeStreams
<1> HIDE DEF bytes
<1>5. n \in Nat
  BY <1>1, LenProperties
<1>6. /\ t \in Seq(Items) /\ Len(t) = n + m
      /\ \A p \in 1..(n + m) : t[p] = IF p <= n THEN st[p] ELSE bytes[p - n]
  BY <1>1, <1>4, ConcatProperties
<1> HIDE DEF i, m, t
<1>7. ASSUME NEW p \in 1..n
      PROVE  /\ t[p] = st[p] /\ IsPart(st[p], s2)
             /\ EndsFrame(st[p], s2) <=> EndsFrame(st[p], s)
             /\ \A y : Follows(st[p], y, s) => Follows(st[p], y, s2)
  <2>1. p \in 1..(n + m) /\ p <= n
    BY <1>4, <1>5
  <2>2. Len(s) <= Len(s2) /\ Len(s2) \in Nat
    BY <1>2 DEF i
  <2> QED BY <1>1, <1>2, <1>6, <2>1, <2>2, SameFrames
<1>8. ASSUME NEW p \in 1..m
      PROVE  t[n + p] = bytes[p]
  <2>1. n + p \in 1..(n + m) /\ ~(n + p <= n) /\ (n + p) - n = p
    BY <1>4, <1>5
  <2> QED BY <1>6, <2>1
<1>9. ASSUME NEW p \in 1..(n + m) PROVE IsPart(t[p], s2)
  <2>1. CASE p \in 1..n
    BY <1>7, <2>1
  <2>2. CASE p \notin 1..n
    <3>1. p - n \in 1..m /\ n + (p - n) = p
      BY <1>4, <1>5, <2>2
    <3> QED BY <1>4, <1>8, <3>1
  <2> QED BY <2>1, <2>2
<1>10. ASSUME NEW p \in 1..((n + m) - 1) PROVE Follows(t[p], t[p + 1], s2)
  <2>1. CASE p < n
    <3>1. p \in 1..n /\ p + 1 \in 1..n /\ p \in 1..(n - 1)
      BY <1>5, <2>1
    <3> QED BY <1>1, <1>7, <3>1
  <2>2. CASE p = n
    <3>1. p \in 1..n /\ 1 \in 1..m /\ st # << >>
      <4>1. n # 0
        BY <1>4, <2>2
      <4> QED BY <1>4, <1>5, <2>2, <4>1, EmptySeq
    <3>2. t[p] = st[n] /\ EndsFrame(st[n], s2) /\ st[n].frame = Len(s)
      BY <1>1, <1>7, <2>2, <3>1
    <3>3. t[p + 1] = bytes[1] /\ Begun(bytes[1], i)
      BY <1>4, <1>8, <2>2, <3>1
    <3> QED BY <3>2, <3>3 DEF Follows, i
  <2>3. CASE p > n
    <3>1. /\ p - n \in 1..m /\ (p - n) + 1 \in 1..m /\ p - n \in 1..(m - 1)
          /\ n + (p - n) = p /\ n + ((p - n) + 1) = p + 1
      BY <1>4, <1>5, <2>3
    <3> QED BY <1>4, <1>8, <3>1
  <2> QED BY <1>4, <1>5, <2>1, <2>2, <2>3
<1>11. t[n + m].frame = Len(s2) /\ EndsFrame(t[n + m], s2)
  <2>1. m \in 1..m
    BY <1>4
  <2> QED BY <1>2, <1>4, <1>8, <2>1
<1>12. t # << >> /\ Head(t) = t[1]
  <2>1. t # << >>
    <3>1. Len(t) # 0
      BY <1>4, <1>5, <1>6
    <3> QED BY <1>6, <3>1, EmptySeq
  <2> QED BY <1>6, <2>1, TailFacts
<1>13. Streams(t, s2)
  BY <1>2, <1>3, <1>6, <1>9, <1>10, <1>11 DEF Streams
<1>14. IF st = << >> THEN Begun(t[1], i) ELSE t[1] = Head(st)
  <2>1. CASE st = << >>
    <3>1. n = 0 /\ 1 \in 1..m /\ n + 1 = 1
      BY <1>4, <2>1, EmptySeq
    <3> QED BY <1>4, <1>8, <2>1, <3>1
  <2>2. CASE st # << >>
    <3>1. n \in Nat \ {0} /\ Head(st) = st[1]
      BY <1>1, <2>2, TailFacts
    <3>2. 1 \in 1..n
      BY <3>1
    <3> QED BY <1>7, <2>2, <3>1, <3>2
  <2> QED BY <2>1, <2>2
<1> QED BY <1>12, <1>13, <1>14 DEF t, s2, bytes, i

-----------------------------------------------------------------------------
(* The buffer.                                                             *)

LEMMA LastFacts ==
  ASSUME NEW S, NEW s \in Seq(S), s # << >>
  PROVE  Last(s) \in S /\ s = Append(Front(s), Last(s)) /\ Front(s) \in Seq(S)
<1> DEFINE n == Len(s)
           front == Front(s)
           new == Append(front, s[n])
<1>1. /\ front \in Seq(S) /\ n \in Nat \ {0} /\ Len(front) = n - 1
      /\ \A i \in 1..(n - 1) : front[i] = s[i]
  BY FrontElements
<1>2. s[n] \in S
  BY <1>1, ElementOfSeq
<1> HIDE DEF front
<1>3. /\ new \in Seq(S) /\ Len(new) = (n - 1) + 1
      /\ \A i \in 1..(n - 1) : new[i] = front[i]
      /\ new[(n - 1) + 1] = s[n]
  BY <1>1, <1>2, AppendFacts
<1> HIDE DEF new
<1>4. Len(new) = Len(s) /\ \A i \in 1..Len(s) : new[i] = s[i]
  BY <1>1, <1>3
<1>5. new = s
  BY <1>3, <1>4, SeqEqual
<1> QED BY <1>1, <1>2, <1>5 DEF Last, new, front

\* What a run put behind others makes.
LEMMA PutFacts ==
  ASSUME NEW runs \in Seq(Runs), NEW run \in Runs
  PROVE  /\ Put(runs, run) \in Seq(Runs) /\ Put(runs, run) # << >>
         /\ Total(runs) \in Nat /\ Total(Put(runs, run)) = Total(runs) + run.n
<1>1. \A x \in Runs : x.n \in Nat
  BY DEF Runs
<1>2. ASSUME NEW s \in Seq(Runs), NEW x \in Runs
      PROVE  /\ Append(s, x) \in Seq(Runs) /\ Append(s, x) # << >>
             /\ Total(s) \in Nat /\ Total(Append(s, x)) = Total(s) + x.n
  <2>1. Append(s, x) \in Seq(Runs) /\ Len(Append(s, x)) = Len(s) + 1 /\ Len(s) \in Nat
    BY AppendFacts
  <2>2. Append(s, x) # << >>
    <3>1. Len(Append(s, x)) # 0
      BY <2>1
    <3> QED BY <3>1, EmptySeq
  <2> QED BY <1>1, <2>1, <2>2, TotalFacts
<1>3. CASE runs = << >>
  <2>1. Put(runs, run) = Append(runs, run)
    <3>1. Append(<< >>, run) = << run >>
      BY AppendIsConcat, EmptySeq, ConcatEmptySeq
    <3> QED BY <1>3, <3>1 DEF Put
  <2> QED BY <1>2, <2>1
<1>4. CASE runs # << >>
  <2> DEFINE before == Last(runs)
             front == Front(runs)
             new == [before EXCEPT !.n = @ + run.n]
  <2>1. before \in Runs /\ front \in Seq(Runs) /\ runs = Append(front, before)
    BY <1>4, LastFacts
  <2>2. Put(runs, run) \in {Append(front, new), Append(runs, run)}
    BY <1>4 DEF Put
  <2> HIDE DEF before, front
  <2>3. new \in Runs /\ new.n = before.n + run.n /\ before.n \in Nat /\ run.n \in Nat
    <3> DEFINE v == before.n + run.n
    <3>1. before.n \in Nat \ {0} /\ run.n \in Nat \ {0}
      BY <2>1 DEF Runs
    <3>2. v \in Nat \ {0}
      BY <3>1
    <3>3. new = [before EXCEPT !.n = v]
      OBVIOUS
    <3> HIDE DEF v, new
    <3>4. new \in Runs /\ new.n = v
      BY <2>1, <3>2, <3>3 DEF Runs
    <3> QED BY <3>1, <3>4 DEF v
  <2> HIDE DEF new
  <2>4. Total(runs) = Total(front) + before.n /\ Total(front) \in Nat
    BY <1>2, <2>1
  <2>5. /\ Append(front, new) \in Seq(Runs) /\ Append(front, new) # << >>
        /\ Total(Append(front, new)) = Total(front) + new.n
    BY <1>2, <2>1, <2>3
  <2>6. Total(Append(front, new)) = Total(runs) + run.n
    BY <2>3, <2>4, <2>5
  <2>7. /\ Append(runs, run) \in Seq(Runs) /\ Append(runs, run) # << >>
        /\ Total(Append(runs, run)) = Total(runs) + run.n /\ Total(runs) \in Nat
    BY <1>2
  <2> QED BY <2>2, <2>5, <2>6, <2>7
<1> QED BY <1>3, <1>4

\* Bytes of a payload, unmasked.
Run(i, from, n) ==
  [frame |-> i, part |-> "payload", from |-> from, n |-> n, clear |-> TRUE]

\* Another place, or another number.
WithN(x, n) == [x EXCEPT !.n = n]
At(x, from, n) == [x EXCEPT !.from = from, !.n = n]

LEMMA RunExcept ==
  ASSUME NEW i, NEW from, NEW n, NEW a, NEW b
  PROVE  /\ WithN(Run(i, from, n), b) = Run(i, from, b)
         /\ At(Run(i, from, n), a, b) = Run(i, a, b)
<1>1. ASSUME NEW t, NEW r,
             r = [frame |-> i, part |-> "payload", from |-> from, n |-> n, clear |-> t]
      PROVE  /\ [r EXCEPT !.n = b]
                  = [frame |-> i, part |-> "payload", from |-> from, n |-> b, clear |-> t]
             /\ [[r EXCEPT !.from = a] EXCEPT !.n = b]
                  = [frame |-> i, part |-> "payload", from |-> a, n |-> b, clear |-> t]
  <2>1. [r EXCEPT !.n = b]
          = [frame |-> i, part |-> "payload", from |-> from, n |-> b, clear |-> t]
    BY <1>1, SMT
  <2> DEFINE q == [r EXCEPT !.from = a]
  <2>2. q = [frame |-> i, part |-> "payload", from |-> a, n |-> n, clear |-> t]
    BY <1>1, SMT
  <2> HIDE DEF q
  <2>3. [q EXCEPT !.n = b] = [frame |-> i, part |-> "payload", from |-> a, n |-> b, clear |-> t]
    BY <2>2, SMT
  <2> QED BY <2>1, <2>3 DEF q
<1>2. ASSUME NEW r
      PROVE  [r EXCEPT !.from = a, !.n = b] = [[r EXCEPT !.from = a] EXCEPT !.n = b]
  BY Zenon
<1> QED BY <1>1, <1>2, Zenon DEF Run, WithN, At

Buffered(i, from, n) == IF n = 0 THEN << >> ELSE << Run(i, from, n) >>

LEMMA OneRun ==
  ASSUME NEW run \in Runs
  PROVE  /\ << run >> \in Seq(Runs) /\ << run >> # << >>
         /\ Total(<< run >>) = run.n /\ Last(<< run >>) = run
         /\ \A x : Append(Front(<< run >>), x) = << x >>
<1>1. << run >> \in Seq(Runs) /\ Len(<< run >>) = 1 /\ << run >>[1] = run
  OBVIOUS
<1>2. << run >> = Append(<< >>, run) /\ << >> \in Seq(Runs)
  BY EmptySeq
<1>3. Total(<< run >>) = run.n
  <2>1. (\A x \in Runs : x.n \in Nat) /\ run.n \in Nat
    BY DEF Runs
  <2>2. Total(Append(<< >>, run)) = Total(<< >>) + run.n /\ Total(<< >>) = 0
    BY <1>2, <2>1, TotalFacts
  <2> QED BY <1>2, <2>1, <2>2
<1>4. Front(<< run >>) = << >>
  <2> DEFINE one == << run >>
  <2>1. one \in Seq(Runs) /\ Len(one) = 1 /\ one # << >>
    BY <1>1
  <2> HIDE DEF one
  <2>2. Front(one) \in Seq(Runs) /\ Len(Front(one)) = 1 - 1
    BY <2>1, FrontElements
  <2>3. Len(Front(one)) = 0
    BY <2>2
  <2>4. Front(one) = << >>
    BY <2>2, <2>3, EmptySeq
  <2> QED BY <2>4 DEF one
<1>5. \A x : Append(<< >>, x) = << x >>
  OBVIOUS
<1>6. Last(<< run >>) = run
  BY <1>1 DEF Last
<1> QED BY <1>1, <1>3, <1>4, <1>5, <1>6, Zenon

\* The bytes that follow, behind those in the buffer.
LEMMA PutNext ==
  ASSUME NEW i \in 1..MaxFrames, NEW from \in Nat, NEW k \in 0..from, NEW n \in Nat \ {0}
  PROVE  /\ Put(Buffered(i, from - k, k), Run(i, from, n)) = << Run(i, from - k, k + n) >>
         /\ Buffered(i, from - k, k) \in Seq(Runs) /\ Total(Buffered(i, from - k, k)) = k
         /\ Run(i, from, n) \in Runs /\ Run(i, from - k, k + n) \in Runs
<1> DEFINE run == Run(i, from, n)
           all == Run(i, from - k, k + n)
<1>1. from - k \in Nat /\ k + n \in Nat \ {0} /\ i \in 0..MaxFrames /\ MaxFrames \in Nat
  BY FramingAssumption
<1>2. run \in Runs /\ all \in Runs
  BY <1>1 DEF Run, Runs
<1>3. CASE k = 0
  <2>1. Buffered(i, from - k, k) = << >> /\ from - k = from /\ k + n = n
    BY <1>3 DEF Buffered
  <2>2. Put(<< >>, run) = << run >>
    BY DEF Put
  <2>3. << >> \in Seq(Runs) /\ Total(<< >>) = 0
    <3>1. \A x \in Runs : x.n \in Nat
      BY DEF Runs
    <3> QED BY <3>1, TotalFacts, EmptySeq
  <2> HIDE DEF run
  <2> QED BY <1>2, <1>3, <2>1, <2>2, <2>3 DEF run
<1>4. CASE k # 0
  <2> DEFINE before == Run(i, from - k, k)
  <2>1. k \in Nat \ {0} /\ Buffered(i, from - k, k) = << before >>
    BY <1>4 DEF Buffered
  <2>2. before \in Runs
    BY <1>1, <2>1 DEF Run, Runs
  <2>3. before.n = k /\ before.from = from - k /\ before.part = "payload"
        /\ run.n = n /\ run.from = from /\ (from - k) + k = from
    <3>1. (from - k) + k = from
      OBVIOUS
    <3> DEFINE start == from - k
    <3> HIDE DEF start
    <3>2. Run(i, start, k).n = k /\ Run(i, start, k).from = start
          /\ Run(i, start, k).part = "payload" /\ run.n = n /\ run.from = from
      BY DEF Run
    <3> QED BY <3>1, <3>2 DEF start
  <2>4. before = [run EXCEPT !.from = from - k, !.n = k]
    <3>1. before = At(run, from - k, k)
      BY RunExcept
    <3> QED BY <3>1, Zenon DEF At
  <2>5. [before EXCEPT !.n = k + n] = all
    <3>1. WithN(before, k + n) = all
      BY RunExcept
    <3> QED BY <3>1, Zenon DEF WithN
  <2> HIDE DEF before, run, all
  <2>6. Put(<< before >>, run) = Append(Front(<< before >>), all)
    <3>1. Last(<< before >>) = before /\ << before >> # << >>
      BY <2>2, OneRun
    <3>2. [before EXCEPT !.n = @ + run.n] = all
      BY <2>3, <2>5
    <3> QED BY <2>3, <2>4, <3>1, <3>2 DEF Put
  <2>7. << before >> \in Seq(Runs) /\ Total(<< before >>) = k
    BY <2>2, <2>3, OneRun
  <2>8. Append(Front(<< before >>), all) = << all >>
    BY <2>2, OneRun
  <2> QED BY <1>2, <2>1, <2>6, <2>7, <2>8 DEF run, all
<1> QED BY <1>3, <1>4


-----------------------------------------------------------------------------
(* What is written.                                                        *)

Outs ==
  {w \in [header : Seq(Octet), kind : {Text, Close, Pong}, payload : Seq(Runs)] :
     /\ Len(w.header) <= 14
     /\ Decode(w.header) =
          [fin |-> TRUE, opcode |-> w.kind, masked |-> FALSE, len |-> Total(w.payload)]}

Out(kind, runs) ==
  [header |-> HeaderOf(kind, Total(runs)), kind |-> kind, payload |-> runs]

LEMMA WrittenFacts ==
  ASSUME NEW kind \in {Text, Close, Pong}, NEW runs \in Seq(Runs),
         Total(runs) \in Nat, Shifted(Total(runs))[8] = 0,
         NEW frames \in Seq(Outs)
  PROVE  /\ Out(kind, runs) \in Outs
         /\ Out(kind, runs).kind = kind /\ Out(kind, runs).payload = runs
         /\ frames \o Written(kind, runs) =
              IF Total(runs) = 0 /\ kind # Close THEN frames
              ELSE Append(frames, Out(kind, runs))
<1> DEFINE len == Total(runs)
           h == HeaderOf(kind, len)
           w == Out(kind, runs)
<1>1. /\ Decode(h) = [fin |-> TRUE, opcode |-> kind, masked |-> FALSE, len |-> len]
      /\ h \in Seq(Octet) /\ Len(h) <= 14
  <2>1. len \in Nat /\ Shifted(len)[8] = 0 /\ kind \in {Text, Close, Pong}
    OBVIOUS
  <2> HIDE DEF len
  <2> QED BY <2>1, WrittenHeader
<1>2. w = [header |-> h, kind |-> kind, payload |-> runs]
  BY DEF Out
<1> HIDE DEF h
<1>3. w.header = h /\ w.kind = kind /\ w.payload = runs
      /\ w \in [header : Seq(Octet), kind : {Text, Close, Pong}, payload : Seq(Runs)]
  BY <1>1, <1>2
<1> HIDE DEF w
<1>4. w \in Outs
  BY <1>1, <1>3, Zenon DEF Outs
<1>5. Written(kind, runs) = IF Total(runs) = 0 /\ kind # Close THEN << >> ELSE << w >>
  BY DEF Written, w, h, Out, HeaderOf
<1>6. frames \o << w >> = Append(frames, w) /\ frames \o << >> = frames
  BY <1>4, AppendIsConcat, ConcatEmptySeq
<1> QED BY <1>3, <1>4, <1>5, <1>6 DEF w

\* A frame written is an answer, or it is a text.
Answer(w, answers) == IF w.kind = Text THEN answers ELSE Append(answers, w.payload)

IsAnswered(g, frames) ==
  g = [k \in 0..Len(frames) |-> IF k = 0 THEN << >>
                                ELSE IF frames[k].kind = Text THEN g[k - 1]
                                ELSE Append(g[k - 1], frames[k].payload)]

LEMMA AnsweredFold ==
  ASSUME NEW frames \in Seq(Outs)
  PROVE  \E g : /\ g \in [0..Len(frames) -> Seq(Seq(Runs))]
                /\ Answered(frames) = g[Len(frames)] /\ g[0] = << >>
                /\ \A k \in 1..Len(frames) : g[k] = Answer(frames[k], g[k - 1])
<1> DEFINE n == Len(frames)
           A == Seq(Seq(Runs))
           f == [k \in 1..n |-> [v \in A |-> Answer(frames[k], v)]]
           g == CHOOSE g : IsAnswered(g, frames)
<1>1. n \in Nat /\ << >> \in A
  BY LenProperties, EmptySeq
<1>2. \A k \in 1..n : frames[k].payload \in Seq(Runs)
  <2>1. \A k \in 1..n : frames[k] \in Outs
    BY ElementOfSeq
  <2> QED BY <2>1 DEF Outs
<1>3. ASSUME NEW k \in 1..n, NEW v \in A
      PROVE  Answer(frames[k], v) \in A
  <2>1. Append(v, frames[k].payload) \in A
    <3> DEFINE p == frames[k].payload
    <3>1. p \in Seq(Runs)
      BY <1>2
    <3> HIDE DEF p
    <3> QED BY <3>1, AppendProperties DEF p
  <2> QED BY <2>1 DEF Answer
<1>4. \E h : IsAnswered(h, frames)
  <2>1. \A k \in 1..n, v \in A : f[k][v] = Answer(frames[k], v)
    OBVIOUS
  <2>2. f \in [1..n -> [A -> A]]
    BY <1>3
  <2> HIDE DEF f, A
  <2>3. PICK h \in [0..n -> A] : h[0] = << >> /\ \A k \in 1..n : h[k] = f[k][h[k - 1]]
    <3> HIDE DEF n
    <3>1. \E h \in [0..n -> A] : Iterates(h, n, << >>, f)
      BY <1>1, <2>2, Recursion
    <3> QED BY <3>1 DEF Iterates
  <2>4. \A k \in 0..n : k # 0 => k \in 1..n /\ h[k - 1] \in A
    BY <1>1
  <2>5. \A k \in 0..n : h[k] = IF k = 0 THEN << >> ELSE Answer(frames[k], h[k - 1])
    BY <2>1, <2>3, <2>4
  <2> HIDE DEF n
  <2>6. h = [k \in 0..n |-> IF k = 0 THEN << >> ELSE Answer(frames[k], h[k - 1])]
    BY <2>5
  <2> QED BY <2>6 DEF IsAnswered, Answer, n
<1>5. IsAnswered(g, frames)
  BY <1>4
<1>6. Answered(frames) = g[n]
  BY DEF Answered, IsAnswered
<1> HIDE DEF g
<1>7. g = [k \in 0..n |-> IF k = 0 THEN << >> ELSE Answer(frames[k], g[k - 1])]
  BY <1>5 DEF IsAnswered, Answer
<1> HIDE DEF n, A
<1>8. /\ DOMAIN g = 0..n /\ g[0] = << >> /\ \A k \in 1..n : g[k] = Answer(frames[k], g[k - 1])
      /\ g = [k \in 0..n |-> g[k]]
  <2> DEFINE v == [k \in 0..n |-> IF k = 0 THEN << >> ELSE Answer(frames[k], g[k - 1])]
  <2>1. DOMAIN v = 0..n /\ v = [k \in 0..n |-> v[k]]
    OBVIOUS
  <2>2. v[0] = << >>
    BY <1>1
  <2>3. ASSUME NEW k \in 1..n PROVE v[k] = Answer(frames[k], g[k - 1])
    <3>1. k \in 0..n /\ k # 0
      BY <1>1
    <3> QED BY <3>1
  <2> HIDE DEF v
  <2>4. g = v
    BY <1>7 DEF v
  <2> QED BY <2>1, <2>2, <2>3, <2>4
<1> DEFINE T == {k \in 0..n : g[k] \in A}
<1>9. 0..n \subseteq T
  <2>1. 0 \in T
    BY <1>1, <1>8
  <2>2. ASSUME NEW k \in 0..(n - 1), k \in T PROVE k + 1 \in T
    <3>1. k + 1 \in 1..n /\ k + 1 \in 0..n /\ (k + 1) - 1 = k /\ g[k] \in A
      BY <1>1, <2>2
    <3>2. g[k + 1] = Answer(frames[k + 1], g[k])
      BY <1>8, <3>1
    <3>3. Answer(frames[k + 1], g[k]) \in A
      BY <1>3, <3>1
    <3> QED BY <3>1, <3>2, <3>3
  <2> HIDE DEF T
  <2> QED BY <1>1, <2>1, <2>2, Climb
<1>10. g \in [0..n -> A]
  BY <1>8, <1>9
<1> QED BY <1>6, <1>8, <1>10 DEF n, A

LEMMA AnsweredFacts ==
  ASSUME NEW frames \in Seq(Outs), NEW w \in Outs
  PROVE  /\ Answered(frames) \in Seq(Seq(Runs))
         /\ Answered(Append(frames, w)) = Answer(w, Answered(frames))
<1> DEFINE more == Append(frames, w)
           n == Len(frames)
<1>1. /\ more \in Seq(Outs) /\ Len(more) = n + 1 /\ n \in Nat
      /\ \A k \in 1..n : more[k] = frames[k]
      /\ more[n + 1] = w
  BY AppendFacts
<1> HIDE DEF more
<1>2. PICK g : /\ g \in [0..n -> Seq(Seq(Runs))] /\ Answered(frames) = g[n] /\ g[0] = << >>
               /\ \A k \in 1..n : g[k] = Answer(frames[k], g[k - 1])
  BY AnsweredFold
<1> HIDE DEF n
<1>3. PICK h : /\ Answered(more) = h[n + 1] /\ h[0] = << >>
               /\ \A k \in 1..(n + 1) : h[k] = Answer(more[k], h[k - 1])
  <2>1. more \in Seq(Outs)
    BY <1>1
  <2>2. \E h : /\ h \in [0..Len(more) -> Seq(Seq(Runs))]
               /\ Answered(more) = h[Len(more)] /\ h[0] = << >>
               /\ \A k \in 1..Len(more) : h[k] = Answer(more[k], h[k - 1])
    BY <2>1, AnsweredFold
  <2> QED BY <1>1, <2>2
<1> DEFINE T == {k \in 0..n : g[k] = h[k]}
<1>4. 0..n \subseteq T
  <2>1. 0 \in T
    BY <1>1, <1>2, <1>3
  <2>2. ASSUME NEW k \in 0..(n - 1), k \in T PROVE k + 1 \in T
    <3>1. k + 1 \in 1..n /\ k + 1 \in 1..(n + 1) /\ (k + 1) - 1 = k /\ k + 1 \in 0..n
          /\ g[k] = h[k]
      BY <1>1, <2>2
    <3>2. g[k + 1] = Answer(frames[k + 1], g[k]) /\ h[k + 1] = Answer(more[k + 1], h[k])
          /\ more[k + 1] = frames[k + 1]
      BY <1>1, <1>2, <1>3, <3>1
    <3> QED BY <3>1, <3>2
  <2> HIDE DEF T
  <2> QED BY <1>1, <2>1, <2>2, Climb
<1>5. g[n] = h[n] /\ n \in 0..n
  BY <1>1, <1>4
<1>6. h[n + 1] = Answer(w, h[n])
  <2>1. n + 1 \in 1..(n + 1) /\ (n + 1) - 1 = n
    BY <1>1
  <2> QED BY <1>1, <1>3, <2>1
<1>7. g[n] \in Seq(Seq(Runs))
  BY <1>2, <1>5
<1> QED BY <1>2, <1>3, <1>5, <1>6, <1>7 DEF more


-----------------------------------------------------------------------------
(* What was received.                                                      *)

Pieces == {p \in Seq(Runs) : p # << >>}

PassedOf(pieces, frames) ==
  IF pieces = << >> THEN 0
  ELSE LET last == Last(Last(pieces)) IN
       IF last.frame = frames + 1 THEN last.from + last.n ELSE 0

\* Nothing came of the frames behind the next one.
UpTo(pieces, frames) == pieces # << >> => Last(Last(pieces)).frame <= frames + 1

LEMMA LastPiece ==
  ASSUME NEW pieces \in Seq(Pieces), pieces # << >>
  PROVE  Last(Last(pieces)) \in Runs
<1>1. Last(pieces) \in Pieces
  BY LastFacts
<1>2. Last(pieces) \in Seq(Runs) /\ Last(pieces) # << >>
  BY <1>1 DEF Pieces
<1> QED BY <1>2, LastFacts

LEMMA PassedFacts ==
  ASSUME NEW pieces \in Seq(Pieces), NEW frames \in Nat
  PROVE  /\ PassedOf(pieces, frames) \in Nat
         /\ UpTo(pieces, frames) => PassedOf(pieces, frames + 1) = 0 /\ UpTo(pieces, frames + 1)
<1>1. CASE pieces = << >>
  BY <1>1 DEF PassedOf, UpTo
<1>2. CASE pieces # << >>
  <2> DEFINE last == Last(Last(pieces))
  <2>1. last \in Runs
    BY <1>2, LastPiece
  <2>2. PassedOf(pieces, frames) = IF last.frame = frames + 1 THEN last.from + last.n ELSE 0
    BY <1>2 DEF PassedOf
  <2>3. PassedOf(pieces, frames + 1)
          = IF last.frame = (frames + 1) + 1 THEN last.from + last.n ELSE 0
    BY <1>2 DEF PassedOf
  <2>4. /\ UpTo(pieces, frames) <=> last.frame <= frames + 1
        /\ UpTo(pieces, frames + 1) <=> last.frame <= (frames + 1) + 1
    BY <1>2 DEF UpTo
  <2> HIDE DEF last
  <2>5. last.from \in Nat /\ last.n \in Nat /\ last.frame \in Nat
    <3>1. MaxFrames \in Nat
      BY FramingAssumption
    <3> QED BY <2>1, <3>1 DEF Runs
  <2>6. last.from + last.n \in Nat
    BY <2>5
  <2>7. PassedOf(pieces, frames) \in Nat
    BY <2>2, <2>6
  <2>8. last.frame <= frames + 1 =>
          last.frame # (frames + 1) + 1 /\ last.frame <= (frames + 1) + 1
    BY <2>5
  <2> QED BY <2>3, <2>4, <2>7, <2>8
<1> QED BY <1>1, <1>2

LEMMA AppendLast ==
  ASSUME NEW S, NEW s \in Seq(S), NEW e \in S
  PROVE  Append(s, e) \in Seq(S) /\ Append(s, e) # << >> /\ Last(Append(s, e)) = e
<1> DEFINE new == Append(s, e)
<1>1. new \in Seq(S) /\ Len(s) \in Nat /\ Len(new) = Len(s) + 1 /\ new[Len(s) + 1] = e
  BY AppendFacts
<1> HIDE DEF new
<1>2. new # << >>
  <2>1. Len(new) # 0
    BY <1>1
  <2> QED BY <2>1, EmptySeq
<1>3. Last(new) = e
  BY <1>1 DEF Last
<1> QED BY <1>1, <1>2, <1>3 DEF new

\* Bytes of a payload that were passed on.
LEMMA PassedPiece ==
  ASSUME NEW pieces \in Seq(Pieces), NEW frames \in Nat, NEW from, NEW n,
         Run(frames + 1, from, n) \in Runs
  PROVE  LET more == Append(pieces, << Run(frames + 1, from, n) >>) IN
           /\ more \in Seq(Pieces)
           /\ UpTo(more, frames) /\ PassedOf(more, frames) = from + n
           /\ UpTo(more, frames + 1) /\ PassedOf(more, frames + 1) = 0
<1> DEFINE run == Run(frames + 1, from, n)
           more == Append(pieces, << run >>)
<1>1. << run >> \in Pieces /\ Last(<< run >>) = run
  BY OneRun DEF Pieces
<1>2. run.frame = frames + 1 /\ run.from = from /\ run.n = n
  BY DEF Run
<1> HIDE DEF run
<1>3. more \in Seq(Pieces) /\ more # << >> /\ Last(Last(more)) = run
  BY <1>1, AppendLast
<1> HIDE DEF more
<1>4. PassedOf(more, frames) = from + n
  BY <1>2, <1>3 DEF PassedOf
<1>5. UpTo(more, frames)
  BY <1>2, <1>3 DEF UpTo
<1> QED BY <1>3, <1>4, <1>5, PassedFacts DEF more, run

-----------------------------------------------------------------------------
(* The inductive invariant.                                                *)

Typed ==
  /\ rx \in [state : {"NEW", "HDR_LEN", "LEN", "KEY", "PAYLOAD"}, left : 0..8]
  /\ opcode \in 0..15 /\ masked \in BOOLEAN /\ length \in 0..SizeMax
  /\ nonce \in [1..4 -> Octet] /\ maskIndex \in 0..3
  /\ buffer \in Seq(Runs) /\ Total(buffer) < MaxRx
  /\ received \in Seq(Pieces) /\ wire \in Seq(Outs)
  /\ open \in BOOLEAN

Zeros == <<0, 0, 0, 0>>

\* No byte of the payload has come.
Fresh == buffer = << >> /\ Passed = 0

AtStart(x) == x.part = "header" /\ x.from = 0 /\ rx = [state |-> "NEW", left |-> 0] /\ Fresh

AtLength(x, f) ==
  /\ x.part = "header" /\ x.from = 1
  /\ rx = [state |-> "HDR_LEN", left |-> 0] /\ opcode = f.opcode /\ nonce = Zeros
  /\ Fresh

InLength(x, f) ==
  /\ x.part = "header" /\ x.from \in 2..(Begins(f) - 1)
  /\ rx = [state |-> "LEN", left |-> Begins(f) - x.from] /\ opcode = f.opcode
  /\ f.opcode < 8 /\ (masked <=> f.key # << >>)
  /\ length = Shifted(f.len)[Begins(f) - x.from] /\ nonce = Zeros
  /\ Fresh

ShortControl(f) == f.opcode >= 8 => f.len <= 125

InKey(x, f) ==
  /\ x.part = "header" /\ f.key # << >> /\ x.from \in Begins(f)..(Begins(f) + 3)
  /\ rx = [state |-> "KEY", left |-> (Begins(f) + 4) - x.from] /\ opcode = f.opcode
  /\ ShortControl(f) /\ length = f.len
  /\ \A j \in 1..4 : nonce[j] = IF j <= x.from - Begins(f) THEN f.key[j] ELSE 0
  /\ Fresh

KeyOf(f) == IF f.key = << >> THEN Zeros ELSE f.key

\* k bytes of the payload are in the buffer, and the others were passed on if it is data.
InPayload(x, f) ==
  /\ x.part = "payload"
  /\ rx = [state |-> "PAYLOAD", left |-> 0] /\ opcode = f.opcode
  /\ ShortControl(f) /\ length = f.len - x.from
  /\ nonce = KeyOf(f) /\ (nonce # Zeros => maskIndex = x.from % 4)
  /\ \E k \in 0..x.from :
       /\ k < MaxRx /\ (f.opcode >= 8 => k = x.from)
       /\ buffer = Buffered(x.frame, x.from - k, k)
       /\ Passed = IF f.opcode \in {1, 2} THEN x.from - k ELSE 0

Known(x, f) ==
  AtStart(x) \/ AtLength(x, f) \/ InLength(x, f) \/ InKey(x, f) \/ InPayload(x, f)

\* The machine knows where in the stream it is.
Synced ==
  /\ UpTo(received, Read)
  /\ IF stream = << >> THEN rx = [state |-> "NEW", left |-> 0] /\ Fresh
     ELSE Known(Head(stream), sent[Head(stream).frame])

Lost == \E i \in 1..Read : sent[i].len = 0

\* All that is ever sent does not take the payload of a lost frame to its end.
Came(st, s) ==
  IF st = << >> THEN 0
  ELSE Head(st).from + (IF Head(st).part = "header" THEN 0 ELSE Len(Header(s[Head(st).frame])))

Astray ==
  /\ rx.state = "PAYLOAD"
  /\ ToEnd + (Read * (MaxLen + 14) + Came(stream, sent)) >= SizeMax + 1

IInv ==
  /\ Typed
  /\ Streams(stream, sent)
  /\ open /\ ~Lost => Synced
  /\ open /\ Lost => Astray

\* What is promised of a step: until an empty frame is met, it is the reader's, or
\* skips a continuation.
ReaderStep == [NoneEmpty => Reader!Next \/ SkipsContinuation]_(Reader!vars)

-----------------------------------------------------------------------------
(* Where in the stream a byte is.                                          *)

LEMMA PassedIs == Passed = PassedOf(received, Read)
BY DEF Passed, PassedOf

LEMMA HeadFacts ==
  ASSUME Streams(stream, sent), stream # << >>
  PROVE  LET x == Head(stream)
             f == sent[x.frame]
         IN /\ x \in Items /\ IsPart(x, sent) /\ x.frame \in 1..Len(sent)
            /\ x.frame \in 1..MaxFrames /\ MaxFrames \in Nat
            /\ f \in Frames /\ Read = x.frame - 1 /\ Read \in Nat
            /\ f.len \in Nat /\ Header(f) \in Seq(Octet)
            /\ Len(Header(f)) = 2 + Extended(f.len) + Len(f.key)
            /\ Len(Header(f)) \in Nat /\ Len(Header(f)) >= 2
<1> DEFINE x == Head(stream)
           f == sent[x.frame]
           h == Header(f)
<1>1. x \in Items /\ IsPart(x, sent) /\ sent \in Seq(Frames) /\ Len(sent) <= MaxFrames
  BY StreamTail DEF Streams
<1>2. Read = x.frame - 1
  BY DEF Read
<1> HIDE DEF x
<1>3. x.frame \in 1..Len(sent) /\ Len(sent) \in Nat /\ MaxFrames \in Nat
  BY <1>1, LenProperties, FramingAssumption DEF IsPart
<1>4. x.frame \in 1..MaxFrames /\ x.frame - 1 \in Nat
  BY <1>1, <1>3
<1>5. f \in Frames
  BY <1>1, <1>3, ElementOfSeq
<1> HIDE DEF f
<1>6. f.len \in Nat
  BY <1>5, FrameFacts
<1>7. h \in Seq(Octet) /\ Len(h) = 2 + Extended(f.len) + Len(f.key)
  BY <1>5, HeaderFacts
<1>8. Len(h) \in Nat /\ Len(h) >= 2
  <2>1. Extended(f.len) \in {0, 2, 8} /\ Len(f.key) \in Nat
    BY <1>5, <1>6, FrameFacts, ExtendedFacts
  <2> HIDE DEF h
  <2>2. Len(h) = 2 + Extended(f.len) + Len(f.key)
    BY <1>7
  <2> QED BY <2>1, <2>2
<1> QED BY <1>1, <1>2, <1>3, <1>4, <1>5, <1>6, <1>7, <1>8 DEF x, f, h

\* The first of the stream is taken.
LEMMA Advance ==
  ASSUME Streams(stream, sent), stream # << >>, stream' = Tail(stream), sent' = sent
  PROVE  LET x == Head(stream)
             f == sent[x.frame]
         IN /\ Streams(stream', sent')
            /\ IF EndsFrame(x, sent)
                 THEN Read' = x.frame /\ (stream' # << >> => Begun(Head(stream'), x.frame + 1))
                 ELSE /\ stream' # << >> /\ Read' = Read
                      /\ Head(stream').frame = x.frame
                      /\ IF x.from + 1 < Len(Header(f))
                           THEN Head(stream').part = "header" /\ Head(stream').from = x.from + 1
                           ELSE Head(stream').part = "payload" /\ Head(stream').from = 0
<1> DEFINE x == Head(stream)
<1>1. /\ Streams(Tail(stream), sent)
      /\ IF Tail(stream) = << >> THEN x.frame = Len(sent) /\ EndsFrame(x, sent)
         ELSE Follows(x, Head(Tail(stream)), sent)
  BY StreamTail
<1>2. x.frame \in Nat /\ Read = x.frame - 1
  BY HeadFacts
<1> HIDE DEF x
<1>3. Streams(stream', sent')
  BY <1>1
<1>4. IF stream' = << >> THEN x.frame = Len(sent') /\ EndsFrame(x, sent)
      ELSE Follows(x, Head(stream'), sent)
  BY <1>1
<1>5. Read' = IF stream' = << >> THEN Len(sent') ELSE Head(stream').frame - 1
  BY DEF Read
<1>6. CASE EndsFrame(x, sent)
  <2>1. stream' # << >> => Begun(Head(stream'), x.frame + 1)
    BY <1>4, <1>6 DEF Follows
  <2>2. Read' = x.frame
    <3>1. CASE stream' = << >>
      BY <1>4, <1>5, <3>1
    <3>2. CASE stream' # << >>
      <4>1. Head(stream').frame = x.frame + 1 /\ (x.frame + 1) - 1 = x.frame
        BY <1>2, <2>1, <3>2 DEF Begun
      <4> QED BY <1>5, <3>2, <4>1
    <3> QED BY <3>1, <3>2
  <2> QED BY <1>3, <1>6, <2>1, <2>2 DEF x
<1>7. CASE ~EndsFrame(x, sent)
  <2>1. stream' # << >> /\ Follows(x, Head(stream'), sent)
    BY <1>4, <1>7
  <2>2. Read' = Head(stream').frame - 1
    BY <1>5, <2>1
  <2> QED BY <1>2, <1>3, <1>7, <2>1, <2>2 DEF Follows, x
<1> QED BY <1>6, <1>7


-----------------------------------------------------------------------------
(* What a step of the machine leaves as it was.                            *)

\* Where the machine is, by its state.
LEMMA Where ==
  ASSUME IInv, open, stream # << >>
  PROVE  LET x == Head(stream)
             f == sent[x.frame]
         IN /\ rx.state # "PAYLOAD" => ~Lost
            /\ ~Lost => UpTo(received, Read)
            /\ ~Lost /\ rx.state = "NEW" => AtStart(x)
            /\ ~Lost /\ rx.state = "HDR_LEN" => AtLength(x, f)
            /\ ~Lost /\ rx.state = "LEN" => InLength(x, f)
            /\ ~Lost /\ rx.state = "KEY" => InKey(x, f)
            /\ ~Lost /\ rx.state = "PAYLOAD" => InPayload(x, f)
<1> DEFINE x == Head(stream)
           f == sent[x.frame]
<1>1. /\ Lost => rx.state = "PAYLOAD"
      /\ ~Lost => UpTo(received, Read) /\ Known(x, f)
  BY DEF IInv, Synced, Astray
<1> HIDE DEF x, f
<1>2. AtStart(x) => rx.state = "NEW"
  BY DEF AtStart
<1>3. AtLength(x, f) => rx.state = "HDR_LEN"
  BY DEF AtLength
<1>4. InLength(x, f) => rx.state = "LEN"
  BY DEF InLength
<1>5. InKey(x, f) => rx.state = "KEY"
  BY DEF InKey
<1>6. InPayload(x, f) => rx.state = "PAYLOAD"
  BY DEF InPayload
<1>7. Known(x, f) =>
        AtStart(x) \/ AtLength(x, f) \/ InLength(x, f) \/ InKey(x, f) \/ InPayload(x, f)
  BY DEF Known
<1> QED BY <1>1, <1>2, <1>3, <1>4, <1>5, <1>6, <1>7 DEF x, f

\* The value of a byte of a header.
LEMMA ByteIs ==
  ASSUME Streams(stream, sent), stream # << >>, Head(stream).part = "header"
  PROVE  LET x == Head(stream)
             h == Header(sent[x.frame])
         IN /\ x.from \in Nat /\ x.from < Len(h) /\ x.n = 1
            /\ c = h[x.from + 1] /\ c \in Octet
            /\ EndsFrame(x, sent) <=> x.from + 1 = Len(h) /\ sent[x.frame].len = 0
<1>1. Head(stream) \in Items /\ IsPart(Head(stream), sent)
  BY HeadFacts
<1> QED BY <1>1 DEF c, IsPart, Items, EndsFrame

LEMMA LostNext ==
  ASSUME Read \in Nat, sent' = sent
  PROVE  /\ Read' = Read => (Lost' <=> Lost)
         /\ Read' = Read + 1 => (Lost' <=> Lost \/ sent[Read + 1].len = 0)
<1>1. Lost' <=> \E i \in 1..Read' : sent[i].len = 0
  BY DEF Lost
<1>2. ASSUME Read' = Read + 1
      PROVE  Lost' <=> Lost \/ sent[Read + 1].len = 0
  <2>1. 1..Read' = 1..Read \cup {Read + 1}
    BY <1>2
  <2> QED BY <1>1, <2>1 DEF Lost
<1>3. ASSUME Read' = Read PROVE Lost' <=> Lost
  BY <1>1, <1>3 DEF Lost
<1> QED BY <1>2, <1>3

\* Nothing that the reader sees has changed.
LEMMA QuietStep ==
  ASSUME UNCHANGED <<sent, received, wire, open>>, Read' = Read
  PROVE  Passed' = Passed /\ UNCHANGED Reader!vars
<1>1. Passed' = PassedOf(received', Read')
  BY DEF Passed, PassedOf
<1>2. Passed' = Passed
  BY <1>1, PassedIs
<1>3. Answers' = Answers
  BY DEF Answers
<1> QED BY <1>2, <1>3 DEF Reader!vars

\* The machine knows where it is in a frame, when it knows it in one byte of it.
LEMMA SyncedIn ==
  ASSUME stream' # << >>, NEW y, y = Head(stream'), NEW f, f = sent'[y.frame],
         Known(y, f)', UpTo(received', Read')
  PROVE  Synced'
BY DEF Synced

LEMMA FirstByteStep ==
  ASSUME IInv, FirstByte
  PROVE  IInv' /\ UNCHANGED Reader!vars
<1>1. /\ open /\ stream # << >> /\ rx.state = "NEW" /\ stream' = Tail(stream)
      /\ opcode' = c % 16 /\ nonce' = Zeros /\ rx' = [state |-> "HDR_LEN", left |-> 0]
      /\ UNCHANGED <<sent, masked, length, maskIndex, buffer, received, wire, open>>
  BY DEF FirstByte, Takes, OneByte, Goto, Zeros
<1>2. Streams(stream, sent) /\ Typed
  BY DEF IInv
<1> DEFINE x == Head(stream)
<1> PICK f : f = sent[x.frame]
  OBVIOUS
<1>3. ~Lost /\ UpTo(received, Read) /\ AtStart(x)
  BY <1>1, Where
<1>4. c = Header(f)[1] /\ c \in Octet /\ x.from + 1 < Len(Header(f)) /\ ~EndsFrame(x, sent)
  <2>1. x.part = "header" /\ x.from = 0
    BY <1>3 DEF AtStart
  <2>2. Len(Header(f)) >= 2 /\ Len(Header(f)) \in Nat
    BY <1>1, <1>2, HeadFacts
  <2>3. c = Header(f)[x.from + 1] /\ c \in Octet
        /\ (EndsFrame(x, sent) <=> x.from + 1 = Len(Header(f)) /\ f.len = 0)
    BY <1>1, <1>2, <2>1, ByteIs
  <2> HIDE DEF x
  <2>4. x.from + 1 = 1
    BY <2>1
  <2>5. 1 < Len(Header(f))
    BY <2>2
  <2>6. c = Header(f)[1]
    BY <2>3, <2>4
  <2> QED BY <2>3, <2>4, <2>5, <2>6
<1>5. PICK y : y = Head(stream')
  OBVIOUS
<1>6. /\ Streams(stream', sent') /\ stream' # << >> /\ Read' = Read
      /\ y.frame = x.frame /\ y.part = "header" /\ y.from = 1
  <2>1. x.from + 1 = 1
    BY <1>3 DEF AtStart
  <2> QED BY <1>1, <1>2, <1>4, <1>5, <2>1, Advance
<1>7. Passed' = Passed /\ UNCHANGED Reader!vars
  BY <1>1, <1>6, QuietStep
<1>8. f \in Frames /\ Read \in Nat
  BY <1>1, <1>2, HeadFacts
<1>9. opcode' = f.opcode /\ f.opcode \in 0..15
  BY <1>1, <1>4, <1>8, HeaderFacts, FrameFacts
<1>10. AtLength(y, f)'
  <2>1. buffer' = << >> /\ Passed' = 0
    BY <1>1, <1>3, <1>7 DEF AtStart, Fresh
  <2> QED BY <1>1, <1>6, <1>9, <2>1 DEF AtLength, Fresh
<1>11. Synced'
  <2>1. f = sent'[y.frame] /\ UpTo(received', Read')
    BY <1>1, <1>3, <1>6
  <2>2. Known(y, f)'
    BY <1>10 DEF Known
  <2> QED BY <1>5, <1>6, <2>1, <2>2, SyncedIn
<1>12. Lost' <=> Lost
  BY <1>1, <1>6, <1>8, LostNext
<1>13. Typed'
  <2>1. nonce' \in [1..4 -> Octet]
    BY <1>1 DEF Zeros, Octet
  <2>2. rx' \in [state : {"NEW", "HDR_LEN", "LEN", "KEY", "PAYLOAD"}, left : 0..8]
    BY <1>1
  <2> QED BY <1>1, <1>2, <1>9, <2>1, <2>2 DEF Typed
<1> QED BY <1>3, <1>6, <1>7, <1>11, <1>12, <1>13 DEF IInv


LEMMA CameFacts ==
  ASSUME NEW st, NEW s, Streams(st, s)
  PROVE  Came(st, s) \in Nat
<1>1. CASE st = << >>
  BY <1>1 DEF Came
<1>2. CASE st # << >>
  <2> DEFINE x == Head(st)
             m == Len(Header(s[x.frame]))
  <2>1. x \in Items /\ IsPart(x, s) /\ s \in Seq(Frames)
    BY <1>2, StreamTail DEF Streams
  <2>2. s[x.frame] \in Frames
    BY <2>1, ElementOfSeq DEF IsPart
  <2>3. m \in Nat
    BY <2>2, HeaderFacts, LenProperties
  <2>4. x.from \in Nat
    BY <2>1 DEF Items
  <2>5. Came(st, s) = x.from + (IF x.part = "header" THEN 0 ELSE m)
    BY <1>2 DEF Came
  <2> HIDE DEF x, m
  <2> QED BY <2>3, <2>4, <2>5
<1> QED BY <1>1, <1>2

\* The length of nothing is taken for the largest there is.
LEMMA AstrayAtEmpty ==
  ASSUME rx'.state = "PAYLOAD", length' = 0, Streams(stream', sent'), Read' \in Nat
  PROVE  Astray'
<1> DEFINE came == Came(stream', sent')
           before == Read' * (MaxLen + 14)
<1>1. came \in Nat
  BY CameFacts
<1>2. before \in Nat
  <2>1. MaxLen \in Nat
    BY FramingAssumption
  <2>2. MaxLen + 14 \in Nat
    BY <2>1
  <2>3. \A a, b \in Nat : a * b \in Nat
    OBVIOUS
  <2> QED BY <2>2, <2>3
<1>3. ToEnd' = SizeMax + 1 /\ SizeMax \in Nat
  BY FramingAssumption DEF ToEnd
<1> HIDE DEF came, before
<1>4. ToEnd' + (before + came) >= SizeMax + 1
  BY <1>1, <1>2, <1>3
<1> QED BY <1>4 DEF Astray, came, before

\* The last byte of a header was taken.
LEMMA HeaderEnds ==
  ASSUME Streams(stream, sent), open, stream # << >>, NEW f, f = sent[Head(stream).frame],
         Head(stream).part = "header", Head(stream).from + 1 = Len(Header(f)),
         ~Lost, UpTo(received, Read), Fresh, received \in Seq(Pieces),
         stream' = Tail(stream), rx' = [state |-> "PAYLOAD", left |-> 0],
         opcode' = f.opcode, length' = f.len, nonce' = KeyOf(f),
         f.key # << >> => maskIndex' = 0, ShortControl(f), Typed',
         UNCHANGED <<sent, buffer, received, wire, open>>
  PROVE  IInv' /\ ReaderStep
<1> DEFINE x == Head(stream)
<1>1. /\ f \in Frames /\ Read = x.frame - 1 /\ Read \in Nat /\ x.frame \in 1..Len(sent)
      /\ f.len \in Nat
  BY HeadFacts
<1>2. EndsFrame(x, sent) <=> f.len = 0
  BY ByteIs
<1> PICK y : y = Head(stream')
  OBVIOUS
<1>3. CASE f.len # 0
  <2>1. /\ Streams(stream', sent') /\ stream' # << >> /\ Read' = Read
        /\ y.frame = x.frame /\ y.part = "payload" /\ y.from = 0
    <3>1. ~(x.from + 1 < Len(Header(f)))
      <4>1. Len(Header(f)) \in Nat
        BY HeadFacts
      <4> QED BY <4>1
    <3> QED BY <1>2, <1>3, <3>1, Advance
  <2>2. Passed' = Passed /\ UNCHANGED Reader!vars
    BY <2>1, QuietStep
  <2>3. InPayload(y, f)'
    <3> DEFINE k == 0
    <3>1. k \in 0..y.from /\ y.from - k = 0 /\ k < MaxRx
      <4>1. MaxRx \in Nat /\ MaxRx >= 125
        BY FramingAssumption
      <4> QED BY <2>1, <4>1
    <3>2. buffer' = Buffered(y.frame, y.from - k, k) /\ Passed' = 0
      BY <2>2 DEF Fresh, Buffered
    <3>3. \E j \in 0..y.from :
            /\ j < MaxRx /\ (f.opcode >= 8 => j = y.from)
            /\ buffer' = Buffered(y.frame, y.from - j, j)
            /\ Passed' = IF f.opcode \in {1, 2} THEN y.from - j ELSE 0
      BY <2>1, <3>1, <3>2
    <3>4. length' = f.len - y.from /\ y.from % 4 = 0
      <4>1. f.len - 0 = f.len /\ 0 % 4 = 0
        BY <1>1
      <4> QED BY <2>1, <4>1
    <3>5. nonce' # Zeros => maskIndex' = y.from % 4
      BY <3>4 DEF KeyOf
    <3> QED BY <2>1, <3>3, <3>4, <3>5 DEF InPayload
  <2>4. Synced'
    <3>1. f = sent'[y.frame] /\ UpTo(received', Read')
      BY <2>1
    <3>2. Known(y, f)'
      BY <2>3 DEF Known
    <3> QED BY <2>1, <3>1, <3>2, SyncedIn
  <2>5. ~Lost'
    BY <1>1, <2>1, LostNext
  <2> QED BY <2>1, <2>2, <2>4, <2>5 DEF IInv, ReaderStep
<1>4. CASE f.len = 0
  <2>1. Streams(stream', sent') /\ Read' = x.frame
    BY <1>2, <1>4, Advance
  <2> HIDE DEF x
  <2>2. Read' = Read + 1 /\ Read' \in Nat /\ Read + 1 = x.frame /\ Read < Len(sent)
    <3>1. Len(sent) \in Nat
      BY LenProperties DEF Streams
    <3> QED BY <1>1, <2>1, <3>1
  <2>3. sent[Read + 1].len = 0
    BY <1>4, <2>2 DEF x
  <2>4. Lost'
    BY <1>1, <2>2, <2>3, LostNext
  <2>5. Astray'
    <3>1. rx'.state = "PAYLOAD" /\ length' = 0
      BY <1>4
    <3> QED BY <2>1, <2>2, <3>1, AstrayAtEmpty
  <2>6. ~NoneEmpty
    <3>1. Read + 1 \in 1..(Read + 1) /\ Read + 1 <= Len(sent) /\ ~(0 > 0)
      BY <1>1, <2>1, <2>2 DEF x
    <3> QED BY <2>3, <3>1 DEF NoneEmpty
  <2> QED BY <2>1, <2>4, <2>5, <2>6 DEF IInv, ReaderStep
<1> QED BY <1>3, <1>4


\* All the frames before, and one more, are less than a size_t counts.
LEMMA Sizes ==
  ASSUME NEW r \in Nat, r + 1 <= MaxFrames
  PROVE  LET b == MaxLen + 14 IN
           /\ b \in Nat /\ SizeMax \in Nat /\ r * b \in Nat
           /\ r * b + b <= SizeMax /\ (r + 1) * b = r * b + b
<1> DEFINE b == MaxLen + 14
           d == MaxFrames - (r + 1)
<1>1. MaxLen \in Nat /\ SizeMax \in Nat /\ MaxFrames \in Nat /\ MaxFrames * b <= SizeMax
  BY FramingAssumption
<1>2. b \in Nat /\ d \in Nat /\ MaxFrames = (r + 1) + d
  BY <1>1
<1> HIDE DEF b, d
<1>3. \A u, v \in Nat : u * v \in Nat
  OBVIOUS
<1>4. \A u, v, w \in Nat : ((u + 1) + v) * w = (u + 1) * w + v * w /\ (u + 1) * w = u * w + w
  OBVIOUS
<1>5. ((r + 1) + d) * b = (r * b + b) + d * b /\ (r + 1) * b = r * b + b
  BY <1>2, <1>4
<1>6. r * b \in Nat /\ d * b \in Nat
  BY <1>2, <1>3
<1>7. (r * b + b) + d * b <= SizeMax
  BY <1>1, <1>2, <1>5
<1>8. r * b + b <= SizeMax
  <2> DEFINE p == r * b
             q == d * b
  <2>1. p \in Nat /\ q \in Nat /\ (p + b) + q <= SizeMax
    BY <1>6, <1>7
  <2> HIDE DEF p, q
  <2>2. p + b <= SizeMax
    BY <1>1, <1>2, <2>1
  <2> QED BY <2>2 DEF p
<1> QED BY <1>1, <1>2, <1>5, <1>6, <1>8 DEF b

LEMMA LengthFits ==
  ASSUME Streams(stream, sent), stream # << >>
  PROVE  LET f == sent[Head(stream).frame] IN
           /\ f.len \in 0..SizeMax /\ f.len <= MaxLen /\ Shifted(f.len)[7] < 128
           /\ Shifted(f.len)[Extended(f.len)] = IF Extended(f.len) = 0 THEN f.len ELSE 0
           /\ SizeMax \in Nat
<1> DEFINE x == Head(stream)
           f == sent[x.frame]
<1>1. f \in Frames /\ x.frame \in 1..MaxFrames /\ MaxFrames \in Nat
  BY HeadFacts
<1>2. f.len \in Nat /\ f.len <= MaxLen /\ MaxLen \in Nat
  BY <1>1, FrameFacts
<1> HIDE DEF f, x
<1>3. f.len <= SizeMax /\ SizeMax \in Nat
  <2>1. 0 + 1 <= MaxFrames
    BY <1>1
  <2>2. 0 * (MaxLen + 14) + (MaxLen + 14) <= SizeMax /\ SizeMax \in Nat
    BY <2>1, Sizes
  <2>3. 0 * (MaxLen + 14) = 0
    BY <1>2
  <2> QED BY <1>2, <2>2, <2>3
<1>4. f.len \in 0..SizeMax
  BY <1>2, <1>3
<1>5. Shifted(f.len)[7] < 128 /\ Shifted(f.len)[8] = 0
  <2>1. f.len \in 0..MaxLen /\ Shifted(MaxLen)[7] < 128
    BY <1>2, FramingAssumption
  <2> QED BY <1>2, <2>1, ShiftedLess
<1>6. Shifted(f.len)[Extended(f.len)] = IF Extended(f.len) = 0 THEN f.len ELSE 0
  <2>1. Extended(f.len) \in {0, 2, 8} /\ (Extended(f.len) = 2 => Shifted(f.len)[2] = 0)
    BY <1>2, ExtendedFacts
  <2>2. Shifted(f.len)[0] = f.len
    BY <1>2, ShiftedFacts
  <2>3. CASE Extended(f.len) = 0
    BY <2>2, <2>3
  <2>4. CASE Extended(f.len) = 2
    BY <2>1, <2>4
  <2>5. CASE Extended(f.len) = 8
    BY <1>5, <2>5
  <2> QED BY <2>1, <2>3, <2>4, <2>5
<1> QED BY <1>2, <1>3, <1>4, <1>5, <1>6 DEF f, x

LEMMA LengthByteStep ==
  ASSUME IInv, LengthByte
  PROVE  IInv' /\ ReaderStep
<1> DEFINE len7 == c % 128
           x == Head(stream)
<1>1. /\ open /\ stream # << >> /\ rx.state = "HDR_LEN" /\ stream' = Tail(stream)
      /\ masked' = (c >= 128)
      /\ UNCHANGED <<sent, opcode, nonce, maskIndex, buffer, received, wire>>
      /\ \/ len7 < 126 /\ length' = len7 /\ AfterLength(masked') /\ open' = open
         \/ /\ len7 >= 126 /\ opcode < 8 /\ length' = 0 /\ open' = open
            /\ rx' = [state |-> "LEN", left |-> IF len7 = 126 THEN 2 ELSE 8]
         \/ len7 >= 126 /\ opcode >= 8 /\ open' = FALSE /\ rx' = rx /\ length' = length
  BY DEF LengthByte, Takes, OneByte, Goto
<1>2. Streams(stream, sent) /\ Typed
  BY DEF IInv
<1> PICK f : f = sent[x.frame]
  OBVIOUS
<1>3. ~Lost /\ UpTo(received, Read) /\ AtLength(x, f)
  BY <1>1, Where
<1>4. /\ f \in Frames /\ Read \in Nat /\ f.len \in Nat /\ Read = x.frame - 1
      /\ x.frame \in 1..Len(sent)
      /\ Len(Header(f)) = 2 + Extended(f.len) + Len(f.key)
  BY <1>1, <1>2, HeadFacts
<1>5. /\ f.opcode \in 0..15 /\ f.key \in Seq(Octet)
      /\ Len(f.key) = IF f.key = << >> THEN 0 ELSE 4
  BY <1>4, FrameFacts
<1>6. /\ f.len \in 0..SizeMax /\ SizeMax \in Nat
      /\ Shifted(f.len)[Extended(f.len)] = IF Extended(f.len) = 0 THEN f.len ELSE 0
  BY <1>1, <1>2, LengthFits
<1>7. /\ Extended(f.len) \in {0, 2, 8} /\ (Extended(f.len) = 0 <=> f.len < 126)
  BY <1>4, ExtendedFacts
<1>8. x.part = "header" /\ x.from = 1 /\ opcode = f.opcode /\ nonce = Zeros /\ Fresh
  BY <1>3 DEF AtLength
<1>9. /\ c = Header(f)[2]
      /\ EndsFrame(x, sent) <=> 2 = Len(Header(f)) /\ f.len = 0
  <2>1. /\ c = Header(f)[x.from + 1]
        /\ EndsFrame(x, sent) <=> x.from + 1 = Len(Header(f)) /\ f.len = 0
    BY <1>1, <1>2, <1>8, ByteIs
  <2>2. x.from + 1 = 2
    BY <1>8
  <2> QED BY <2>1, <2>2
<1>10. /\ c >= 128 <=> f.key # << >>
       /\ len7 = IF Extended(f.len) = 0 THEN f.len
                 ELSE IF Extended(f.len) = 2 THEN 126 ELSE 127
  BY <1>4, <1>9, HeaderFacts
<1>11. (masked' <=> f.key # << >>) /\ masked' \in BOOLEAN
  <2>1. (c >= 128) \in BOOLEAN
    OBVIOUS
  <2> QED BY <1>1, <1>10, <2>1
<1> HIDE DEF len7
<1> PICK y : y = Head(stream')
  OBVIOUS
<1>12. 2 < Len(Header(f)) =>
         /\ Streams(stream', sent') /\ stream' # << >> /\ Read' = Read
         /\ y.frame = x.frame /\ y.part = "header" /\ y.from = 2 /\ ~EndsFrame(x, sent)
         /\ (Lost' <=> Lost)
  <2> SUFFICES ASSUME 2 < Len(Header(f))
               PROVE  /\ Streams(stream', sent') /\ stream' # << >> /\ Read' = Read
                      /\ y.frame = x.frame /\ y.part = "header" /\ y.from = 2
                      /\ ~EndsFrame(x, sent) /\ (Lost' <=> Lost)
    OBVIOUS
  <2>1. x.from + 1 = 2 /\ ~EndsFrame(x, sent)
    <3>1. Len(Header(f)) # 2
      <4> DEFINE m == Len(Header(f))
      <4>1. m \in Nat /\ 2 < m
        BY <1>1, <1>2, HeadFacts
      <4> HIDE DEF m
      <4>2. m # 2
        BY <4>1
      <4> QED BY <4>2 DEF m
    <3> QED BY <1>8, <1>9, <3>1
  <2>2. /\ Streams(stream', sent') /\ stream' # << >> /\ Read' = Read
        /\ y.frame = x.frame /\ y.part = "header" /\ y.from = 2
    BY <1>1, <1>2, <2>1, Advance
  <2> QED BY <1>1, <1>4, <2>1, <2>2, LostNext
<1> HIDE DEF x
<1>13. CASE len7 < 126 /\ length' = len7 /\ AfterLength(masked') /\ open' = open
  <2>1. Extended(f.len) = 0 /\ length' = f.len
    BY <1>7, <1>10, <1>13
  <2>2. ShortControl(f)
    BY <1>4, <1>7, <2>1 DEF ShortControl
  <2>3. CASE f.key # << >>
    <3>1. rx' = [state |-> "KEY", left |-> 4]
      BY <1>11, <1>13, <2>3 DEF AfterLength, Goto
    <3>2. Len(Header(f)) = 6
      BY <1>4, <1>5, <2>1, <2>3
    <3>3. Passed' = Passed /\ UNCHANGED Reader!vars
      BY <1>1, <1>12, <1>13, <3>2, QuietStep
    <3>4. Typed'
      <4>1. rx' \in [state : {"NEW", "HDR_LEN", "LEN", "KEY", "PAYLOAD"}, left : 0..8]
        BY <3>1
      <4> QED BY <1>1, <1>2, <1>6, <1>11, <1>13, <2>1, <4>1 DEF Typed
    <3>5. InKey(y, f)'
      <4>1. Begins(f) = 2 /\ y.from - Begins(f) = 0 /\ y.from \in Begins(f)..(Begins(f) + 3)
            /\ (Begins(f) + 4) - y.from = 4
        BY <1>12, <2>1, <3>2 DEF Begins
      <4>2. \A j \in 1..4 : nonce'[j] = IF j <= y.from - Begins(f) THEN f.key[j] ELSE 0
        <5>1. nonce' = Zeros
          BY <1>1, <1>8
        <5> QED BY <4>1, <5>1 DEF Zeros
      <4>3. buffer' = << >> /\ Passed' = 0
        BY <1>1, <1>8, <3>3 DEF Fresh
      <4> QED BY <1>1, <1>8, <1>12, <2>1, <2>2, <2>3, <3>1, <3>2, <4>1, <4>2, <4>3
              DEF InKey, Fresh
    <3>6. Synced'
      <4>1. f = sent'[y.frame] /\ UpTo(received', Read') /\ stream' # << >>
        BY <1>1, <1>3, <1>12, <3>2 DEF x
      <4>2. Known(y, f)'
        BY <3>5 DEF Known
      <4> QED BY <4>1, <4>2, SyncedIn
    <3> QED BY <1>3, <1>12, <3>2, <3>3, <3>4, <3>6 DEF IInv, ReaderStep
  <2>4. CASE f.key = << >>
    <3>1. rx' = [state |-> "PAYLOAD", left |-> 0]
      BY <1>11, <1>13, <2>4 DEF AfterLength, Goto
    <3>2. x.from + 1 = Len(Header(f))
      BY <1>4, <1>5, <1>8, <2>1, <2>4
    <3>3. Typed'
      <4>1. rx' \in [state : {"NEW", "HDR_LEN", "LEN", "KEY", "PAYLOAD"}, left : 0..8]
        BY <3>1
      <4> QED BY <1>1, <1>2, <1>6, <1>11, <1>13, <2>1, <4>1 DEF Typed
    <3>4. nonce' = KeyOf(f) /\ opcode' = f.opcode /\ received \in Seq(Pieces)
      BY <1>1, <1>2, <1>8, <2>4 DEF KeyOf, Typed
    <3> QED BY <1>1, <1>2, <1>3, <1>8, <1>13, <2>1, <2>2, <2>4, <3>1, <3>2, <3>3, <3>4,
               HeaderEnds DEF x
  <2> QED BY <2>3, <2>4
<1>14. CASE /\ len7 >= 126 /\ opcode < 8 /\ length' = 0 /\ open' = open
            /\ rx' = [state |-> "LEN", left |-> IF len7 = 126 THEN 2 ELSE 8]
  <2>1. Extended(f.len) \in {2, 8} /\ rx' = [state |-> "LEN", left |-> Extended(f.len)]
    BY <1>4, <1>7, <1>10, <1>14
  <2>2. 2 < Len(Header(f))
    BY <1>4, <1>5, <2>1
  <2>3. Passed' = Passed /\ UNCHANGED Reader!vars
    BY <1>1, <1>12, <1>14, <2>2, QuietStep
  <2>4. Typed'
    <3>1. rx' \in [state : {"NEW", "HDR_LEN", "LEN", "KEY", "PAYLOAD"}, left : 0..8]
      BY <2>1
    <3> QED BY <1>1, <1>2, <1>6, <1>11, <1>14, <3>1 DEF Typed
  <2>5. InLength(y, f)'
    <3>1. y.from \in 2..(Begins(f) - 1) /\ Begins(f) - y.from = Extended(f.len)
      BY <1>12, <2>1, <2>2 DEF Begins
    <3>2. length' = Shifted(f.len)[Begins(f) - y.from]
      BY <1>6, <1>14, <2>1, <3>1
    <3>3. buffer' = << >> /\ Passed' = 0
      BY <1>1, <1>8, <2>3 DEF Fresh
    <3> QED BY <1>1, <1>8, <1>11, <1>12, <1>14, <2>1, <2>2, <3>1, <3>2, <3>3
            DEF InLength, Fresh
  <2>6. Synced'
    <3>1. f = sent'[y.frame] /\ UpTo(received', Read') /\ stream' # << >>
      BY <1>1, <1>3, <1>12, <2>2 DEF x
    <3>2. Known(y, f)'
      BY <2>5 DEF Known
    <3> QED BY <3>1, <3>2, SyncedIn
  <2> QED BY <1>3, <1>12, <2>2, <2>3, <2>4, <2>6 DEF IInv, ReaderStep
<1>15. CASE len7 >= 126 /\ opcode >= 8 /\ open' = FALSE /\ rx' = rx /\ length' = length
  <2>1. Extended(f.len) \in {2, 8} /\ f.len > 125 /\ f.len > 0 /\ f.opcode \in 8..15
    <3>1. Extended(f.len) # 0
      BY <1>4, <1>7, <1>10, <1>15
    <3>2. f.len > 125 /\ f.len > 0
      BY <1>4, <1>7, <3>1
    <3>3. f.opcode \in 8..15
      BY <1>5, <1>8, <1>15
    <3> QED BY <1>7, <3>1, <3>2, <3>3
  <2>2. 2 < Len(Header(f))
    BY <1>4, <1>5, <2>1
  <2>3. Typed'
    BY <1>1, <1>2, <1>11, <1>15 DEF Typed
  <2>4. Reader!Refuse
    <3>1. Answers' = Answers /\ Passed' = PassedOf(received', Read')
      BY <1>1 DEF Answers, Passed, PassedOf
    <3>2. Passed' = Passed /\ Read' = Read
      BY <1>1, <1>12, <2>2, <3>1, PassedIs
    <3>3. Read + 1 = x.frame /\ Read < Len(sent) /\ sent[Read + 1] = f
      <4>1. Read + 1 = x.frame
        BY <1>4
      <4>2. Len(sent) \in Nat
        BY <1>2, LenProperties DEF Streams
      <4> QED BY <1>4, <4>1, <4>2 DEF x
    <3>4. Reader!Reads(Reader!Control)
      <4>1. sent[Read + 1].opcode \in Reader!Control
        BY <2>1, <3>3 DEF Reader!Control
      <4> QED BY <1>1, <3>3, <4>1 DEF Reader!Reads
    <3> QED BY <1>1, <1>15, <2>1, <3>1, <3>2, <3>3, <3>4 DEF Reader!Refuse
  <2> QED BY <1>12, <1>15, <2>2, <2>3, <2>4 DEF IInv, ReaderStep, Reader!Next
<1> QED BY <1>1, <1>13, <1>14, <1>15


LEMMA ShiftedBound ==
  ASSUME NEW len \in Nat
  PROVE  \A i \in 0..8 : Shifted(len)[i] \in 0..len
<1> DEFINE s == Shifted(len)
           T == {i \in 0..8 : s[i] <= len}
           n == 8
<1>1. /\ s \in [0..8 -> Nat] /\ s[0] = len
      /\ \A i \in 1..8 : s[i] = s[i - 1] \div 256
  BY ShiftedFacts
<1> HIDE DEF s
<1>2. 0..n \subseteq T
  <2>1. 0 \in T /\ n \in Nat
    BY <1>1
  <2>2. ASSUME NEW i \in 0..(n - 1), i \in T PROVE i + 1 \in T
    <3>1. i + 1 \in 1..8 /\ i + 1 \in 0..8 /\ (i + 1) - 1 = i /\ s[i] <= len
      BY <2>2
    <3>2. s[i] \in Nat
      BY <1>1
    <3>3. s[i] \div 256 <= s[i]
      BY <3>2
    <3>4. s[i + 1] = s[i] \div 256 /\ s[i + 1] \in Nat
      BY <1>1, <3>1
    <3>5. s[i + 1] <= len
      BY <3>1, <3>2, <3>3, <3>4
    <3> QED BY <3>1, <3>5
  <2> HIDE DEF T, n
  <2> QED BY <2>1, <2>2, Climb
<1>3. \A i \in 0..8 : s[i] \in Nat /\ s[i] <= len
  BY <1>1, <1>2
<1>4. \A i \in 0..8 : s[i] \in 0..len
  BY <1>3
<1> QED BY <1>4 DEF s

LEMMA ExtendedLengthStep ==
  ASSUME IInv, ExtendedLength
  PROVE  IInv' /\ ReaderStep
<1> DEFINE x == Head(stream)
<1>1. /\ open /\ stream # << >> /\ rx.state = "LEN" /\ stream' = Tail(stream)
      /\ IF rx.left = 8 /\ c >= 128
           THEN open' = FALSE /\ rx' = rx /\ length' = length
           ELSE /\ length' = 256 * length + c
                /\ IF rx.left > 1 THEN rx' = [state |-> "LEN", left |-> rx.left - 1]
                   ELSE AfterLength(masked)
                /\ open' = open
      /\ UNCHANGED <<sent, opcode, masked, nonce, maskIndex, buffer, received, wire>>
  BY DEF ExtendedLength, Takes, OneByte, Goto
<1>2. Streams(stream, sent) /\ Typed
  BY DEF IInv
<1> PICK f : f = sent[x.frame]
  OBVIOUS
<1> DEFINE e == Extended(f.len)
           s == Shifted(f.len)
           m == Len(Header(f))
<1>3. ~Lost /\ UpTo(received, Read) /\ InLength(x, f)
  BY <1>1, Where
<1>4. /\ f \in Frames /\ Read \in Nat /\ f.len \in Nat /\ Read = x.frame - 1
      /\ x.frame \in 1..Len(sent)
      /\ m = 2 + e + Len(f.key)
  BY <1>1, <1>2, HeadFacts
<1>5. Len(f.key) = IF f.key = << >> THEN 0 ELSE 4
  BY <1>4, FrameFacts
<1>6. f.len \in 0..SizeMax /\ SizeMax \in Nat /\ s[7] < 128
  BY <1>1, <1>2, LengthFits
<1>7. e \in {0, 2, 8}
  BY <1>4, ExtendedFacts
<1>8. /\ x.part = "header" /\ x.from \in 2..(Begins(f) - 1)
      /\ rx = [state |-> "LEN", left |-> Begins(f) - x.from]
      /\ opcode = f.opcode /\ f.opcode < 8 /\ (masked <=> f.key # << >>)
      /\ length = s[Begins(f) - x.from] /\ nonce = Zeros /\ Fresh
  BY <1>3 DEF InLength
<1> DEFINE left == rx.left
<1>9. /\ left \in 1..e /\ left \in 1..8 /\ x.from \in Nat /\ x.from = (2 + e) - left
      /\ Begins(f) = 2 + e /\ length = s[left]
  <2>1. left = Begins(f) - x.from /\ Begins(f) = 2 + e
    BY <1>8 DEF Begins
  <2> HIDE DEF left
  <2> QED BY <1>7, <1>8, <2>1
<1>10. c = Low(s[left - 1]) /\ c \in Octet
  <2>1. c = Header(f)[x.from + 1] /\ c \in Octet
    BY <1>1, <1>2, <1>8, ByteIs
  <2> DEFINE i == x.from - 1
  <2>2. i \in 1..e /\ 2 + i = x.from + 1 /\ e - i = left - 1
    <3> HIDE DEF left, x
    <3> QED BY <1>7, <1>9
  <2>3. \A k \in 1..e : Header(f)[2 + k] = Low(s[e - k])
    BY <1>4, HeaderFacts
  <2> HIDE DEF i
  <2> QED BY <2>1, <2>2, <2>3
<1>11. ~(left = 8 /\ c >= 128)
  <2>1. left = 8 => c = Low(s[7]) /\ s[7] \in Nat
    <3>1. 8 - 1 = 7 /\ 7 \in 0..8
      OBVIOUS
    <3>2. f.len \in Nat
      BY <1>4
    <3>3. s \in [0..8 -> Nat]
      BY <3>2, ShiftedFacts, Zenon
    <3> HIDE DEF left, s
    <3> QED BY <1>10, <3>1, <3>3
  <2>2. s[7] \in Nat => Low(s[7]) < 128
    BY <1>6 DEF Low
  <2>3. left = 8 => c < 128
    BY <2>1, <2>2
  <2>4. c \in Nat
    <3>1. \A b \in Octet : b \in Nat
      BY DEF Octet
    <3> QED BY <1>10, <3>1
  <2> HIDE DEF left
  <2> QED BY <2>3, <2>4
<1>12. length' = s[left - 1] /\ open' = open
  <2>1. length' = Join(s[left], Low(s[left - 1])) /\ open' = open
    BY <1>1, <1>9, <1>10, <1>11 DEF Join
  <2> QED BY <1>4, <1>9, <2>1, ShiftedBack
<1>13. length' \in 0..SizeMax
  <2>1. left - 1 \in 0..8
    BY <1>9
  <2>2. s[left - 1] \in 0..f.len
    BY <1>4, <2>1, ShiftedBound
  <2> QED BY <1>6, <1>12, <2>2
<1> HIDE DEF s
<1> PICK y : y = Head(stream')
  OBVIOUS
<1>14. ASSUME x.from + 1 < m
       PROVE  /\ Streams(stream', sent') /\ stream' # << >> /\ Read' = Read
              /\ y.frame = x.frame /\ y.part = "header" /\ y.from = x.from + 1
              /\ (Lost' <=> Lost)
              /\ Passed' = Passed /\ UNCHANGED Reader!vars
  <2>1. ~EndsFrame(x, sent)
    <3>1. x.from + 1 # m
      <4>1. m \in Nat
        BY <1>1, <1>2, HeadFacts
      <4> HIDE DEF m, x
      <4> QED BY <1>9, <1>14, <4>1
    <3> QED BY <1>1, <1>2, <1>8, <3>1, ByteIs
  <2>2. /\ Streams(stream', sent') /\ stream' # << >> /\ Read' = Read
        /\ y.frame = x.frame /\ y.part = "header" /\ y.from = x.from + 1
    BY <1>1, <1>2, <1>14, <2>1, Advance
  <2>3. Lost' <=> Lost
    BY <1>1, <1>4, <2>2, LostNext
  <2>4. Passed' = Passed /\ UNCHANGED Reader!vars
    BY <1>1, <1>12, <2>2, QuietStep
  <2> QED BY <2>2, <2>3, <2>4
<1> HIDE DEF x, left, m
<1>15. CASE left > 1
  <2>1. rx' = [state |-> "LEN", left |-> left - 1]
    BY <1>1, <1>11, <1>15 DEF left
  <2>2. x.from + 1 < m /\ (2 + e) - (x.from + 1) = left - 1 /\ x.from + 1 \in 2..((2 + e) - 1)
    <3> DEFINE k == Len(f.key)
               j == x.from
    <3>1. k \in {0, 4} /\ e \in {0, 2, 8} /\ left \in 1..e /\ left > 1 /\ j = (2 + e) - left
          /\ m = 2 + e + k
      BY <1>4, <1>5, <1>7, <1>9, <1>15
    <3> HIDE DEF k, e, j
    <3> QED BY <3>1 DEF j
  <2>3. Typed'
    <3>1. left - 1 \in 0..8
      BY <1>9
    <3>2. rx' \in [state : {"NEW", "HDR_LEN", "LEN", "KEY", "PAYLOAD"}, left : 0..8]
      BY <2>1, <3>1
    <3> QED BY <1>1, <1>2, <1>12, <1>13, <3>2 DEF Typed
  <2>4. InLength(y, f)'
    <3>1. buffer' = << >> /\ Passed' = 0
      BY <1>1, <1>8, <1>14, <2>2 DEF Fresh
    <3>2. y.from \in 2..(Begins(f) - 1) /\ Begins(f) - y.from = left - 1
      BY <1>9, <1>14, <2>2
    <3> QED BY <1>1, <1>8, <1>12, <1>14, <2>1, <2>2, <3>1, <3>2 DEF InLength, Fresh, s
  <2>5. Synced'
    <3>1. f = sent'[y.frame] /\ UpTo(received', Read') /\ stream' # << >>
      BY <1>1, <1>3, <1>14, <2>2 DEF x
    <3>2. Known(y, f)'
      BY <2>4 DEF Known
    <3> QED BY <3>1, <3>2, SyncedIn
  <2> QED BY <1>3, <1>14, <2>2, <2>3, <2>5 DEF IInv, ReaderStep
<1>16. CASE ~(left > 1)
  <2>1. left = 1 /\ x.from + 1 = 2 + e
    BY <1>7, <1>9, <1>16
  <2>2. length' = f.len /\ AfterLength(masked)
    <3>1. s[0] = f.len
      BY <1>4, ShiftedFacts DEF s
    <3>2. length' = s[0]
      <4>1. left - 1 = 0
        BY <2>1
      <4> QED BY <1>12, <4>1
    <3> QED BY <1>1, <1>11, <2>1, <3>1, <3>2 DEF left
  <2>3. ShortControl(f)
    <3>1. f.opcode \in 0..15
      BY <1>4, FrameFacts
    <3> QED BY <1>8, <3>1 DEF ShortControl
  <2>4. CASE f.key # << >>
    <3>1. rx' = [state |-> "KEY", left |-> 4]
      BY <1>8, <2>2, <2>4 DEF AfterLength, Goto
    <3>2. x.from + 1 < m
      BY <1>4, <1>5, <1>7, <1>9, <2>1, <2>4
    <3>3. Typed'
      <4>1. rx' \in [state : {"NEW", "HDR_LEN", "LEN", "KEY", "PAYLOAD"}, left : 0..8]
        BY <3>1
      <4> QED BY <1>1, <1>2, <1>12, <1>13, <4>1 DEF Typed
    <3>4. InKey(y, f)'
      <4>1. y.from - Begins(f) = 0 /\ y.from \in Begins(f)..(Begins(f) + 3)
            /\ (Begins(f) + 4) - y.from = 4
        <5> DEFINE b == Begins(f)
        <5>1. y.from = b /\ b \in Nat
          BY <1>7, <1>9, <1>14, <2>1, <3>2
        <5> HIDE DEF b
        <5> QED BY <5>1 DEF b
      <4>2. \A j \in 1..4 : nonce'[j] = IF j <= y.from - Begins(f) THEN f.key[j] ELSE 0
        <5>1. nonce' = Zeros
          BY <1>1, <1>8
        <5> QED BY <4>1, <5>1 DEF Zeros
      <4>3. buffer' = << >> /\ Passed' = 0
        BY <1>1, <1>8, <1>14, <3>2 DEF Fresh
      <4> QED BY <1>1, <1>8, <1>14, <2>2, <2>3, <2>4, <3>1, <3>2, <4>1, <4>2, <4>3
              DEF InKey, Fresh
    <3>5. Synced'
      <4>1. f = sent'[y.frame] /\ UpTo(received', Read') /\ stream' # << >>
        BY <1>1, <1>3, <1>14, <3>2 DEF x
      <4>2. Known(y, f)'
        BY <3>4 DEF Known
      <4> QED BY <4>1, <4>2, SyncedIn
    <3> QED BY <1>3, <1>14, <3>2, <3>3, <3>5 DEF IInv, ReaderStep
  <2>5. CASE f.key = << >>
    <3>1. rx' = [state |-> "PAYLOAD", left |-> 0]
      BY <1>8, <2>2, <2>5 DEF AfterLength, Goto
    <3>2. x.from + 1 = m
      BY <1>4, <1>5, <1>7, <1>9, <2>1, <2>5
    <3>3. Typed'
      <4>1. rx' \in [state : {"NEW", "HDR_LEN", "LEN", "KEY", "PAYLOAD"}, left : 0..8]
        BY <3>1
      <4> QED BY <1>1, <1>2, <1>12, <1>13, <4>1 DEF Typed
    <3>4. nonce' = KeyOf(f) /\ opcode' = f.opcode /\ received \in Seq(Pieces)
      BY <1>1, <1>2, <1>8, <2>5 DEF KeyOf, Typed
    <3> QED BY <1>1, <1>2, <1>3, <1>8, <1>12, <2>2, <2>3, <2>5, <3>1, <3>2, <3>3, <3>4,
               HeaderEnds DEF x, m
  <2> QED BY <2>4, <2>5
<1> QED BY <1>15, <1>16


LEMMA KeyByteStep ==
  ASSUME IInv, KeyByte
  PROVE  IInv' /\ ReaderStep
<1> DEFINE x == Head(stream)
<1>1. /\ open /\ stream # << >> /\ rx.state = "KEY" /\ stream' = Tail(stream)
      /\ nonce' = [nonce EXCEPT ![5 - rx.left] = c]
      /\ IF rx.left > 1
           THEN rx' = [state |-> "KEY", left |-> rx.left - 1] /\ maskIndex' = maskIndex
           ELSE rx' = [state |-> "PAYLOAD", left |-> 0] /\ maskIndex' = 0
      /\ UNCHANGED <<sent, opcode, masked, length, buffer, received, wire, open>>
  BY DEF KeyByte, Takes, OneByte, Goto
<1>2. Streams(stream, sent) /\ Typed
  BY DEF IInv
<1> PICK f : f = sent[x.frame]
  OBVIOUS
<1> DEFINE e == Extended(f.len)
           m == Len(Header(f))
           left == rx.left
           i == 5 - left
<1>3. ~Lost /\ UpTo(received, Read) /\ InKey(x, f)
  BY <1>1, Where
<1>4. /\ f \in Frames /\ Read \in Nat /\ f.len \in Nat /\ Read = x.frame - 1
      /\ x.frame \in 1..Len(sent)
      /\ m = 2 + e + Len(f.key)
  BY <1>1, <1>2, HeadFacts
<1>5. /\ x.part = "header" /\ f.key # << >> /\ x.from \in Begins(f)..(Begins(f) + 3)
      /\ rx = [state |-> "KEY", left |-> (Begins(f) + 4) - x.from] /\ opcode = f.opcode
      /\ ShortControl(f) /\ length = f.len
      /\ \A j \in 1..4 : nonce[j] = IF j <= x.from - Begins(f) THEN f.key[j] ELSE 0
      /\ Fresh
  BY <1>3 DEF InKey
<1>6. f.key \in Seq(Octet) /\ Len(f.key) = 4 /\ e \in {0, 2, 8}
  BY <1>4, <1>5, FrameFacts, ExtendedFacts
<1>7. Begins(f) = 2 + e /\ left = (Begins(f) + 4) - x.from
  BY <1>5 DEF Begins
<1>8. /\ left \in 1..4 /\ i \in 1..4 /\ x.from \in Nat /\ x.from - Begins(f) = i - 1
      /\ x.from + 1 = 2 + e + i /\ (x.from + 1) - Begins(f) = i /\ m = 6 + e
      /\ (Begins(f) + 4) - (x.from + 1) = left - 1
  <2> DEFINE from == x.from
             b == Begins(f)
  <2>1. from \in b..(b + 3) /\ b = 2 + e /\ left = (b + 4) - from /\ m = 2 + e + 4
    BY <1>4, <1>5, <1>6, <1>7
  <2> HIDE DEF from, b, left, e, m
  <2>2. e \in Nat /\ b \in Nat
    BY <1>6, <2>1 DEF e
  <2> QED BY <2>1, <2>2 DEF from, b
<1>9. c = f.key[i] /\ c \in Octet
  <2>1. c = Header(f)[x.from + 1] /\ c \in Octet
    BY <1>1, <1>2, <1>5, ByteIs
  <2>2. \A k \in 1..Len(f.key) : Header(f)[2 + e + k] = f.key[k]
    BY <1>4, HeaderFacts
  <2> HIDE DEF i
  <2> QED BY <1>6, <1>8, <2>1, <2>2
<1>10. /\ nonce' \in [1..4 -> Octet]
       /\ \A j \in 1..4 : nonce'[j] = IF j <= i THEN f.key[j] ELSE 0
  <2>1. nonce \in [1..4 -> Octet] /\ nonce' = [nonce EXCEPT ![i] = c]
    BY <1>1, <1>2 DEF Typed
  <2>2. \A j \in 1..4 : nonce[j] = IF j <= i - 1 THEN f.key[j] ELSE 0
    BY <1>5, <1>8
  <2> HIDE DEF i
  <2>3. nonce' \in [1..4 -> Octet] /\ \A j \in 1..4 : nonce'[j] = IF j = i THEN c ELSE nonce[j]
    BY <1>8, <1>9, <2>1
  <2>4. ASSUME NEW j \in 1..4
        PROVE  nonce'[j] = IF j <= i THEN f.key[j] ELSE 0
    <3>1. CASE j = i
      <4>1. j <= i
        BY <1>8, <3>1
      <4> QED BY <1>9, <2>3, <3>1, <4>1
    <3>2. CASE j # i
      <4>1. j <= i <=> j <= i - 1
        BY <1>8, <3>2
      <4> QED BY <2>2, <2>3, <3>2, <4>1
    <3> QED BY <3>1, <3>2
  <2> QED BY <2>3, <2>4
<1> PICK y : y = Head(stream')
  OBVIOUS
<1> HIDE DEF m
<1>11. CASE left > 1
  <2>1. rx' = [state |-> "KEY", left |-> left - 1] /\ maskIndex' = maskIndex
    BY <1>1, <1>11
  <2>2. x.from + 1 < m /\ x.from + 1 \in Begins(f)..(Begins(f) + 3)
    <3> DEFINE from == x.from
               b == Begins(f)
    <3>1. b = 2 + e /\ left = (b + 4) - from /\ m = 6 + e /\ left \in 1..4 /\ from \in Nat
      BY <1>7, <1>8
    <3>2. left > 1 /\ e \in {0, 2, 8}
      BY <1>6, <1>11
    <3> HIDE DEF from, b, left, e
    <3> QED BY <3>1, <3>2 DEF from, b
  <2>3. ~EndsFrame(x, sent)
    <3>1. x.from + 1 # m
      <4> DEFINE next == x.from + 1
      <4>1. next < m /\ next \in Nat /\ m \in Nat
        BY <1>1, <1>2, <1>8, <2>2, HeadFacts DEF m
      <4> HIDE DEF next
      <4>2. next # m
        BY <4>1
      <4> QED BY <4>2 DEF next
    <3> QED BY <1>1, <1>2, <1>5, <3>1, ByteIs DEF m
  <2>4. /\ Streams(stream', sent') /\ stream' # << >> /\ Read' = Read
        /\ y.frame = x.frame /\ y.part = "header" /\ y.from = x.from + 1
    BY <1>1, <1>2, <2>2, <2>3, Advance DEF m
  <2>5. Lost' <=> Lost
    BY <1>1, <1>4, <2>4, LostNext
  <2>6. Passed' = Passed /\ UNCHANGED Reader!vars
    BY <1>1, <2>4, QuietStep
  <2> HIDE DEF left
  <2>7. Typed'
    <3>1. left - 1 \in 0..8
      BY <1>8
    <3>2. rx' \in [state : {"NEW", "HDR_LEN", "LEN", "KEY", "PAYLOAD"}, left : 0..8]
      BY <2>1, <3>1
    <3> QED BY <1>1, <1>2, <1>10, <2>1, <3>2 DEF Typed
  <2> HIDE DEF x, i
  <2>8. InKey(y, f)'
    <3>1. buffer' = << >> /\ Passed' = 0
      BY <1>1, <1>5, <2>6 DEF Fresh
    <3>2. y.from \in Begins(f)..(Begins(f) + 3) /\ (Begins(f) + 4) - y.from = left - 1
          /\ y.from - Begins(f) = i
      BY <1>8, <2>2, <2>4
    <3> QED BY <1>1, <1>5, <1>10, <2>1, <2>4, <3>1, <3>2 DEF InKey, Fresh
  <2>9. Synced'
    <3>1. f = sent'[y.frame] /\ UpTo(received', Read') /\ stream' # << >>
      BY <1>1, <1>3, <2>4 DEF x
    <3>2. Known(y, f)'
      BY <2>8 DEF Known
    <3> QED BY <3>1, <3>2, SyncedIn
  <2> QED BY <1>3, <2>4, <2>5, <2>6, <2>7, <2>9 DEF IInv, ReaderStep
<1>12. CASE ~(left > 1)
  <2>1. left = 1 /\ i = 4 /\ x.from + 1 = m
    <3>1. left = 1 /\ i = 4
      BY <1>8, <1>12
    <3>2. x.from + 1 = 2 + e + 4
      BY <1>8, <3>1
    <3> HIDE DEF left, i, e, x
    <3>3. 2 + e + 4 = 6 + e
      BY <1>6 DEF e
    <3> QED BY <1>8, <3>1, <3>2, <3>3
  <2>2. rx' = [state |-> "PAYLOAD", left |-> 0] /\ maskIndex' = 0
    BY <1>1, <1>12
  <2>3. nonce' = KeyOf(f)
    <3>1. \A j \in 1..4 : nonce'[j] = f.key[j]
      BY <1>10, <2>1
    <3>2. f.key \in [1..4 -> Octet]
      <4>1. DOMAIN f.key = 1..4 /\ f.key \in [1..Len(f.key) -> Octet]
        BY <1>6, LenProperties
      <4> QED BY <1>6, <4>1
    <3>3. nonce' = f.key
      BY <1>10, <3>1, <3>2
    <3> QED BY <1>5, <3>3 DEF KeyOf
  <2>4. Typed'
    <3>1. rx' \in [state : {"NEW", "HDR_LEN", "LEN", "KEY", "PAYLOAD"}, left : 0..8]
      BY <2>2
    <3> QED BY <1>1, <1>2, <1>10, <2>2, <3>1 DEF Typed
  <2>5. opcode' = f.opcode /\ length' = f.len /\ received \in Seq(Pieces)
    BY <1>1, <1>2, <1>5 DEF Typed
  <2> QED BY <1>1, <1>2, <1>3, <1>5, <2>1, <2>2, <2>3, <2>4, <2>5, HeaderEnds DEF m
<1> QED BY <1>11, <1>12


-----------------------------------------------------------------------------
(* Bytes of a payload, or what is taken for it.                            *)

LEMMA LeastFacts ==
  ASSUME NEW u \in Nat, NEW v \in Nat, NEW w \in Nat
  PROVE  LET least == LeastOf({u, v, w}) IN
           least \in {u, v, w} /\ least <= u /\ least <= v /\ least <= w
<1>1. \E k \in {u, v, w} : \A j \in {u, v, w} : k <= j
  <2>1. CASE u <= v /\ u <= w
    BY <2>1
  <2>2. CASE v <= u /\ v <= w
    BY <2>2
  <2>3. CASE w <= u /\ w <= v
    BY <2>3
  <2> QED BY <2>1, <2>2, <2>3
<1> QED BY <1>1, Zenon DEF LeastOf

LEMMA CountFacts ==
  ASSUME Typed, Streams(stream, sent), stream # << >>, NEW n \in Counts
  PROVE  /\ n \in Nat \ {0} /\ n <= Head(stream).n /\ n <= ToEnd /\ n <= Room
         /\ ToEnd \in Nat \ {0} /\ ToEnd <= SizeMax + 1 /\ SizeMax \in Nat
         /\ Room \in Nat \ {0} /\ Total(buffer) \in Nat /\ Room = MaxRx - Total(buffer)
         /\ MaxRx \in Nat
<1>1. Head(stream).n \in Nat \ {0}
  BY HeadFacts DEF Items
<1>2. /\ length \in 0..SizeMax /\ buffer \in Seq(Runs) /\ Total(buffer) < MaxRx
      /\ SizeMax \in Nat /\ MaxRx \in Nat
  BY FramingAssumption DEF Typed
<1>3. ToEnd \in Nat \ {0} /\ ToEnd <= SizeMax + 1
  BY <1>2 DEF ToEnd
<1>4. Total(buffer) \in Nat
  <2>1. \A run \in Runs : run.n \in Nat
    BY DEF Runs
  <2> QED BY <1>2, <2>1, TotalFacts
<1>5. Room \in Nat \ {0} /\ Room = MaxRx - Total(buffer)
  BY <1>2, <1>4 DEF Room
<1> DEFINE all == Head(stream).n
<1>6. /\ Most \in {all, ToEnd, Room}
      /\ Most <= all /\ Most <= ToEnd /\ Most <= Room
  <2> HIDE DEF all
  <2>1. Most = LeastOf({all, ToEnd, Room})
    BY DEF Most, all
  <2> QED BY <1>1, <1>3, <1>5, <2>1, LeastFacts DEF all
<1>7. n \in {1, Most}
  BY DEF Counts
<1> HIDE DEF all
<1>8. Most \in Nat \ {0}
  BY <1>1, <1>3, <1>5, <1>6 DEF all
<1>9. n \in Nat \ {0} /\ n <= all /\ n <= ToEnd /\ n <= Room
  BY <1>1, <1>3, <1>5, <1>6, <1>7, <1>8 DEF all
<1> QED BY <1>2, <1>3, <1>4, <1>5, <1>9 DEF all

LEMMA FilledFacts ==
  ASSUME Typed, Streams(stream, sent), stream # << >>, NEW n \in Counts
  PROVE  /\ Filled(n) \in Seq(Runs) /\ Filled(n) # << >>
         /\ Total(Filled(n)) = Total(buffer) + n
         /\ Total(Filled(n)) \in 1..MaxRx /\ Shifted(Total(Filled(n)))[8] = 0
<1> DEFINE x == Head(stream)
           clear == Clear(x)
<1>1. /\ n \in Nat \ {0} /\ n <= Room /\ Room = MaxRx - Total(buffer)
      /\ Total(buffer) \in Nat /\ MaxRx \in Nat
  BY CountFacts
<1>2. x \in Items /\ MaxFrames \in Nat /\ buffer \in Seq(Runs)
  BY HeadFacts DEF Typed
<1>3. Taken(x, n) \in Runs /\ Taken(x, n).n = n
  <2>1. clear \in BOOLEAN
    BY DEF Clear
  <2>2. Taken(x, n) =
          [frame |-> x.frame, part |-> x.part, from |-> x.from, n |-> n, clear |-> clear]
    BY DEF Taken
  <2>3. x.frame \in 0..MaxFrames /\ x.part \in {"header", "payload", "reply"} /\ x.from \in Nat
    BY <1>2 DEF Items
  <2> HIDE DEF x, clear
  <2> QED BY <1>1, <2>1, <2>2, <2>3 DEF Runs
<1>4. Filled(n) = Put(buffer, Taken(x, n))
  BY DEF Filled
<1>5. /\ Filled(n) \in Seq(Runs) /\ Filled(n) # << >>
      /\ Total(Filled(n)) = Total(buffer) + n
  BY <1>2, <1>3, <1>4, PutFacts
<1> DEFINE total == Total(Filled(n))
<1>6. total \in 1..MaxRx
  <2>1. total = Total(buffer) + n
    BY <1>5
  <2> HIDE DEF total
  <2> QED BY <1>1, <2>1
<1>7. Shifted(total)[8] = 0
  <2>1. total \in 0..MaxRx /\ Shifted(MaxRx)[7] < 128
    BY <1>1, <1>6, FramingAssumption
  <2> QED BY <1>1, <2>1, ShiftedLess
<1> QED BY <1>5, <1>6, <1>7

\* What is left of the stream.
LEMMA ConsumeStream ==
  ASSUME Streams(stream, sent), stream # << >>, NEW n \in Nat \ {0}, n <= Head(stream).n,
         Consume(n)
  PROVE  LET x == Head(stream) IN
           /\ Streams(stream', sent') /\ sent' = sent
           /\ n < x.n => /\ x.part = "payload" /\ stream' # << >>
                         /\ Head(stream') = Cut(x, n) /\ Read' = Read
           /\ n = x.n => stream' = Tail(stream)
<1> DEFINE x == Head(stream)
           cut == [stream EXCEPT ![1] = Cut(Head(stream), n)]
<1>1. /\ sent' = sent
      /\ stream' = IF n = x.n THEN Tail(stream) ELSE cut
  <2>1. sent' = sent
    BY DEF Consume
  <2>2. stream' = IF n = x.n THEN Tail(stream) ELSE cut
    BY Zenon DEF Consume, Cut
  <2> QED BY <2>1, <2>2
<1>2. x \in Items /\ x.frame \in Nat /\ Read = x.frame - 1
  BY HeadFacts
<1>3. CASE n = x.n
  <2>1. Streams(Tail(stream), sent)
    BY StreamTail
  <2> QED BY <1>1, <1>3, <2>1
<1>4. CASE n # x.n
  <2>1. n < x.n
    <3>1. x.n \in Nat
      BY <1>2 DEF Items
    <3> QED BY <1>4, <3>1
  <2>2. x.part = "payload" /\ cut # << >> /\ Head(cut) = Cut(x, n) /\ Streams(cut, sent)
    BY <2>1, StreamCut
  <2> HIDE DEF cut, x
  <2>3. stream' = cut
    BY <1>1, <1>4
  <2>4. Cut(x, n).frame = x.frame
    BY <1>2 DEF Cut, Items
  <2>5. Read' = Read
    BY <1>2, <2>2, <2>3, <2>4 DEF Read
  <2> QED BY <1>1, <1>4, <2>1, <2>2, <2>3, <2>5 DEF x
<1> QED BY <1>3, <1>4


\* Behind a frame with no payload, no end comes any more.
LEMMA AstrayStep ==
  ASSUME Typed, Streams(stream, sent), Astray, stream # << >>, NEW n \in Counts, Consume(n)
  PROVE  /\ n # ToEnd /\ Streams(stream', sent') /\ sent' = sent /\ Astray'
         /\ Read' \in {Read, Read + 1} /\ Read' \in Nat /\ Read' <= Len(sent)
<1> DEFINE x == Head(stream)
           f == sent[x.frame]
           m == Len(Header(f))
           b == MaxLen + 14
           came == Came(stream, sent)
<1>1. n \in Nat \ {0} /\ n <= x.n /\ n <= ToEnd /\ ToEnd \in Nat /\ SizeMax \in Nat
  BY CountFacts
<1>2. /\ x \in Items /\ IsPart(x, sent) /\ x.frame \in 1..Len(sent) /\ x.frame \in 1..MaxFrames
      /\ MaxFrames \in Nat /\ f \in Frames /\ Read = x.frame - 1 /\ Read \in Nat
      /\ f.len \in Nat /\ m = 2 + Extended(f.len) + Len(f.key) /\ m \in Nat
      /\ Len(sent) \in Nat
  <2>1. Len(sent) \in Nat
    BY LenProperties DEF Streams
  <2> QED BY <2>1, HeadFacts
<1>3. m <= 14 /\ f.len <= MaxLen /\ MaxLen \in Nat
  <2> DEFINE e == Extended(f.len)
             k == Len(f.key)
  <2>1. e \in {0, 2, 8} /\ k \in {0, 4} /\ f.len <= MaxLen /\ MaxLen \in Nat /\ m = 2 + e + k
    BY <1>2, ExtendedFacts, FrameFacts
  <2> HIDE DEF e, k, m
  <2> QED BY <2>1
<1>4. x.from \in Nat /\ x.n \in Nat \ {0} /\ x.part \in {"header", "payload"}
  BY <1>2 DEF Items
<1>5. /\ x.part = "header" => x.from < m /\ x.n = 1
      /\ x.part = "payload" => x.from + x.n = f.len
  BY <1>2 DEF IsPart
<1>6. came = x.from + (IF x.part = "header" THEN 0 ELSE m)
  BY DEF Came
<1> HIDE DEF x, f, m, came
<1>7. came \in Nat /\ came + n <= b /\ b \in Nat
  <2>1. CASE x.part = "header"
    <3>1. came = x.from /\ n = 1 /\ x.from < m
      BY <1>1, <1>4, <1>5, <1>6, <2>1
    <3> QED BY <1>2, <1>3, <1>4, <3>1
  <2>2. CASE x.part = "payload"
    <3>1. came = x.from + m /\ x.from + x.n = f.len
      BY <1>5, <1>6, <2>2
    <3> DEFINE from == x.from
               count == x.n
               len == f.len
    <3>2. /\ from \in Nat /\ count \in Nat /\ len \in Nat /\ n \in Nat /\ m \in Nat /\ MaxLen \in Nat
          /\ came = from + m /\ from + count = len /\ n <= count /\ len <= MaxLen /\ m <= 14
      BY <1>1, <1>2, <1>3, <1>4, <3>1
    <3> HIDE DEF from, count, len
    <3> QED BY <3>2
  <2> QED BY <1>4, <2>1, <2>2
<1> DEFINE p == Read * b
<1>8. p \in Nat /\ p + b <= SizeMax /\ (Read + 1) * b = p + b
  <2>1. Read + 1 <= MaxFrames
    BY <1>2
  <2> QED BY <1>2, <2>1, Sizes
<1>9. ToEnd + (p + came) >= SizeMax + 1
  BY DEF Astray, came
<1>10. rx.state = "PAYLOAD"
  BY DEF Astray
<1> HIDE DEF p, b
<1>11. n < ToEnd
  BY <1>1, <1>7, <1>8, <1>9
<1>12. /\ length' = ToEnd - n /\ rx' = rx
  BY <1>1, <1>11 DEF Consume
<1>13. ToEnd' = ToEnd - n
  <2>1. length' # 0
    BY <1>1, <1>11, <1>12
  <2> QED BY <1>12, <2>1 DEF ToEnd
<1>14. /\ Streams(stream', sent') /\ sent' = sent
       /\ n < x.n => /\ x.part = "payload" /\ stream' # << >>
                     /\ Head(stream') = Cut(x, n) /\ Read' = Read
       /\ n = x.n => stream' = Tail(stream)
  BY <1>1, ConsumeStream DEF x
<1> DEFINE came2 == Came(stream', sent')
           p2 == Read' * b
<1>15. came2 \in Nat
  BY <1>14, CameFacts
<1>16. stream' # << >> /\ Head(stream').frame = x.frame =>
         came2 = Head(stream').from + (IF Head(stream').part = "header" THEN 0 ELSE m)
  BY <1>14 DEF Came, m, f
<1> HIDE DEF came2
<1>17. /\ Read' \in {Read, Read + 1}
       /\ p2 + came2 >= (p + came) + n /\ p2 \in Nat
  <2>1. CASE n < x.n
    <3>1. Cut(x, n).frame = x.frame /\ Cut(x, n).from = x.from + n /\ Cut(x, n).part = x.part
      BY <1>2 DEF Cut, Items
    <3>2. came2 = (x.from + n) + m
      BY <1>14, <1>16, <2>1, <3>1
    <3>3. came = x.from + m
      BY <1>6, <1>14, <2>1
    <3>4. Read' = Read /\ p2 = p
      BY <1>14, <2>1 DEF p
    <3> HIDE DEF p2
    <3> DEFINE from == x.from
    <3>5. /\ from \in Nat /\ n \in Nat /\ m \in Nat /\ p \in Nat /\ p2 = p
          /\ came2 = (from + n) + m /\ came = from + m
      BY <1>1, <1>2, <1>4, <1>8, <3>2, <3>3, <3>4
    <3> HIDE DEF from
    <3>6. p2 + came2 >= (p + came) + n /\ p2 \in Nat
      BY <3>5
    <3> QED BY <3>4, <3>6
  <2>2. CASE n = x.n /\ EndsFrame(x, sent)
    <3>1. Read' = x.frame
      BY <1>14, <2>2, Advance DEF x
    <3>2. Read' = Read + 1 /\ p2 = p + b
      BY <1>2, <1>8, <3>1
    <3> HIDE DEF p2
    <3> QED BY <1>1, <1>7, <1>8, <1>15, <3>2
  <2>3. CASE n = x.n /\ ~EndsFrame(x, sent)
    <3>1. /\ stream' # << >> /\ Read' = Read /\ Head(stream').frame = x.frame
          /\ IF x.from + 1 < m
               THEN Head(stream').part = "header" /\ Head(stream').from = x.from + 1
               ELSE Head(stream').part = "payload" /\ Head(stream').from = 0
      BY <1>14, <2>3, Advance DEF x, m, f
    <3>2. x.part = "header" /\ n = 1 /\ x.from < m /\ came = x.from
      <4>1. x.part = "header"
        BY <2>3 DEF EndsFrame
      <4> QED BY <1>4, <1>5, <1>6, <2>3, <4>1
    <3>3. came2 = x.from + 1
      <4>1. CASE x.from + 1 < m
        BY <1>4, <1>16, <3>1, <4>1
      <4>2. CASE ~(x.from + 1 < m)
        <5>1. came2 = 0 + m
          BY <1>16, <3>1, <4>2
        <5> QED BY <1>2, <1>4, <3>2, <4>2, <5>1
      <4> QED BY <4>1, <4>2
    <3>4. Read' = Read /\ p2 = p
      BY <3>1 DEF p
    <3> HIDE DEF p2
    <3> QED BY <1>4, <1>8, <3>2, <3>3, <3>4
  <2>4. n < x.n \/ n = x.n
    BY <1>1, <1>4
  <2> QED BY <2>1, <2>2, <2>3, <2>4
<1> HIDE DEF p2
<1>18. ToEnd' + (p2 + came2) >= SizeMax + 1
  <2> DEFINE t == ToEnd
             t2 == ToEnd'
  <2>1. t \in Nat /\ n <= t /\ t2 = t - n /\ t + (p + came) >= SizeMax + 1
        /\ p2 + came2 >= (p + came) + n
    BY <1>1, <1>9, <1>13, <1>17
  <2> HIDE DEF t, t2
  <2>2. t2 + (p2 + came2) >= SizeMax + 1
    BY <1>1, <1>7, <1>8, <1>15, <1>17, <2>1
  <2> QED BY <2>2 DEF t2
<1>19. Astray'
  <2>1. rx'.state = "PAYLOAD"
    BY <1>10, <1>12
  <2> QED BY <1>18, <2>1 DEF Astray, p2, came2, b
<1>20. n # ToEnd
  BY <1>1, <1>11
<1>21. Read' \in Nat /\ Read' <= Len(sent)
  BY <1>2, <1>17
<1> QED BY <1>14, <1>17, <1>19, <1>20, <1>21


LEMMA ConsumeTyped ==
  ASSUME Typed, Streams(stream, sent), stream # << >>, NEW n \in Counts, Consume(n)
  PROVE  /\ rx' \in [state : {"NEW", "HDR_LEN", "LEN", "KEY", "PAYLOAD"}, left : 0..8]
         /\ opcode' \in 0..15 /\ masked' \in BOOLEAN /\ length' \in 0..SizeMax
         /\ nonce' \in [1..4 -> Octet] /\ maskIndex' \in 0..3
<1>1. /\ n \in Nat \ {0} /\ n <= ToEnd /\ ToEnd \in Nat /\ ToEnd <= SizeMax + 1
      /\ SizeMax \in Nat
  BY CountFacts
<1>2. length' = ToEnd - n
  BY DEF Consume
<1>3. length' \in 0..SizeMax
  <2> DEFINE t == ToEnd
  <2>1. length' = t - n /\ t \in Nat /\ n <= t /\ t <= SizeMax + 1
    BY <1>1, <1>2
  <2> HIDE DEF t
  <2> QED BY <1>1, <2>1
<1>4. maskIndex' \in 0..3
  <2>1. maskIndex \in 0..3 /\ maskIndex' \in {maskIndex, (maskIndex + n) % 4}
    BY DEF Typed, Consume
  <2>2. (maskIndex + n) % 4 \in 0..3
    BY <1>1, <2>1
  <2> QED BY <2>1, <2>2
<1>5. rx' \in {[state |-> "NEW", left |-> 0], rx}
  BY DEF Consume, Goto
<1>6. rx' \in [state : {"NEW", "HDR_LEN", "LEN", "KEY", "PAYLOAD"}, left : 0..8]
  <2>1. [state |-> "NEW", left |-> 0]
          \in [state : {"NEW", "HDR_LEN", "LEN", "KEY", "PAYLOAD"}, left : 0..8]
    OBVIOUS
  <2> QED BY <1>5, <2>1 DEF Typed
<1>7. UNCHANGED <<opcode, masked, nonce>>
  BY DEF Consume
<1> QED BY <1>3, <1>4, <1>6, <1>7 DEF Typed

\* What is in the buffer is written as an answer.
LEMMA AnswerWritten ==
  ASSUME Typed, Streams(stream, sent), stream # << >>, NEW n \in Counts,
         NEW kind \in {Close, Pong}, wire' = wire \o Written(kind, Filled(n))
  PROVE  /\ wire' \in Seq(Outs)
         /\ Answers \in Seq(Seq(Runs)) /\ Answers' = Append(Answers, Filled(n))
<1> DEFINE runs == Filled(n)
           w == Out(kind, runs)
<1>1. runs \in Seq(Runs) /\ Total(runs) \in Nat \ {0} /\ Shifted(Total(runs))[8] = 0
  <2>1. /\ runs \in Seq(Runs) /\ Total(runs) \in 1..MaxRx /\ Shifted(Total(runs))[8] = 0
    BY FilledFacts
  <2> QED BY <2>1
<1>2. wire \in Seq(Outs) /\ kind \in {Text, Close, Pong}
  BY DEF Typed
<1> HIDE DEF runs
<1>3. w \in Outs /\ w.kind = kind /\ w.payload = runs /\ wire' = Append(wire, w)
  <2>1. /\ w \in Outs /\ w.kind = kind /\ w.payload = runs
        /\ wire \o Written(kind, runs) =
             IF Total(runs) = 0 /\ kind # Close THEN wire ELSE Append(wire, w)
    BY <1>1, <1>2, WrittenFacts
  <2>2. wire' = wire \o Written(kind, runs)
    BY DEF runs
  <2> QED BY <1>1, <2>1, <2>2
<1> HIDE DEF w
<1>4. /\ Append(wire, w) \in Seq(Outs) /\ Answers \in Seq(Seq(Runs))
      /\ Answered(Append(wire, w)) = Answer(w, Answered(wire))
  BY <1>2, <1>3, AppendFacts, AnsweredFacts DEF Answers
<1>5. Answers' = Answer(w, Answers)
  BY <1>3, <1>4 DEF Answers
<1>6. kind # Text
  BY DEF Close, Pong, Text
<1> QED BY <1>3, <1>4, <1>5, <1>6 DEF Answer, runs

\* An empty frame was met: nothing is promised of the machine, and it stays lost.
LEMMA LostStep ==
  ASSUME IInv, open, Lost, stream # << >>, NEW n \in Counts, Consume(n), Typed'
  PROVE  n # ToEnd /\ IInv' /\ ReaderStep
<1>1. Typed /\ Streams(stream, sent) /\ Astray
  BY DEF IInv
<1>2. /\ n # ToEnd /\ Streams(stream', sent') /\ sent' = sent /\ Astray'
      /\ Read' \in {Read, Read + 1} /\ Read' \in Nat /\ Read' <= Len(sent)
  BY <1>1, AstrayStep
<1>3. Read \in Nat /\ Read <= Len(sent) /\ sent \in Seq(Frames)
  BY <1>1, HeadFacts DEF Streams
<1>4. Lost'
  BY <1>2, <1>3, LostNext
<1>5. ~NoneEmpty
  <2>1. PICK i \in 1..Read : sent[i].len = 0
    BY DEF Lost
  <2>2. i \in 1..(Read + 1) /\ i <= Len(sent)
    <3>1. Len(sent) \in Nat
      BY <1>3, LenProperties
    <3> QED BY <1>3, <2>1, <3>1
  <2>3. ~(sent[i].len > 0)
    BY <2>1
  <2> QED BY <2>2, <2>3 DEF NoneEmpty
<1> QED BY <1>2, <1>4, <1>5 DEF IInv, ReaderStep

\* What is known of a payload.
OfPayload(x, f, k, n) ==
  /\ f \in Frames /\ x.frame \in 1..Len(sent) /\ f = sent[x.frame] /\ x = Head(stream)
  /\ x.part = "payload" /\ x.from \in Nat /\ x.n \in Nat \ {0} /\ x.from + x.n = f.len
  /\ f.len \in Nat
  /\ Read = x.frame - 1 /\ Read \in Nat /\ UpTo(received, Read)
  /\ rx = [state |-> "PAYLOAD", left |-> 0]
  /\ ShortControl(f) /\ opcode = f.opcode /\ nonce = KeyOf(f)
  /\ nonce # Zeros => maskIndex = x.from % 4
  /\ ToEnd = x.n /\ n \in Nat \ {0} /\ n <= x.n /\ n <= Room
  /\ k \in 0..x.from /\ Room = MaxRx - k /\ (f.opcode >= 8 => k = x.from)
  /\ Filled(n) = << Run(x.frame, x.from - k, k + n) >>
  /\ Run(x.frame, x.from - k, k + n) \in Runs
  /\ Passed = IF f.opcode \in {1, 2} THEN x.from - k ELSE 0

LEMMA PayloadIs ==
  ASSUME IInv, open, ~Lost, stream # << >>, rx.state = "PAYLOAD", NEW n \in Counts
  PROVE  \E k : OfPayload(Head(stream), sent[Head(stream).frame], k, n)
<1> DEFINE x == Head(stream)
           f == sent[x.frame]
<1>1. Typed /\ Streams(stream, sent)
  BY DEF IInv
<1>2. /\ x \in Items /\ IsPart(x, sent) /\ x.frame \in 1..Len(sent) /\ x.frame \in 1..MaxFrames
      /\ MaxFrames \in Nat /\ f \in Frames /\ Read = x.frame - 1 /\ Read \in Nat
      /\ f.len \in Nat
  BY <1>1, HeadFacts
<1>3. /\ n \in Nat \ {0} /\ n <= x.n /\ n <= Room /\ Room = MaxRx - Total(buffer)
  BY <1>1, CountFacts
<1>4. UpTo(received, Read) /\ InPayload(x, f)
  BY Where
<1> HIDE DEF f
<1>5. PICK k \in 0..x.from :
        /\ k < MaxRx /\ (f.opcode >= 8 => k = x.from)
        /\ buffer = Buffered(x.frame, x.from - k, k)
        /\ Passed = IF f.opcode \in {1, 2} THEN x.from - k ELSE 0
  BY <1>4 DEF InPayload
<1>6. /\ x.part = "payload" /\ opcode = f.opcode /\ ShortControl(f)
      /\ rx = [state |-> "PAYLOAD", left |-> 0]
      /\ length = f.len - x.from /\ nonce = KeyOf(f)
      /\ nonce # Zeros => maskIndex = x.from % 4
  BY <1>4 DEF InPayload
<1>7. x.from \in Nat /\ x.n \in Nat \ {0}
  BY <1>2 DEF Items
<1>8. x.from + x.n = f.len
  BY <1>2, <1>6 DEF IsPart, f
<1>9. ToEnd = x.n
  <2> DEFINE from == x.from
             count == x.n
             len == f.len
  <2>1. /\ from \in Nat /\ count \in Nat \ {0} /\ len \in Nat /\ from + count = len
        /\ length = len - from
    BY <1>2, <1>6, <1>7, <1>8
  <2> HIDE DEF from, count, len
  <2>2. length = count /\ length # 0
    BY <2>1
  <2> QED BY <2>2 DEF ToEnd, count
<1>10. Clear(x)
  <2> DEFINE key == f.key
  <2>1. nonce = IF key = << >> THEN Zeros ELSE key
    BY <1>6 DEF KeyOf
  <2>2. CASE key = << >> \/ key = Zeros
    <3>1. nonce = Zeros
      BY <2>1, <2>2
    <3> QED BY <2>2, <3>1 DEF Clear, AllZero, Zeros, f
  <2>3. CASE ~(key = << >> \/ key = Zeros)
    <3>1. nonce = key /\ maskIndex = x.from % 4
      BY <1>6, <2>1, <2>3
    <3> QED BY <2>3, <3>1 DEF Clear, Zeros, f
  <2> QED BY <2>2, <2>3
<1>11. Taken(x, n) = Run(x.frame, x.from, n)
  <2>1. Clear(x) = TRUE
    <3>1. Clear(x) \in BOOLEAN
      BY DEF Clear
    <3> QED BY <1>10, <3>1
  <2> QED BY <1>6, <2>1, Zenon DEF Taken, Run
<1> HIDE DEF x
<1>12. /\ Put(Buffered(x.frame, x.from - k, k), Run(x.frame, x.from, n))
            = << Run(x.frame, x.from - k, k + n) >>
       /\ Total(Buffered(x.frame, x.from - k, k)) = k
       /\ Run(x.frame, x.from - k, k + n) \in Runs
  <2> DEFINE i == x.frame
             from == x.from
  <2>1. i \in 1..MaxFrames /\ from \in Nat /\ k \in 0..from /\ n \in Nat \ {0}
    BY <1>2, <1>3, <1>5, <1>7
  <2> HIDE DEF i, from
  <2>2. /\ Put(Buffered(i, from - k, k), Run(i, from, n)) = << Run(i, from - k, k + n) >>
        /\ Total(Buffered(i, from - k, k)) = k
        /\ Run(i, from - k, k + n) \in Runs
    BY <2>1, PutNext
  <2> QED BY <2>2 DEF i, from
<1>13. Filled(n) = << Run(x.frame, x.from - k, k + n) >>
  BY <1>5, <1>11, <1>12 DEF Filled, x
<1>14. Room = MaxRx - k
  BY <1>3, <1>5, <1>12
<1>15. OfPayload(x, f, k, n)
  BY <1>2, <1>3, <1>4, <1>5, <1>6, <1>7, <1>8, <1>9, <1>12, <1>13, <1>14
     DEF OfPayload, x, f
<1> QED BY <1>15 DEF x, f

LEMMA MaskOn ==
  ASSUME NEW a \in Nat, NEW n \in Nat
  PROVE  ((a % 4) + n) % 4 = (a + n) % 4
<1> DEFINE q == a \div 4
           r == a % 4
<1>1. q \in Nat /\ r \in 0..3 /\ a = 4 * q + r
  OBVIOUS
<1> HIDE DEF q, r
<1>2. ((4 * q + r) + n) % 4 = (r + n) % 4
  BY <1>1
<1> QED BY <1>1, <1>2 DEF r

\* Bytes of a payload were taken, and some are left: k2 of those that came are in
\* the buffer.
LEMMA InFrame ==
  ASSUME IInv, ~Lost, stream # << >>, NEW x, NEW f, NEW k, NEW n,
         OfPayload(x, f, k, n), n # ToEnd, Consume(n),
         NEW k2 \in 0..(x.from + n), k2 < MaxRx, f.opcode >= 8 => k2 = x.from + n,
         buffer' = Buffered(x.frame, (x.from + n) - k2, k2),
         Passed' = IF f.opcode \in {1, 2} THEN (x.from + n) - k2 ELSE 0,
         UpTo(received', Read)
  PROVE  /\ Streams(stream', sent') /\ sent' = sent /\ Read' = Read /\ ~Lost' /\ Synced'
<1> DEFINE from == x.from
           count == x.n
           len == f.len
<1>1. /\ from \in Nat /\ count \in Nat \ {0} /\ len \in Nat /\ from + count = len
      /\ n \in Nat \ {0} /\ n <= count /\ ToEnd = count /\ n # count
  BY DEF OfPayload
<1>2. /\ x = Head(stream) /\ f = sent[x.frame] /\ x.part = "payload" /\ Read \in Nat
      /\ opcode = f.opcode /\ ShortControl(f) /\ nonce = KeyOf(f)
      /\ nonce # Zeros => maskIndex = from % 4
      /\ rx = [state |-> "PAYLOAD", left |-> 0]
  BY DEF OfPayload
<1>3. Streams(stream, sent)
  BY DEF IInv
<1>4. x \in Items
  BY <1>2, <1>3, HeadFacts
<1> HIDE DEF from, count, len
<1>5. n < count
  BY <1>1
<1>6. /\ Streams(stream', sent') /\ sent' = sent /\ stream' # << >>
      /\ Head(stream') = Cut(x, n) /\ Read' = Read
  <2>1. n <= x.n /\ n < x.n
    BY <1>1, <1>5 DEF count
  <2> QED BY <1>1, <1>2, <1>3, <2>1, ConsumeStream
<1> PICK y : y = Cut(x, n)
  OBVIOUS
<1>7. y.frame = x.frame /\ y.from = from + n /\ y.part = "payload"
  BY <1>2, <1>4 DEF Cut, Items, from
<1>8. /\ length' = len - y.from /\ rx' = rx /\ opcode' = opcode /\ nonce' = nonce
      /\ maskIndex' = IF nonce = Zeros THEN maskIndex ELSE (maskIndex + n) % 4
  <2>1. /\ length' = ToEnd - n /\ rx' = rx /\ opcode' = opcode /\ nonce' = nonce
        /\ maskIndex' = IF nonce = Zeros THEN maskIndex ELSE (maskIndex + n) % 4
    BY DEF Consume, AllZero, Zeros
  <2>2. ToEnd - n = len - (from + n)
    BY <1>1
  <2> QED BY <1>7, <2>1, <2>2
<1>9. nonce' # Zeros => maskIndex' = y.from % 4
  <2>1. ((from % 4) + n) % 4 = (from + n) % 4
    BY <1>1, MaskOn
  <2> QED BY <1>2, <1>7, <1>8, <2>1
<1>10. \E j \in 0..y.from :
         /\ j < MaxRx /\ (f.opcode >= 8 => j = y.from)
         /\ buffer' = Buffered(y.frame, y.from - j, j)
         /\ Passed' = IF f.opcode \in {1, 2} THEN y.from - j ELSE 0
  BY <1>7 DEF from
<1>11. InPayload(y, f)'
  BY <1>2, <1>7, <1>8, <1>9, <1>10 DEF InPayload, len
<1>12. Synced'
  <2>1. f = sent'[y.frame] /\ UpTo(received', Read')
    BY <1>2, <1>6, <1>7
  <2>2. Known(y, f)'
    BY <1>11 DEF Known
  <2> QED BY <1>6, <2>1, <2>2, SyncedIn
<1>13. ~Lost'
  BY <1>2, <1>6, LostNext
<1> QED BY <1>6, <1>12, <1>13

\* The last bytes of a payload were taken.
LEMMA FrameEnds ==
  ASSUME IInv, ~Lost, stream # << >>, NEW x, NEW f, NEW k, NEW n,
         OfPayload(x, f, k, n), n = ToEnd, Consume(n)
  PROVE  /\ Streams(stream', sent') /\ sent' = sent /\ Read' = Read + 1 /\ ~Lost'
         /\ Read' \in Nat /\ Read < Len(sent) /\ f.len \in Nat \ {0}
         /\ f = sent[Read + 1] /\ x.frame = Read + 1
         /\ Fresh' /\ UpTo(received', Read + 1) => Synced'
<1>1. /\ n \in Nat \ {0} /\ n = x.n /\ x = Head(stream) /\ f = sent[x.frame]
      /\ x.part = "payload" /\ Read \in Nat /\ Read = x.frame - 1 /\ x.frame \in 1..Len(sent)
  BY DEF OfPayload
<1>2. f.len \in Nat \ {0}
  <2> DEFINE from == x.from
             count == x.n
             len == f.len
  <2>1. from \in Nat /\ count \in Nat \ {0} /\ len \in Nat /\ from + count = len
    BY DEF OfPayload
  <2> HIDE DEF from, count, len
  <2>2. len \in Nat \ {0}
    BY <2>1
  <2> QED BY <2>2 DEF len
<1>3. Streams(stream, sent) /\ Len(sent) \in Nat
  BY LenProperties DEF IInv, Streams
<1>4. Streams(stream', sent') /\ sent' = sent /\ stream' = Tail(stream)
  <2>1. n <= x.n
    BY <1>1
  <2> QED BY <1>1, <1>3, <2>1, ConsumeStream
<1>5. Read' = x.frame /\ (stream' # << >> => Begun(Head(stream'), x.frame + 1))
  <2>1. EndsFrame(x, sent)
    BY <1>1 DEF EndsFrame
  <2> QED BY <1>1, <1>3, <1>4, <2>1, Advance
<1> DEFINE i == x.frame
<1>6. Read' = Read + 1 /\ i = Read + 1 /\ Read' \in Nat /\ Read < Len(sent)
  <2>1. Read' = i /\ Read = i - 1 /\ i \in 1..Len(sent)
    BY <1>1, <1>5
  <2> HIDE DEF i
  <2> QED BY <1>3, <2>1
<1>7. f = sent[Read + 1]
  BY <1>1, <1>6
<1>8. ~Lost'
  BY <1>1, <1>2, <1>4, <1>6, <1>7, LostNext
<1>9. rx' = [state |-> "NEW", left |-> 0]
  BY DEF Consume, Goto
<1>10. ASSUME Fresh', UpTo(received', Read + 1)
       PROVE  Synced'
  <2>1. CASE stream' = << >>
    BY <1>6, <1>9, <1>10, <2>1 DEF Synced
  <2>2. CASE stream' # << >>
    <3> PICK y : y = Head(stream')
      OBVIOUS
    <3> PICK g : g = sent'[y.frame]
      OBVIOUS
    <3>1. AtStart(y)'
      BY <1>5, <1>9, <1>10, <2>2 DEF AtStart, Begun
    <3>2. Known(y, g)'
      BY <3>1 DEF Known
    <3> QED BY <1>6, <1>10, <2>2, <3>2, SyncedIn
  <2> QED BY <2>1, <2>2
<1> QED BY <1>2, <1>4, <1>6, <1>7, <1>8, <1>10

\* The types, behind bytes of a payload.
LEMMA PayloadTyped ==
  ASSUME IInv, stream # << >>, NEW n \in Counts, Consume(n),
         buffer' = << >> \/ (buffer' = Filled(n) /\ n # Room),
         received' \in Seq(Pieces), wire' \in Seq(Outs), open' \in BOOLEAN
  PROVE  Typed'
<1>1. Typed /\ Streams(stream, sent)
  BY DEF IInv
<1>2. buffer' \in Seq(Runs) /\ Total(buffer') < MaxRx
  <2>1. CASE buffer' = << >>
    <3>1. << >> \in Seq(Runs) /\ Total(<< >>) = 0
      <4>1. \A run \in Runs : run.n \in Nat
        BY DEF Runs
      <4> QED BY <4>1, TotalFacts, EmptySeq
    <3>2. 0 < MaxRx
      BY FramingAssumption
    <3> QED BY <2>1, <3>1, <3>2
  <2>2. CASE buffer' = Filled(n) /\ n # Room
    <3> DEFINE filled == Filled(n)
               total == Total(buffer)
    <3>1. filled \in Seq(Runs) /\ Total(filled) = total + n
      BY <1>1, FilledFacts
    <3>2. n \in Nat /\ n <= Room /\ Room = MaxRx - total /\ total \in Nat /\ MaxRx \in Nat
      BY <1>1, CountFacts
    <3> HIDE DEF filled, total
    <3>3. total + n < MaxRx
      BY <2>2, <3>2
    <3>4. buffer' = filled
      BY <2>2 DEF filled
    <3> QED BY <3>1, <3>3, <3>4
  <2> QED BY <2>1, <2>2
<1>3. /\ rx' \in [state : {"NEW", "HDR_LEN", "LEN", "KEY", "PAYLOAD"}, left : 0..8]
      /\ opcode' \in 0..15 /\ masked' \in BOOLEAN /\ length' \in 0..SizeMax
      /\ nonce' \in [1..4 -> Octet] /\ maskIndex' \in 0..3
  BY <1>1, ConsumeTyped
<1> QED BY <1>2, <1>3 DEF Typed

\* A payload of which some is left keeps its frame the next.
LEMMA ReadOn ==
  ASSUME IInv, stream # << >>, NEW x, NEW f, NEW k, NEW n,
         OfPayload(x, f, k, n), n # ToEnd, Consume(n)
  PROVE  Read' = Read
<1>1. /\ n \in Nat \ {0} /\ n <= x.n /\ ToEnd = x.n /\ x.n \in Nat /\ x = Head(stream)
  BY DEF OfPayload
<1>2. n < x.n
  BY <1>1
<1>3. Streams(stream, sent)
  BY DEF IInv
<1> QED BY <1>1, <1>2, <1>3, ConsumeStream

LEMMA PayloadBytesStep ==
  ASSUME IInv, NEW n \in Counts, PayloadBytes(n)
  PROVE  IInv' /\ ReaderStep
<1>1. /\ open /\ stream # << >> /\ rx.state = "PAYLOAD" /\ n # ToEnd /\ n # Room
      /\ Consume(n) /\ buffer' = Filled(n) /\ UNCHANGED <<received, wire, open>>
  BY DEF PayloadBytes, Takes, Spills
<1>2. Typed /\ Streams(stream, sent)
  BY DEF IInv
<1>3. Typed'
  <2>1. received' \in Seq(Pieces) /\ wire' \in Seq(Outs) /\ open' \in BOOLEAN
    BY <1>1, <1>2 DEF Typed
  <2> QED BY <1>1, <2>1, PayloadTyped
<1>4. CASE Lost
  BY <1>1, <1>3, <1>4, LostStep
<1>5. CASE ~Lost
  <2> PICK x : x = Head(stream)
    OBVIOUS
  <2> PICK f : f = sent[x.frame]
    OBVIOUS
  <2>1. PICK k : OfPayload(x, f, k, n)
    BY <1>1, <1>5, PayloadIs
  <2>2. Read' = Read /\ sent' = sent
    BY <1>1, <2>1, ReadOn DEF Consume
  <2>3. Passed' = Passed /\ UNCHANGED Reader!vars
    BY <1>1, <2>2, QuietStep
  <2> DEFINE from == x.from
             k2 == k + n
  <2>4. /\ from \in Nat /\ k \in 0..from /\ n \in Nat \ {0} /\ n <= Room /\ Room = MaxRx - k
        /\ f.opcode >= 8 => k = from
        /\ Passed = IF f.opcode \in {1, 2} THEN from - k ELSE 0
        /\ buffer' = << Run(x.frame, from - k, k2) >> /\ UpTo(received, Read)
        /\ MaxRx \in Nat
    BY <1>1, <2>1, FramingAssumption DEF OfPayload
  <2> HIDE DEF from
  <2>5. k2 \in 0..(from + n) /\ k2 < MaxRx /\ (from + n) - k2 = from - k /\ k2 # 0
    BY <1>1, <2>4
  <2>6. f.opcode >= 8 => k2 = from + n
    BY <2>4
  <2> HIDE DEF k2
  <2>7. buffer' = Buffered(x.frame, (from + n) - k2, k2)
    BY <2>4, <2>5 DEF Buffered
  <2>8. Passed' = IF f.opcode \in {1, 2} THEN (from + n) - k2 ELSE 0
    BY <2>3, <2>4, <2>5
  <2>9. UpTo(received', Read)
    BY <1>1, <2>4
  <2>10. Streams(stream', sent') /\ ~Lost' /\ Synced'
    <3>1. /\ k2 \in 0..(x.from + n) /\ (f.opcode >= 8 => k2 = x.from + n)
          /\ buffer' = Buffered(x.frame, (x.from + n) - k2, k2)
          /\ Passed' = IF f.opcode \in {1, 2} THEN (x.from + n) - k2 ELSE 0
      BY <2>5, <2>6, <2>7, <2>8 DEF from
    <3> QED BY <1>1, <1>5, <2>1, <2>5, <2>9, <3>1, InFrame
  <2> QED BY <1>3, <2>3, <2>10 DEF IInv, ReaderStep
<1> QED BY <1>4, <1>5

LEMMA SpillDataStep ==
  ASSUME IInv, NEW n \in Counts, SpillData(n)
  PROVE  IInv' /\ ReaderStep
<1>1. /\ open /\ stream # << >> /\ rx.state = "PAYLOAD" /\ (n = ToEnd \/ n = Room)
      /\ opcode \in {1, 2} /\ Consume(n) /\ buffer' = << >>
      /\ received' = Append(received, Filled(n)) /\ wire' = wire /\ open' = open
  BY DEF SpillData, Spilling, Takes, Spills
<1>2. Typed /\ Streams(stream, sent) /\ received \in Seq(Pieces)
  BY DEF IInv, Typed
<1>3. Filled(n) \in Pieces
  BY <1>1, <1>2, FilledFacts DEF Pieces
<1>4. received' \in Seq(Pieces)
  BY <1>1, <1>2, <1>3, AppendLast
<1>5. Typed'
  <2>1. wire' \in Seq(Outs) /\ open' \in BOOLEAN
    BY <1>1, <1>2 DEF Typed
  <2> QED BY <1>1, <1>4, <2>1, PayloadTyped
<1>6. Answers' = Answers
  BY <1>1 DEF Answers
<1>7. CASE Lost
  BY <1>1, <1>5, <1>7, LostStep
<1>8. CASE ~Lost
  <2> PICK x : x = Head(stream)
    OBVIOUS
  <2> PICK f : f = sent[x.frame]
    OBVIOUS
  <2>1. PICK k : OfPayload(x, f, k, n)
    BY <1>1, <1>8, PayloadIs
  <2> DEFINE from == x.from
             count == x.n
             len == f.len
  <2>2. /\ from \in Nat /\ count \in Nat \ {0} /\ len \in Nat /\ from + count = len
        /\ k \in 0..from /\ n \in Nat \ {0} /\ n <= count /\ ToEnd = count
        /\ Room = MaxRx - k /\ n <= Room /\ MaxRx \in Nat
    BY <2>1, FramingAssumption DEF OfPayload
  <2>3. f.opcode \in {1, 2} /\ UpTo(received, Read) /\ Read = x.frame - 1 /\ Read \in Nat
        /\ x.frame \in 1..Len(sent) /\ f = sent[x.frame]
    BY <1>1, <2>1 DEF OfPayload
  <2>4. /\ Filled(n) = << Run(x.frame, from - k, k + n) >> /\ Passed = from - k
        /\ Run(x.frame, from - k, k + n) \in Runs
    BY <2>1, <2>3 DEF OfPayload
  <2> HIDE DEF from, count, len
  <2>5. x.frame = Read + 1 /\ Read < Len(sent) /\ f = sent[Read + 1] /\ len > 0
    <3> DEFINE i == x.frame
    <3>1. Read = i - 1 /\ i \in 1..Len(sent) /\ Len(sent) \in Nat
      BY <1>2, <2>3, LenProperties DEF Streams
    <3> HIDE DEF i
    <3>2. i = Read + 1 /\ Read < Len(sent)
      BY <2>3, <3>1
    <3>3. len > 0
      BY <2>2
    <3> QED BY <2>3, <3>2, <3>3 DEF i
  <2> DEFINE left == len - Passed
             most == IF left < MaxRx THEN left ELSE MaxRx
  <2>6. most = k + n /\ (n = ToEnd <=> most = left) /\ from - k + (k + n) = from + n
    <3>1. left = count + k
      BY <2>2, <2>4
    <3> HIDE DEF left
    <3>2. CASE n = ToEnd
      BY <2>2, <3>1, <3>2
    <3>3. CASE n # ToEnd
      BY <1>1, <2>2, <3>1, <3>3
    <3> QED BY <2>2, <3>2, <3>3
  <2> HIDE DEF most, left
  <2>7. /\ UpTo(received', Read) /\ PassedOf(received', Read) = from + n
        /\ UpTo(received', Read + 1) /\ PassedOf(received', Read + 1) = 0
    <3>1. received' = Append(received, << Run(Read + 1, from - k, k + n) >>)
      BY <1>1, <2>4, <2>5
    <3>2. Run(Read + 1, from - k, k + n) \in Runs
      BY <2>4, <2>5
    <3> DEFINE start == from - k
               all == k + n
    <3>3. start + all = from + n
      BY <2>6
    <3> HIDE DEF start, all
    <3> QED BY <1>2, <2>3, <3>1, <3>2, <3>3, PassedPiece DEF start, all
  <2>8. received' = Append(received, Reader!Piece(Read + 1, Passed, most))
    <3>1. Filled(n) = << Run(Read + 1, Passed, most) >>
      BY <2>4, <2>5, <2>6
    <3> QED BY <1>1, <3>1 DEF Reader!Piece, Run
  <2>9. Passed' = PassedOf(received', Read')
    BY DEF Passed, PassedOf
  <2>10. Reader!Reads(Reader!Data) /\ sent[Read + 1].len > 0
    BY <1>1, <2>3, <2>5 DEF Reader!Reads, Reader!Data, len
  <2>11. CASE n = ToEnd
    <3>1. /\ Streams(stream', sent') /\ sent' = sent /\ Read' = Read + 1 /\ ~Lost'
          /\ Fresh' /\ UpTo(received', Read + 1) => Synced'
      BY <1>1, <1>8, <2>1, <2>11, FrameEnds
    <3>2. Passed' = 0
      BY <2>7, <2>9, <3>1
    <3>3. Synced'
      BY <1>1, <2>7, <3>1, <3>2 DEF Fresh
    <3>4. Reader!PassOn
      <4>1. most = left
        BY <2>6, <2>11
      <4> QED BY <1>1, <1>6, <2>5, <2>8, <2>10, <3>1, <3>2, <4>1
              DEF Reader!PassOn, most, left, len
    <3> QED BY <1>5, <3>1, <3>3, <3>4 DEF IInv, ReaderStep, Reader!Next
  <2>12. CASE n # ToEnd
    <3>1. Read' = Read
      BY <1>1, <2>1, <2>12, ReadOn
    <3>2. Passed' = from + n
      BY <2>7, <2>9, <3>1
    <3>3. /\ Streams(stream', sent') /\ sent' = sent /\ ~Lost' /\ Synced'
      <4> DEFINE k2 == 0
      <4>1. k2 \in 0..(from + n) /\ (from + n) - k2 = from + n /\ 0 < MaxRx
        BY <2>2, FramingAssumption
      <4>2. buffer' = Buffered(x.frame, (from + n) - k2, k2)
        BY <1>1 DEF Buffered
      <4>3. f.opcode >= 8 => k2 = from + n
        BY <2>3
      <4>4. Passed' = IF f.opcode \in {1, 2} THEN (from + n) - k2 ELSE 0
        BY <2>3, <3>2, <4>1
      <4>5. k2 < MaxRx
        BY <4>1
      <4> HIDE DEF k2
      <4> QED BY <1>1, <1>8, <2>1, <2>7, <2>12, <4>1, <4>2, <4>3, <4>4, <4>5, InFrame
              DEF from
    <3>4. Reader!PassOn
      <4>1. most # left /\ Passed + most = from + n
        BY <2>4, <2>6, <2>12
      <4> QED BY <1>1, <1>6, <2>5, <2>8, <2>10, <3>1, <3>2, <3>3, <4>1
              DEF Reader!PassOn, most, left, len
    <3> QED BY <1>5, <3>3, <3>4 DEF IInv, ReaderStep, Reader!Next
  <2> QED BY <2>11, <2>12
<1> QED BY <1>7, <1>8

\* A short payload, whole, fits the buffer.
LEMMA ControlEnds ==
  ASSUME NEW x, NEW f, NEW k, NEW n, OfPayload(x, f, k, n), f.opcode >= 8,
         n = ToEnd \/ n = Room
  PROVE  /\ n = ToEnd /\ Filled(n) = Reader!Piece(x.frame, 0, f.len)
         /\ f.len <= 125 /\ f.len \in Nat \ {0} /\ Passed = 0
<1> DEFINE from == x.from
           count == x.n
           len == f.len
<1>1. /\ from \in Nat /\ count \in Nat \ {0} /\ len \in Nat /\ from + count = len
      /\ k = from /\ n \in Nat \ {0} /\ n <= count /\ ToEnd = count
      /\ Room = MaxRx - k /\ MaxRx \in Nat /\ MaxRx >= 125 /\ len <= 125
  BY FramingAssumption DEF OfPayload, ShortControl
<1>2. Filled(n) = << Run(x.frame, from - k, k + n) >> /\ f.opcode \notin {1, 2}
      /\ Passed = IF f.opcode \in {1, 2} THEN from - k ELSE 0
  <2>1. f.opcode \notin {1, 2}
    OBVIOUS
  <2> QED BY <2>1 DEF OfPayload
<1> HIDE DEF from, count, len
<1>3. n = count
  BY <1>1
<1>4. from - k = 0 /\ k + n = len /\ len \in Nat \ {0}
  BY <1>1, <1>3
<1>5. Filled(n) = Reader!Piece(x.frame, 0, len)
  BY <1>2, <1>4 DEF Reader!Piece, Run
<1> QED BY <1>1, <1>2, <1>3, <1>4, <1>5 DEF len

\* A ping or a close frame is answered.
LEMMA AnswerStep ==
  ASSUME IInv, NEW n \in Counts, NEW op \in {Close, Ping}, Spilling(n, {op}),
         NEW kind \in {Close, Pong}, wire' = wire \o Written(kind, Filled(n)),
         open' = (op = Ping), received' = received
  PROVE  IInv' /\ ReaderStep
<1>1. /\ open /\ stream # << >> /\ rx.state = "PAYLOAD" /\ (n = ToEnd \/ n = Room)
      /\ opcode = op /\ Consume(n) /\ buffer' = << >>
  BY DEF Spilling, Takes, Spills
<1>2. Typed /\ Streams(stream, sent) /\ received \in Seq(Pieces)
  BY DEF IInv, Typed
<1>3. /\ wire' \in Seq(Outs)
      /\ Answers \in Seq(Seq(Runs)) /\ Answers' = Append(Answers, Filled(n))
  BY <1>1, <1>2, AnswerWritten
<1>4. Typed'
  <2>1. received' \in Seq(Pieces) /\ open' \in BOOLEAN
    BY <1>2
  <2> QED BY <1>1, <1>3, <2>1, PayloadTyped
<1>5. CASE Lost
  BY <1>1, <1>4, <1>5, LostStep
<1>6. CASE ~Lost
  <2> PICK x : x = Head(stream)
    OBVIOUS
  <2> PICK f : f = sent[x.frame]
    OBVIOUS
  <2>1. PICK k : OfPayload(x, f, k, n)
    BY <1>1, <1>6, PayloadIs
  <2>2. f.opcode = op /\ f.opcode >= 8 /\ UpTo(received, Read) /\ Read \in Nat
    <3>1. opcode = f.opcode /\ UpTo(received, Read) /\ Read \in Nat
      BY <2>1 DEF OfPayload
    <3>2. op \in {8, 9}
      BY DEF Close, Ping
    <3> QED BY <1>1, <3>1, <3>2
  <2>3. /\ n = ToEnd /\ Filled(n) = Reader!Piece(x.frame, 0, f.len)
        /\ f.len <= 125 /\ f.len \in Nat \ {0} /\ Passed = 0
    BY <1>1, <2>1, <2>2, ControlEnds
  <2>4. /\ Streams(stream', sent') /\ sent' = sent /\ Read' = Read + 1 /\ ~Lost'
        /\ Read < Len(sent) /\ f = sent[Read + 1] /\ x.frame = Read + 1
        /\ Fresh' /\ UpTo(received', Read + 1) => Synced'
    BY <1>1, <1>6, <2>1, <2>3, FrameEnds
  <2>5. PassedOf(received', Read + 1) = 0 /\ UpTo(received', Read + 1)
    BY <1>2, <2>2, PassedFacts
  <2>6. Passed' = PassedOf(received', Read')
    BY DEF Passed, PassedOf
  <2>7. Passed' = 0
    BY <2>4, <2>5, <2>6
  <2>8. Synced'
    BY <1>1, <2>4, <2>5, <2>7 DEF Fresh
  <2>9. Reader!Answer
    <3>1. f.len # 0
      BY <2>3
    <3>2. f.opcode \in {8, 9} /\ open' = (f.opcode = 9)
      BY <2>2 DEF Close, Ping
    <3> QED BY <1>1, <1>3, <2>3, <2>4, <2>7, <3>1, <3>2 DEF Reader!Answer, Reader!Reads
  <2> QED BY <1>4, <2>4, <2>8, <2>9 DEF IInv, ReaderStep, Reader!Next
<1> QED BY <1>5, <1>6

LEMMA SpillCloseStep ==
  ASSUME IInv, NEW n \in Counts, SpillClose(n)
  PROVE  IInv' /\ ReaderStep
<1>1. /\ Spilling(n, {Close}) /\ wire' = wire \o Written(Close, Filled(n))
      /\ open' = FALSE /\ received' = received
  BY DEF SpillClose
<1>2. open' = (Close = Ping)
  <2>1. Close # Ping
    BY DEF Close, Ping
  <2> QED BY <1>1, <2>1
<1> QED BY <1>1, <1>2, AnswerStep

LEMMA SpillPingStep ==
  ASSUME IInv, NEW n \in Counts, SpillPing(n)
  PROVE  IInv' /\ ReaderStep
<1>1. /\ Spilling(n, {Ping}) /\ wire' = wire \o Written(Pong, Filled(n))
      /\ open' = open /\ received' = received
  BY DEF SpillPing
<1>2. open' = (Ping = Ping)
  <2>1. open = TRUE
    BY <1>1 DEF Spilling, Takes, IInv, Typed
  <2> QED BY <1>1, <2>1
<1> QED BY <1>1, <1>2, AnswerStep

LEMMA SpillOtherStep ==
  ASSUME IInv, NEW n \in Counts, SpillOther(n)
  PROVE  IInv' /\ ReaderStep
<1>1. /\ open /\ stream # << >> /\ rx.state = "PAYLOAD" /\ (n = ToEnd \/ n = Room)
      /\ opcode \in 0..15 \ {1, 2, 8, 9} /\ Consume(n) /\ buffer' = << >>
      /\ UNCHANGED <<received, wire, open>>
  BY DEF SpillOther, Spilling, Takes, Spills, Close, Ping
<1>2. Typed /\ Streams(stream, sent) /\ received \in Seq(Pieces)
  BY DEF IInv, Typed
<1>3. Typed'
  <2>1. received' \in Seq(Pieces) /\ wire' \in Seq(Outs) /\ open' \in BOOLEAN
    BY <1>1, <1>2 DEF Typed
  <2> QED BY <1>1, <2>1, PayloadTyped
<1>4. Answers' = Answers
  BY <1>1 DEF Answers
<1>5. CASE Lost
  BY <1>1, <1>3, <1>5, LostStep
<1>6. CASE ~Lost
  <2> PICK x : x = Head(stream)
    OBVIOUS
  <2> PICK f : f = sent[x.frame]
    OBVIOUS
  <2>1. PICK k : OfPayload(x, f, k, n)
    BY <1>1, <1>6, PayloadIs
  <2>2. /\ f.opcode \in 0..15 \ {1, 2, 8, 9} /\ UpTo(received, Read) /\ Read \in Nat
        /\ Passed = 0
    BY <1>1, <2>1 DEF OfPayload
  <2>3. Passed' = PassedOf(received', Read')
    BY DEF Passed, PassedOf
  <2>4. CASE n = ToEnd
    <3>1. /\ Streams(stream', sent') /\ sent' = sent /\ Read' = Read + 1 /\ ~Lost'
          /\ Read < Len(sent) /\ f = sent[Read + 1] /\ f.len \in Nat \ {0}
          /\ Fresh' /\ UpTo(received', Read + 1) => Synced'
      BY <1>1, <1>6, <2>1, <2>4, FrameEnds
    <3>2. PassedOf(received', Read + 1) = 0 /\ UpTo(received', Read + 1)
      BY <1>1, <1>2, <2>2, PassedFacts
    <3>3. Passed' = 0
      BY <2>3, <3>1, <3>2
    <3>4. Synced'
      BY <1>1, <3>1, <3>2, <3>3 DEF Fresh
    <3>5. CASE f.opcode = 0
      <4>1. Passed' = Passed
        BY <2>2, <3>3
      <4>2. SkipsContinuation
        BY <1>1, <1>4, <3>1, <3>5, <4>1 DEF SkipsContinuation
      <4> QED BY <1>3, <3>1, <3>4, <4>2 DEF IInv, ReaderStep
    <3>6. CASE f.opcode # 0
      <4>1. f.opcode \in {3, 4, 5, 6, 7} \cup (Reader!Control \ {8, 9})
        BY <2>2, <3>6 DEF Reader!Control
      <4>2. Reader!Drop
        BY <1>1, <1>4, <2>2, <3>1, <3>3, <4>1 DEF Reader!Drop, Reader!Reads
      <4> QED BY <1>3, <3>1, <3>4, <4>2 DEF IInv, ReaderStep, Reader!Next
    <3> QED BY <3>5, <3>6
  <2>5. CASE n # ToEnd
    <3>1. Read' = Read /\ sent' = sent
      BY <1>1, <2>1, <2>5, ReadOn DEF Consume
    <3>2. Passed' = Passed /\ UNCHANGED Reader!vars
      BY <1>1, <3>1, QuietStep
    <3>3. f.opcode < 8
      <4>1. ~(f.opcode >= 8)
        BY <1>1, <2>1, <2>5, ControlEnds
      <4> QED BY <2>2, <4>1
    <3>4. /\ Streams(stream', sent') /\ ~Lost' /\ Synced'
      <4> DEFINE from == x.from
                 k2 == 0
      <4>1. from \in Nat /\ n \in Nat
        BY <2>1 DEF OfPayload
      <4> HIDE DEF from
      <4>2. k2 \in 0..(from + n) /\ k2 < MaxRx
        BY <4>1, FramingAssumption
      <4>3. buffer' = Buffered(x.frame, (from + n) - k2, k2)
        BY <1>1 DEF Buffered
      <4>4. f.opcode >= 8 => k2 = from + n
        BY <2>2, <3>3
      <4>5. Passed' = IF f.opcode \in {1, 2} THEN (from + n) - k2 ELSE 0
        BY <2>2, <3>2
      <4>6. UpTo(received', Read)
        BY <1>1, <2>2
      <4> HIDE DEF k2
      <4> QED BY <1>1, <1>6, <2>1, <2>5, <4>2, <4>3, <4>4, <4>5, <4>6, InFrame DEF from
    <3> QED BY <1>3, <3>2, <3>4 DEF IInv, ReaderStep
  <2> QED BY <2>4, <2>5
<1> QED BY <1>5, <1>6


-----------------------------------------------------------------------------
(* Steps of others.                                                        *)

\* The machine, which has not moved, knows what it knew.
LEMMA KnownSame ==
  ASSUME UNCHANGED <<parserVars, buffer>>, Passed' = Passed, NEW x, NEW f, Known(x, f)
  PROVE  Known(x, f)'
<1>1. Fresh => Fresh'
  BY DEF Fresh
<1>2. UNCHANGED <<rx, opcode, masked, length, nonce, maskIndex, buffer>>
  BY DEF parserVars
<1>3. AtStart(x) => AtStart(x)'
  BY <1>1, <1>2 DEF AtStart
<1>4. AtLength(x, f) => AtLength(x, f)'
  BY <1>1, <1>2 DEF AtLength
<1>5. InLength(x, f) => InLength(x, f)'
  BY <1>1, <1>2 DEF InLength
<1>6. InKey(x, f) => InKey(x, f)'
  BY <1>1, <1>2 DEF InKey
<1>7. InPayload(x, f) => InPayload(x, f)'
  BY <1>2 DEF InPayload
<1> QED BY <1>3, <1>4, <1>5, <1>6, <1>7 DEF Known

\* Nothing but the texts written may have changed.
LEMMA StillStep ==
  ASSUME IInv, UNCHANGED <<stream, sent, parserVars, buffer, received, open>>,
         wire' \in Seq(Outs), Answers' = Answers
  PROVE  IInv' /\ UNCHANGED Reader!vars
<1>1. UNCHANGED <<stream, sent, parserVars, buffer, received, open>>
  OBVIOUS
<1>2. Typed /\ Streams(stream, sent)
  BY DEF IInv
<1>3. Read' = Read /\ Passed' = Passed
  <2>1. Read' = Read
    BY <1>1 DEF Read
  <2>2. Passed' = PassedOf(received', Read')
    BY DEF Passed, PassedOf
  <2> QED BY <1>1, <2>1, <2>2, PassedIs
<1>4. UNCHANGED Reader!vars
  BY <1>1, <1>3 DEF Reader!vars
<1>5. Typed'
  BY <1>1, <1>2 DEF Typed, parserVars
<1>6. Streams(stream', sent') /\ (Lost' <=> Lost)
  BY <1>1, <1>2, <1>3 DEF Lost
<1>7. Synced => Synced'
  <2>1. CASE stream = << >>
    BY <1>1, <1>3, <2>1 DEF Synced, Fresh, parserVars
  <2>2. CASE stream # << >>
    <3> PICK x : x = Head(stream)
      OBVIOUS
    <3> PICK f : f = sent[x.frame]
      OBVIOUS
    <3>1. stream' # << >> /\ x = Head(stream') /\ f = sent'[x.frame]
      BY <1>1, <2>2
    <3>2. Synced => Known(x, f) /\ UpTo(received', Read')
      BY <1>1, <1>3, <2>2 DEF Synced
    <3>3. Known(x, f) => Known(x, f)'
      BY <1>1, <1>3, KnownSame
    <3> QED BY <3>1, <3>2, <3>3, SyncedIn
  <2> QED BY <2>1, <2>2
<1>8. Astray => Astray'
  <2>1. rx' = rx /\ ToEnd' = ToEnd
    BY <1>1 DEF parserVars, ToEnd
  <2>2. Came(stream', sent') = Came(stream, sent)
    BY <1>1
  <2> QED BY <1>3, <2>1, <2>2 DEF Astray
<1> QED BY <1>1, <1>4, <1>5, <1>6, <1>7, <1>8 DEF IInv

\* A text of the server is no answer.
LEMMA ReplyStep ==
  ASSUME IInv, NEW len \in Replies, Reply(len)
  PROVE  IInv' /\ ReaderStep
<1> DEFINE r == [frame |-> 0, part |-> "reply", from |-> 0, n |-> len, clear |-> TRUE]
           w == Out(Text, << r >>)
<1>1. /\ wire' = wire \o Written(Text, << r >>)
      /\ UNCHANGED <<stream, sent, parserVars, buffer, received, open>>
  BY DEF Reply
<1>2. Typed /\ Streams(stream, sent) /\ wire \in Seq(Outs)
  BY DEF IInv, Typed
<1>3. len \in Nat /\ len \in 0..MaxLen /\ MaxLen \in Nat
  BY FramingAssumption
<1>4. r.n = len
  OBVIOUS
<1>5. len # 0 => r \in Runs
  BY <1>3, FramingAssumption DEF Runs
<1> HIDE DEF r
<1>6. Total(<< r >>) = len
  <2>1. << >> \in Seq({r}) /\ Append(<< >>, r) = << r >> /\ \A x \in {r} : x.n \in Nat
    BY <1>3, <1>4, EmptySeq
  <2>2. Total(<< >>) = 0 /\ Total(Append(<< >>, r)) = Total(<< >>) + r.n
    BY <2>1, TotalFacts
  <2> QED BY <1>3, <1>4, <2>1, <2>2
<1>7. wire' \in Seq(Outs) /\ Answers' = Answers
  <2>1. CASE len = 0
    <3>1. Written(Text, << r >>) = << >>
      BY <1>6, <2>1 DEF Written, Text, Close
    <3>2. wire \o << >> = wire
      BY <1>2, ConcatEmptySeq
    <3>3. wire' = wire
      BY <1>1, <3>1, <3>2
    <3> QED BY <1>2, <3>3 DEF Answers
  <2>2. CASE len # 0
    <3>1. << r >> \in Seq(Runs)
      BY <1>5, <2>2, OneRun
    <3>2. Shifted(len)[8] = 0
      BY <1>3, ShiftedLess, FramingAssumption
    <3>3. /\ w \in Outs /\ w.kind = Text
          /\ wire \o Written(Text, << r >>) =
               IF Total(<< r >>) = 0 /\ Text # Close THEN wire ELSE Append(wire, w)
      BY <1>2, <1>3, <1>6, <3>1, <3>2, WrittenFacts
    <3> HIDE DEF w
    <3>4. wire' = Append(wire, w)
      BY <1>1, <1>6, <2>2, <3>3
    <3>5. Append(wire, w) \in Seq(Outs) /\ Answered(Append(wire, w)) = Answer(w, Answered(wire))
      BY <1>2, <3>3, AppendFacts, AnsweredFacts
    <3>6. Answers' = Answers
      BY <3>3, <3>4, <3>5 DEF Answers, Answer
    <3> QED BY <3>4, <3>5, <3>6
  <2> QED BY <2>1, <2>2
<1>8. UNCHANGED <<stream, sent, parserVars, buffer, received, open>>
  BY <1>1
<1> QED BY <1>7, <1>8, StillStep DEF ReaderStep

\* A frame that is sent comes behind all others.
LEMMA BrowserSendsStep ==
  ASSUME IInv, NEW f \in Frames, BrowserSends(f)
  PROVE  IInv' /\ ReaderStep
<1>1. /\ Len(sent) < MaxFrames /\ sent' = Append(sent, f)
      /\ stream' = stream \o Encode(Len(sent'), f)
      /\ UNCHANGED <<parserVars, buffer, received, wire, open>>
  BY DEF BrowserSends
<1>2. Typed /\ Streams(stream, sent) /\ sent \in Seq(Frames)
  BY DEF IInv, Streams
<1>3. /\ Len(sent') = Len(sent) + 1 /\ Len(sent) \in Nat
      /\ \A i \in 1..Len(sent) : sent'[i] = sent[i]
  BY <1>1, <1>2, AppendFacts
<1>4. /\ Streams(stream', sent') /\ stream' # << >>
      /\ IF stream = << >> THEN Begun(Head(stream'), Len(sent) + 1)
         ELSE Head(stream') = Head(stream)
  BY <1>1, <1>2, <1>3, StreamSend
<1>5. Read' = Read /\ Read \in Nat /\ Read <= Len(sent)
  <2>1. Read' = Head(stream').frame - 1
    BY <1>4 DEF Read
  <2>2. CASE stream = << >>
    <3>1. Read = Len(sent) /\ Head(stream').frame = Len(sent) + 1
      BY <1>4, <2>2 DEF Read, Begun
    <3>2. (Len(sent) + 1) - 1 = Len(sent)
      BY <1>3
    <3> QED BY <1>3, <2>1, <3>1, <3>2
  <2>3. CASE stream # << >>
    <3>1. Read = Head(stream).frame - 1 /\ Read \in Nat /\ Head(stream).frame \in 1..Len(sent)
      BY <1>2, <2>3, HeadFacts
    <3> DEFINE i == Head(stream).frame
    <3> HIDE DEF i
    <3>2. Read = i - 1 /\ i \in 1..Len(sent) /\ Read' = i - 1
      BY <1>4, <2>1, <2>3, <3>1 DEF i
    <3> QED BY <1>3, <3>1, <3>2
  <2> QED BY <2>2, <2>3
<1>6. Passed' = Passed /\ Answers' = Answers
  <2>1. Passed' = PassedOf(received', Read')
    BY DEF Passed, PassedOf
  <2> QED BY <1>1, <1>5, <2>1, PassedIs DEF Answers
<1>7. Reader!Send(f)
  BY <1>1, <1>5, <1>6 DEF Reader!Send
<1>8. Typed'
  BY <1>1, <1>2 DEF Typed, parserVars
<1>9. Lost' <=> Lost
  <2>1. \A i \in 1..Read : sent'[i] = sent[i]
    BY <1>3, <1>5
  <2> QED BY <1>5, <2>1 DEF Lost
<1>10. Synced => Synced'
  <2> PICK y : y = Head(stream')
    OBVIOUS
  <2> PICK g : g = sent'[y.frame]
    OBVIOUS
  <2>1. UpTo(received, Read) => UpTo(received', Read')
    BY <1>1, <1>5
  <2>2. CASE stream = << >>
    <3>1. Synced => rx' = [state |-> "NEW", left |-> 0] /\ Fresh'
      BY <1>1, <1>6, <2>2 DEF Synced, Fresh, parserVars
    <3>2. y.part = "header" /\ y.from = 0
      BY <1>4, <2>2 DEF Begun
    <3>3. Synced => AtStart(y)'
      BY <3>1, <3>2 DEF AtStart
    <3>4. Synced => Known(y, g)'
      BY <3>3 DEF Known
    <3>5. Synced => UpTo(received', Read')
      BY <2>1 DEF Synced
    <3> QED BY <1>4, <3>4, <3>5, SyncedIn
  <2>3. CASE stream # << >>
    <3>1. y = Head(stream) /\ y.frame \in 1..Len(sent)
      BY <1>2, <1>4, <2>3, HeadFacts
    <3>2. g = sent[y.frame]
      BY <1>3, <3>1
    <3>3. Synced => Known(y, g) /\ UpTo(received', Read')
      BY <2>1, <2>3, <3>1, <3>2 DEF Synced
    <3>4. Known(y, g) => Known(y, g)'
      BY <1>1, <1>6, KnownSame
    <3> QED BY <1>4, <3>3, <3>4, SyncedIn
  <2> QED BY <2>2, <2>3
<1>11. Astray => Astray'
  <2>1. rx' = rx /\ ToEnd' = ToEnd
    BY <1>1 DEF parserVars, ToEnd
  <2>2. Came(stream', sent') = Came(stream, sent)
    <3>1. CASE stream = << >>
      BY <1>4, <3>1 DEF Came, Begun
    <3>2. CASE stream # << >>
      <4>1. Head(stream') = Head(stream) /\ Head(stream).frame \in 1..Len(sent)
        BY <1>2, <1>4, <3>2, HeadFacts
      <4>2. sent'[Head(stream').frame] = sent[Head(stream).frame]
        BY <1>3, <4>1
      <4> QED BY <1>4, <3>2, <4>1, <4>2, Zenon DEF Came
    <3> QED BY <3>1, <3>2
  <2> QED BY <1>5, <2>1, <2>2 DEF Astray
<1> QED BY <1>1, <1>4, <1>7, <1>8, <1>9, <1>10, <1>11 DEF IInv, ReaderStep, Reader!Next


-----------------------------------------------------------------------------
(* The theorems.                                                           *)

LEMMA InitInv == Init => IInv /\ Reader!Init
<1> SUFFICES ASSUME Init PROVE IInv /\ Reader!Init
  OBVIOUS
<1>1. /\ stream = << >> /\ sent = << >> /\ rx = [state |-> "NEW", left |-> 0]
      /\ opcode = 0 /\ masked = FALSE /\ length = 0 /\ nonce = Zeros /\ maskIndex = 0
      /\ buffer = << >> /\ received = << >> /\ wire = << >> /\ open = TRUE
  BY DEF Init, Zeros
<1>2. Read = 0 /\ Passed = 0
  <2>1. Len(<< >>) = 0
    BY EmptySeq
  <2> QED BY <1>1, <2>1 DEF Read, Passed
<1>3. Answers = << >>
  <2>1. << >> \in Seq(Outs) /\ Len(<< >>) = 0
    BY EmptySeq
  <2>2. PICK g : Answered(<< >>) = g[Len(<< >>)] /\ g[0] = << >>
    BY <2>1, AnsweredFold
  <2> QED BY <1>1, <2>1, <2>2 DEF Answers
<1>4. Typed
  <2>1. << >> \in Seq(Runs) /\ Total(<< >>) = 0
    <3>1. \A run \in Runs : run.n \in Nat
      BY DEF Runs
    <3> QED BY <3>1, TotalFacts, EmptySeq
  <2>2. 0 < MaxRx /\ SizeMax \in Nat
    BY FramingAssumption
  <2>3. << >> \in Seq(Pieces) /\ << >> \in Seq(Outs)
    BY EmptySeq
  <2>4. Zeros \in [1..4 -> Octet]
    BY DEF Zeros, Octet
  <2>5. [state |-> "NEW", left |-> 0]
          \in [state : {"NEW", "HDR_LEN", "LEN", "KEY", "PAYLOAD"}, left : 0..8]
    OBVIOUS
  <2>6. 0 \in 0..15 /\ 0 \in 0..SizeMax /\ 0 \in 0..3
    BY <2>2
  <2> QED BY <1>1, <2>1, <2>2, <2>3, <2>4, <2>5, <2>6 DEF Typed
<1>5. Streams(stream, sent)
  <2>1. << >> \in Seq(Frames) /\ << >> \in Seq(Items) /\ Len(<< >>) = 0
    BY EmptySeq
  <2>2. 0 <= MaxFrames
    BY FramingAssumption
  <2> QED BY <1>1, <2>1, <2>2 DEF Streams
<1>6. Synced
  BY <1>1, <1>2 DEF Synced, Fresh, UpTo
<1>7. ~Lost
  BY <1>2 DEF Lost
<1>8. Reader!Init
  BY <1>1, <1>2, <1>3 DEF Reader!Init
<1> QED BY <1>4, <1>5, <1>6, <1>7, <1>8 DEF IInv

LEMMA StepInv == IInv /\ [Next]_vars => IInv' /\ ReaderStep
<1> SUFFICES ASSUME IInv, [Next]_vars PROVE IInv' /\ ReaderStep
  OBVIOUS
<1>1. CASE FirstByte
  BY <1>1, FirstByteStep DEF ReaderStep
<1>2. CASE LengthByte
  BY <1>2, LengthByteStep
<1>3. CASE ExtendedLength
  BY <1>3, ExtendedLengthStep
<1>4. CASE KeyByte
  BY <1>4, KeyByteStep
<1>5. CASE \E n \in Counts : PayloadBytes(n)
  BY <1>5, PayloadBytesStep
<1>6. CASE \E n \in Counts : SpillClose(n)
  BY <1>6, SpillCloseStep
<1>7. CASE \E n \in Counts : SpillPing(n)
  BY <1>7, SpillPingStep
<1>8. CASE \E n \in Counts : SpillData(n)
  BY <1>8, SpillDataStep
<1>9. CASE \E n \in Counts : SpillOther(n)
  BY <1>9, SpillOtherStep
<1>10. CASE \E f \in Frames : BrowserSends(f)
  BY <1>10, BrowserSendsStep
<1>11. CASE \E len \in Replies : Reply(len)
  BY <1>11, ReplyStep
<1>12. CASE UNCHANGED vars
  <2>1. /\ UNCHANGED <<stream, sent, parserVars, buffer, received, open>> /\ wire' = wire
    BY <1>12 DEF vars
  <2>2. wire' \in Seq(Outs) /\ Answers' = Answers
    BY <2>1 DEF IInv, Typed, Answers
  <2> QED BY <2>1, <2>2, StillStep DEF ReaderStep
<1> QED BY <1>1, <1>2, <1>3, <1>4, <1>5, <1>6, <1>7, <1>8, <1>9, <1>10, <1>11, <1>12
        DEF Next, Rx

\* What the machine knows of the stream is right after every step.
THEOREM Invariance == Spec => []IInv
<1>1. Init => IInv
  BY InitInv
<1>2. IInv /\ [Next]_vars => IInv'
  BY StepInv
<1> QED BY <1>1, <1>2, PTL DEF Spec

\* The buffer is never full between two bytes, no size_t leaves its range and no
\* header is longer than the padding left for it.
THEOREM TypeCorrect == Spec => []TypeOK
<1>1. IInv => TypeOK
  <2> SUFFICES ASSUME IInv PROVE TypeOK
    OBVIOUS
  <2>1. Typed /\ Streams(stream, sent)
    BY DEF IInv
  <2>2. received \in Seq(Seq(Runs))
    <3>1. \A T : received \in Seq(T) /\ T \subseteq Seq(Runs) => received \in Seq(Seq(Runs))
      OBVIOUS
    <3>2. received \in Seq(Pieces) /\ Pieces \subseteq Seq(Runs)
      BY <2>1 DEF Typed, Pieces
    <3> QED BY <3>1, <3>2
  <2>3. ASSUME NEW w \in ToSet(wire)
        PROVE  /\ w.kind \in {Text, Close, Pong} /\ w.payload \in Seq(Runs)
               /\ Len(w.header) <= 14
    <3>1. w \in Outs
      <4>1. wire \in Seq(Outs)
        BY <2>1 DEF Typed
      <4>2. PICK i \in 1..Len(wire) : w = wire[i]
        BY <4>1, LenProperties DEF ToSet
      <4> QED BY <4>1, <4>2, ElementOfSeq
    <3> QED BY <3>1 DEF Outs
  <2>4. /\ rx.state \in {"NEW", "HDR_LEN", "LEN", "KEY", "PAYLOAD"} /\ rx.left \in 0..8
        /\ nonce \in [1..4 -> 0..255]
    BY <2>1 DEF Typed, Octet
  <2>5. stream \in Seq([frame : 1..MaxFrames, part : {"header", "payload"}, from : Nat,
                        n : Nat \ {0}, value : 0..255])
    BY <2>1 DEF Streams, Items, Octet
  <2> QED BY <2>1, <2>2, <2>3, <2>4, <2>5 DEF TypeOK, Typed, Streams
<1> QED BY <1>1, Invariance, PTL

\* What is written has a header from which a browser reads the kind and the length
\* that was meant.
THEOREM WireFramed == Spec => []WireIsFramed
<1>1. IInv => WireIsFramed
  <2> SUFFICES ASSUME IInv, NEW w \in ToSet(wire)
               PROVE  Decode(w.header) =
                        [fin |-> TRUE, opcode |-> w.kind, masked |-> FALSE,
                         len |-> Total(w.payload)]
    BY DEF WireIsFramed
  <2>1. wire \in Seq(Outs)
    BY DEF IInv, Typed
  <2>2. PICK i \in 1..Len(wire) : w = wire[i]
    BY <2>1, LenProperties DEF ToSet
  <2>3. w \in Outs
    BY <2>1, <2>2, ElementOfSeq
  <2> QED BY <2>3 DEF Outs
<1> QED BY <1>1, Invariance, PTL

\* For every sequence of frames, however their bytes come and whatever is written
\* between: until a frame without a payload is met, the machine reads every frame
\* once, whole, in order and unmasked, answers pings and the close with their own
\* payloads, and passes on every payload but those of continuations.
THEOREM Refinement == Spec => ReadsFrames
<1>1. Init => IInv /\ Reader!Init
  BY InitInv
<1>2. IInv /\ [Next]_vars
        => IInv' /\ [NoneEmpty => Reader!Next \/ SkipsContinuation]_(Reader!vars)
  BY StepInv DEF ReaderStep
<1> QED BY <1>1, <1>2, PTL DEF Spec, ReadsFrames

=============================================================================
