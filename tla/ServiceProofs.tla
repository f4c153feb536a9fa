--------------------------- MODULE ServiceProofs ---------------------------
(***************************************************************************)
(* Proofs about Service for every set of connections, every request that a *)
(* browser makes and every size of the poll set: the thread never reads    *)
(* where nothing is to come, callback_command hears of every session's     *)
(* beginning and end, the poll set is that of the sessions, and what is    *)
(* answered or made a websocket is what was asked for.                     *)
(***************************************************************************)
EXTENDS Service, SequencesExt, SequenceTheorems, FiniteSetTheorems, TLAPS

-----------------------------------------------------------------------------
(* Sequences.                                                              *)

\* The elements of a sequence to which one is added.
LEMMA ToSetAppend ==
  ASSUME NEW S, NEW s \in Seq(S), NEW e \in S
  PROVE  /\ Append(s, e) \in Seq(S)
         /\ ToSet(Append(s, e)) = ToSet(s) \cup {e}
<1>1. /\ Append(s, e) \in Seq(S)
      /\ DOMAIN s = 1..Len(s) /\ DOMAIN Append(s, e) = 1..(Len(s) + 1)
      /\ \A i \in 1..Len(s) : Append(s, e)[i] = s[i]
      /\ Append(s, e)[Len(s) + 1] = e
      /\ Len(s) \in Nat
  BY AppendProperties, LenProperties
<1>2. \A i \in DOMAIN Append(s, e) : Append(s, e)[i] \in ToSet(s) \cup {e}
  BY <1>1 DEF ToSet
<1>3. \A x \in ToSet(s) \cup {e} : \E i \in DOMAIN Append(s, e) : x = Append(s, e)[i]
  BY <1>1 DEF ToSet
<1> QED BY <1>1, <1>2, <1>3 DEF ToSet

\* Removing the element at a place moves those behind it down by one.
LEMMA RemoveAtFacts ==
  ASSUME NEW S, NEW s \in Seq(S), NEW i \in DOMAIN s
  PROVE  /\ RemoveAt(s, i) \in Seq(S)
         /\ Len(s) \in Nat \ {0} /\ Len(RemoveAt(s, i)) = Len(s) - 1
         /\ DOMAIN s = 1..Len(s) /\ DOMAIN RemoveAt(s, i) = 1..(Len(s) - 1)
         /\ s[i] \in S
         /\ \A j \in 1..(Len(s) - 1) : RemoveAt(s, i)[j] = s[IF j < i THEN j ELSE j + 1]
<1> DEFINE n == Len(s)
           a == SubSeq(s, 1, i - 1)
           b == SubSeq(s, i + 1, n)
<1>1. n \in Nat \ {0} /\ DOMAIN s = 1..n /\ i \in 1..n /\ \A j \in 1..n : s[j] \in S
  BY LenProperties
<1>2. /\ a = [j \in 1..(i - 1) |-> s[j]] /\ a \in Seq(S) /\ Len(a) = i - 1
      /\ b = [j \in 1..(n - i) |-> s[i + j]] /\ b \in Seq(S) /\ Len(b) = n - i
  BY <1>1
<1> HIDE DEF a, b
<1>3. /\ a \o b \in Seq(S) /\ Len(a \o b) = (i - 1) + (n - i)
      /\ \A j \in 1..((i - 1) + (n - i)) :
           (a \o b)[j] = IF j <= i - 1 THEN a[j] ELSE b[j - (i - 1)]
  <2>1. /\ a \in Seq(S) /\ Len(a) = i - 1
        /\ b \in Seq(S) /\ Len(b) = n - i
    BY <1>2
  <2>2. /\ a \o b \in Seq(S) /\ Len(a \o b) = Len(a) + Len(b)
        /\ \A j \in 1..(Len(a) + Len(b)) :
             (a \o b)[j] = IF j <= Len(a) THEN a[j] ELSE b[j - Len(a)]
    BY <2>1, ConcatProperties
  <2> QED BY <2>1, <2>2, Zenon
<1>4. ASSUME NEW j \in 1..(n - 1)
      PROVE  (a \o b)[j] = s[IF j < i THEN j ELSE j + 1]
  <2>1. (a \o b)[j] = IF j <= i - 1 THEN a[j] ELSE b[j - (i - 1)]
    BY <1>1, <1>3
  <2>2. j <= i - 1 => j < i /\ a[j] = s[j]
    BY <1>1, <1>2
  <2>3. ~(j <= i - 1) => ~(j < i) /\ b[j - (i - 1)] = s[j + 1]
    BY <1>1, <1>2
  <2> QED BY <2>1, <2>2, <2>3
<1>5. RemoveAt(s, i) = a \o b
  BY DEF RemoveAt, a, b
<1>6. Len(a \o b) = n - 1
  BY <1>1, <1>3
<1> HIDE DEF n
<1>7. DOMAIN (a \o b) = 1..(n - 1)
  BY <1>3, <1>6, LenProperties
<1> QED BY <1>1, <1>3, <1>4, <1>5, <1>6, <1>7 DEF n

\* What is left of a sequence behind its first elements.
Rest(s, k) == SubSeq(s, k + 1, Len(s))

LEMMA RestFacts ==
  ASSUME NEW S, NEW s \in Seq(S), NEW k \in 0..Len(s)
  PROVE  /\ Rest(s, k) \in Seq(S)
         /\ Len(s) \in Nat /\ Len(Rest(s, k)) = Len(s) - k
         /\ DOMAIN s = 1..Len(s) /\ DOMAIN Rest(s, k) = 1..(Len(s) - k)
         /\ \A j \in 1..(Len(s) - k) : Rest(s, k)[j] = s[k + j]
<1> DEFINE n == Len(s)
<1>1. n \in Nat /\ DOMAIN s = 1..n /\ \A i \in 1..n : s[i] \in S
  BY LenProperties, ElementOfSeq
<1>2. k \in Nat /\ k <= n
  BY <1>1
<1>3. k + 1 \in Int /\ \A i \in (k + 1)..n : s[i] \in S
  BY <1>1, <1>2
<1>4. Rest(s, k) \in Seq(S)
  BY <1>1, <1>3, SubSeqProperties DEF Rest
<1>5. Rest(s, k) = [j \in 1..(n - k) |-> s[k + j]]
  <2>1. SubSeq(s, k + 1, n) = [j \in 1..(1 + n - (k + 1)) |-> s[k + 1 + j - 1]]
    BY <1>2
  <2>2. 1 + n - (k + 1) = n - k /\ \A j \in 1..(n - k) : k + 1 + j - 1 = k + j
    BY <1>1, <1>2
  <2>3. SubSeq(s, k + 1, n) = [j \in 1..(n - k) |-> s[k + j]]
    BY <2>1, <2>2
  <2> QED BY <2>3 DEF Rest
<1>6. DOMAIN Rest(s, k) = 1..(n - k) /\ n - k \in Nat
  BY <1>1, <1>2, <1>5
<1>7. Len(Rest(s, k)) = n - k
  BY <1>4, <1>6, LenProperties
<1> QED BY <1>1, <1>4, <1>5, <1>6, <1>7

\* What is left of what is left.
LEMMA RestOfRest ==
  ASSUME NEW S, NEW s \in Seq(S), NEW k \in 0..Len(s), NEW n \in 0..(Len(s) - k)
  PROVE  k + n \in 0..Len(s) /\ Rest(Rest(s, k), n) = Rest(s, k + n)
<1> DEFINE r == Rest(s, k)
<1>1. /\ r \in Seq(S) /\ Len(s) \in Nat /\ Len(r) = Len(s) - k
      /\ \A j \in 1..(Len(s) - k) : r[j] = s[k + j]
  BY RestFacts
<1>2. k + n \in 0..Len(s) /\ n \in 0..Len(r) /\ k \in Nat /\ n \in Nat
  BY <1>1
<1> HIDE DEF r
<1>3. /\ Rest(r, n) \in Seq(S) /\ Len(Rest(r, n)) = Len(r) - n
      /\ \A j \in 1..(Len(r) - n) : Rest(r, n)[j] = r[n + j]
  <2>1. r \in Seq(S)
    BY <1>1
  <2>2. n \in 0..Len(r)
    BY <1>2
  <2> QED BY <2>1, <2>2, RestFacts
<1> DEFINE m == k + n
<1>4. /\ Rest(s, m) \in Seq(S) /\ Len(Rest(s, m)) = Len(s) - m
      /\ \A j \in 1..(Len(s) - m) : Rest(s, m)[j] = s[m + j]
  <2>1. m \in 0..Len(s)
    BY <1>2
  <2> HIDE DEF m
  <2> QED BY <2>1, RestFacts
<1>5. Len(r) - n = Len(s) - m
  BY <1>1, <1>2
<1>6. ASSUME NEW j \in 1..(Len(s) - m)
      PROVE  r[n + j] = s[m + j]
  <2>1. n + j \in 1..(Len(s) - k) /\ k + (n + j) = m + j
    BY <1>1, <1>2
  <2> QED BY <1>1, <2>1
<1> HIDE DEF m
<1>7. Rest(r, n) = Rest(s, m)
  BY <1>3, <1>4, <1>5, <1>6, SeqEqual
<1> QED BY <1>2, <1>7 DEF r, m

\* Induction up to n, over a set: a finite set that a shift by one maps into
\* itself has no least element to spare.
LEMMA Climb ==
  ASSUME NEW n \in Nat, NEW S, 0 \in S, \A k \in 0..(n - 1) : k \in S => k + 1 \in S
  PROVE  0..n \subseteq S
<1> DEFINE T == {k \in 0..n : k \notin S}
<1> SUFFICES ASSUME T # {} PROVE FALSE
  OBVIOUS
<1>1. IsFiniteSet(T) /\ IsFiniteSet(0..n)
  <2>1. IsFiniteSet(0..n)
    BY FS_Interval
  <2> QED BY <2>1, FS_Subset
<1>2. \A k \in T : k \in 1..n /\ k - 1 \in T
  <2> TAKE k \in T
  <2>1. k \in 0..n /\ k # 0
    OBVIOUS
  <2>2. k - 1 \in 0..(n - 1) /\ (k - 1) + 1 = k
    BY <2>1
  <2> QED BY <2>1, <2>2
<1>3. \A k \in T : k + 1 \in T
  <2> DEFINE down == [k \in T |-> k - 1]
  <2>1. down \in Injection(T, T)
    <3>1. \A i, j \in T : i - 1 = j - 1 => i = j
      BY <1>2
    <3> QED BY <1>2, <3>1 DEF Injection, IsInjective
  <2>2. down \in Surjection(T, T)
    BY <1>1, <2>1, FS_Injection
  <2>3. \A k \in T : \E j \in T : k = j - 1
    BY <2>2 DEF Surjection
  <2> QED BY <1>2, <2>3
<1> DEFINE D == {k \in 0..n : \E t \in T : k <= t}
           up == [k \in D |-> k + 1]
<1>4. \A k \in D : k + 1 \in D
  <2> SUFFICES ASSUME NEW k \in D PROVE k + 1 \in D
    OBVIOUS
  <2>1. PICK t \in T : k <= t
    OBVIOUS
  <2>2. t + 1 \in T /\ k + 1 <= t + 1
    BY <1>2, <1>3, <2>1
  <2> QED BY <1>2, <2>2
<1>5. 0 \in D
  BY <1>2
<1>6. IsFiniteSet(D)
  BY <1>1, FS_Subset
<1>7. up \in Injection(D, D)
  BY <1>4 DEF Injection, IsInjective
<1>8. up \in Surjection(D, D)
  BY <1>6, <1>7, FS_Injection
<1>9. \E k \in D : k + 1 = 0
  BY <1>5, <1>8 DEF Surjection
<1> QED BY <1>9

-----------------------------------------------------------------------------

Revents == {"none", "in", "hup"}
States == {"none", "http", "headers", "established"}
Pollfds == [sock : Sockets, revents : Revents]

\* The types that the steps rely on, and that the poll set stays in its array.
ShapesOK ==
  /\ fds \in Seq(Pollfds) /\ Len(fds) <= MaxClients
  /\ pass \in Nat
  /\ session \in [Conns -> States]
  /\ told \subseteq Conns
  /\ backlog \in Seq(Conns)
  /\ net \in [Conns -> {"absent", "open", "closed", "reset"}]
  /\ buffered \in [Conns -> Seq(Lines \cup Frames)]

\* The poll set holds each socket once, and of connections those of sessions.
PolledOnce ==
  /\ \A i, j \in DOMAIN fds : fds[i].sock = fds[j].sock => i = j
  /\ \A i \in DOMAIN fds : fds[i].sock \in Conns => session[fds[i].sock] # "none"

\* A browser is absent, then waits, then has a session.
OneByOne ==
  /\ \A c \in Conns : session[c] # "none" => net[c] # "absent"
  /\ \A i \in DOMAIN backlog : session[backlog[i]] = "none" /\ net[backlog[i]] # "absent"
  /\ \A i, j \in DOMAIN backlog : backlog[i] = backlog[j] => i = j

\* recv on the socket would not block, nor would accept.
Pending(s) ==
  IF s = Listener THEN backlog # << >> ELSE buffered[s] # << >> \/ net[s] # "open"

\* What the last poll has found is still so where the pass has not come.
StillReady ==
  pass > 0 =>
    \A i \in DOMAIN fds : i >= pass /\ fds[i].revents = "in" => Pending(fds[i].sock)

IInv == ShapesOK /\ PolledOnce /\ OneByOne /\ StillReady /\ UserIsTold /\ NeverBlocked

USE ServiceAssumption

-----------------------------------------------------------------------------
\* What the entries are.
LEMMA Entries ==
  ASSUME IInv
  PROVE  /\ DOMAIN fds = 1..Len(fds) /\ Len(fds) \in Nat
         /\ \A i \in DOMAIN fds : i \in Nat /\ fds[i].sock \in Sockets
<1>1. DOMAIN fds = 1..Len(fds) /\ Len(fds) \in Nat /\ fds \in [1..Len(fds) -> Pollfds]
  BY LenProperties DEF IInv, ShapesOK
<1>2. \A i \in DOMAIN fds : i \in Nat /\ fds[i] \in Pollfds
  BY <1>1
<1>3. \A e \in Pollfds : e.sock \in Sockets
  BY DEF Pollfds
<1> QED BY <1>1, <1>2, <1>3

\* What is known of the entry that is visited.
LEMMA Visited ==
  ASSUME IInv, NEW s, NEW r, Visiting(s, r)
  PROVE  /\ pass \in DOMAIN fds /\ pass \in Nat \ {0} /\ s \in Sockets
         /\ fds[pass].sock = s /\ fds[pass].revents = r
         /\ r = "in" => Pending(s)
         /\ s \in Conns => session[s] # "none" /\ s # Listener
         /\ \A i \in DOMAIN fds : i # pass => fds[i].sock # s
<1>1. /\ pass \in DOMAIN fds /\ fds[pass].sock = s /\ fds[pass].revents = r
  BY DEF Visiting, Entry
<1>2. /\ DOMAIN fds = 1..Len(fds) /\ Len(fds) \in Nat
      /\ \A i \in DOMAIN fds : fds[i] \in Pollfds
  BY LenProperties DEF IInv, ShapesOK
<1>3. pass \in Nat \ {0} /\ s \in Sockets
  BY <1>1, <1>2 DEF Pollfds
<1> QED BY <1>1, <1>2, <1>3 DEF IInv, PolledOnce, StillReady

LEMMA InitIInv == Init => IInv
<1> SUFFICES ASSUME Init PROVE IInv
  OBVIOUS
<1>1. Entry(Listener, "none") \in Pollfds /\ Entry(Listener, "none").sock = Listener
  BY DEF Entry, Pollfds, Sockets, Revents
<1>2. /\ fds \in Seq(Pollfds) /\ Len(fds) = 1 /\ DOMAIN fds = 1..1
      /\ fds[1] = Entry(Listener, "none")
  BY <1>1 DEF Init
<1>3. ShapesOK
  BY <1>2, EmptySeq DEF Init, ShapesOK, States
<1>4. PolledOnce
  BY <1>1, <1>2 DEF PolledOnce
<1>5. OneByOne /\ StillReady /\ UserIsTold /\ NeverBlocked
  BY DEF Init, OneByOne, StillReady, UserIsTold, NeverBlocked
<1> QED BY <1>3, <1>4, <1>5 DEF IInv

-----------------------------------------------------------------------------
(* The pass over the poll set.                                             *)

LEMMA PollKeeps ==
  ASSUME IInv, Poll
  PROVE  IInv'
<1>1. /\ UNCHANGED <<session, parser, told, answers, backlog, net, asked, buffered, status>>
      /\ pass' = 1
      /\ fds' = [i \in DOMAIN fds |-> Entry(fds[i].sock, Ready(fds[i].sock))]
  BY DEF Poll, sessionVars, netVars
<1>2. /\ DOMAIN fds = 1..Len(fds) /\ Len(fds) \in Nat
      /\ \A i \in DOMAIN fds : fds[i].sock \in Sockets
  BY Entries
<1>3. /\ DOMAIN fds' = DOMAIN fds
      /\ \A i \in DOMAIN fds : /\ fds'[i] = Entry(fds[i].sock, Ready(fds[i].sock))
                               /\ fds'[i].sock = fds[i].sock
                               /\ fds'[i].revents = Ready(fds[i].sock)
  BY <1>1 DEF Entry
<1>4. \A s \in Sockets : Ready(s) \in Revents
  BY DEF Ready, Revents
<1>5. fds' \in Seq(Pollfds) /\ Len(fds') = Len(fds)
  <2>1. \A i \in 1..Len(fds) : fds'[i] \in Pollfds
    BY <1>2, <1>3, <1>4 DEF Pollfds, Entry
  <2>2. fds' \in [1..Len(fds) -> Pollfds]
    BY <1>1, <1>2, <2>1
  <2>3. fds' \in Seq(Pollfds)
    <3>1. [1..Len(fds) -> Pollfds] \in {[1..n -> Pollfds] : n \in Nat}
      BY <1>2
    <3>2. fds' \in UNION {[1..n -> Pollfds] : n \in Nat}
      BY <2>2, <3>1
    <3> QED BY <3>2, SeqDef, Zenon
  <2>4. Len(fds') \in Nat /\ 1..Len(fds') = 1..Len(fds)
    BY <1>2, <1>3, <2>3, LenProperties
  <2> QED BY <1>2, <2>3, <2>4
<1>6. ShapesOK'
  BY <1>1, <1>5 DEF IInv, ShapesOK
<1>7. PolledOnce'
  BY <1>1, <1>3 DEF IInv, PolledOnce
<1>8. StillReady'
  <2>1. \A s \in Sockets : Ready(s) = "in" => Pending(s)'
    BY <1>1 DEF Ready, Pending, Sockets
  <2> QED BY <1>2, <1>3, <2>1 DEF StillReady
<1>9. OneByOne' /\ UserIsTold' /\ NeverBlocked'
  BY <1>1 DEF IInv, OneByOne, UserIsTold, NeverBlocked
<1> QED BY <1>6, <1>7, <1>8, <1>9 DEF IInv

\* A step that does no more than go on, or begin again.
LEMMA GoesOn ==
  ASSUME IInv, UNCHANGED <<fds, session, told, backlog, net, buffered, status>>,
         pass' \in {0, pass} \/ (pass > 0 /\ pass' = pass + 1)
  PROVE  IInv'
<1>1. ShapesOK'
  BY DEF IInv, ShapesOK
<1>2. \A s : Pending(s)' <=> Pending(s)
  BY DEF Pending
<1>3. StillReady'
  <2> SUFFICES ASSUME pass' > 0, NEW i \in DOMAIN fds', i >= pass',
                      fds'[i].revents = "in"
               PROVE  Pending(fds[i].sock)'
    BY DEF StillReady
  <2>1. i \in DOMAIN fds /\ i \in Nat /\ i >= pass /\ fds[i].revents = "in"
    BY Entries DEF IInv, ShapesOK
  <2>2. CASE pass > 0
    BY <1>2, <2>1, <2>2 DEF IInv, StillReady
  <2>3. CASE ~(pass > 0)
    BY <2>3
  <2> QED BY <2>2, <2>3
<1>4. PolledOnce' /\ OneByOne' /\ UserIsTold' /\ NeverBlocked'
  BY DEF IInv, PolledOnce, OneByOne, UserIsTold, NeverBlocked
<1> QED BY <1>1, <1>3, <1>4 DEF IInv

LEMMA AcceptKeeps ==
  ASSUME IInv, Accept
  PROVE  IInv'
<1> DEFINE c == Head(backlog)
<1>1. /\ UNCHANGED <<parser, told, answers, net, asked, buffered, status>>
      /\ Visiting(Listener, "in")
      /\ Len(fds) < MaxClients
      /\ session' = [session EXCEPT ![c] = "http"]
      /\ fds' = Append(fds, Entry(c, "none"))
      /\ backlog' = Tail(backlog)
      /\ pass' = pass + 1
  BY DEF Accept
<1>2. pass \in Nat \ {0} /\ backlog # << >>
  BY <1>1, Visited DEF Pending
<1>3. /\ Len(backlog) \in Nat \ {0} /\ DOMAIN backlog = 1..Len(backlog)
      /\ backlog' \in Seq(Conns) /\ DOMAIN backlog' = 1..(Len(backlog) - 1)
      /\ \A i \in 1..(Len(backlog) - 1) : backlog'[i] = backlog[i + 1]
      /\ c = backlog[1] /\ c \in Conns
  BY <1>1, <1>2, HeadTailProperties, LenProperties, EmptySeq DEF IInv, ShapesOK
<1>4. /\ session[c] = "none" /\ net[c] # "absent" /\ c # Listener
      /\ \A i \in DOMAIN backlog' : backlog'[i] \in Conns /\ backlog'[i] # c
      /\ \A i \in DOMAIN backlog' : \E j \in DOMAIN backlog : backlog'[i] = backlog[j]
      /\ \A i, j \in DOMAIN backlog' : backlog'[i] = backlog'[j] => i = j
  <2>1. 1 \in DOMAIN backlog
    BY <1>3
  <2>2. ASSUME NEW i \in DOMAIN backlog'
        PROVE  /\ i + 1 \in DOMAIN backlog /\ i + 1 # 1 /\ i \in Nat
               /\ backlog'[i] = backlog[i + 1] /\ backlog[i + 1] \in Conns
    <3>1. i \in 1..(Len(backlog) - 1) /\ backlog'[i] = backlog[i + 1]
      BY <1>3
    <3>2. i + 1 \in DOMAIN backlog /\ i + 1 # 1 /\ i \in Nat
      BY <1>3, <3>1
    <3>3. backlog[i + 1] \in Conns
      BY <3>2, ElementOfSeq, LenProperties DEF IInv, ShapesOK
    <3> QED BY <3>1, <3>2, <3>3
  <2>3. \A i, j \in DOMAIN backlog' : i + 1 = j + 1 => i = j
    BY <2>2
  <2> HIDE DEF c
  <2> QED BY <1>3, <2>1, <2>2, <2>3 DEF IInv, OneByOne
<1> HIDE DEF c
<1>5. /\ Entry(c, "none") \in Pollfds
      /\ Entry(c, "none").sock = c /\ Entry(c, "none").revents = "none"
  BY <1>3 DEF Entry, Pollfds, Sockets, Revents
<1>6. /\ fds' \in Seq(Pollfds) /\ Len(fds) \in Nat /\ Len(fds') = Len(fds) + 1
      /\ DOMAIN fds = 1..Len(fds) /\ DOMAIN fds' = 1..(Len(fds) + 1)
      /\ \A i \in 1..Len(fds) : fds'[i] = fds[i]
      /\ fds'[Len(fds) + 1] = Entry(c, "none")
  BY <1>1, <1>5, AppendProperties, LenProperties DEF IInv, ShapesOK
<1>7. \A d \in Conns : session'[d] = IF d = c THEN "http" ELSE session[d]
  BY <1>1 DEF IInv, ShapesOK
<1>8. \A i \in DOMAIN fds' : \/ i \in DOMAIN fds /\ i \in Nat /\ fds'[i] = fds[i]
                             \/ i = Len(fds) + 1 /\ fds'[i] = Entry(c, "none")
  BY <1>6
<1>9. ShapesOK'
  BY <1>1, <1>2, <1>3, <1>6 DEF IInv, ShapesOK, States
<1>10. \A i \in DOMAIN fds : fds[i].sock # c
  BY <1>3, <1>4 DEF IInv, PolledOnce
<1>11. PolledOnce'
  <2>1. \A i, j \in DOMAIN fds' : fds'[i].sock = fds'[j].sock => i = j
    BY <1>5, <1>8, <1>10 DEF IInv, PolledOnce
  <2>2. \A i \in DOMAIN fds' : fds'[i].sock \in Conns => session'[fds'[i].sock] # "none"
    BY <1>5, <1>7, <1>8 DEF IInv, PolledOnce
  <2> QED BY <2>1, <2>2 DEF PolledOnce
<1>12. OneByOne'
  <2>1. \A i \in DOMAIN backlog' :
          session'[backlog'[i]] = "none" /\ net'[backlog'[i]] # "absent"
    BY <1>1, <1>4, <1>7 DEF IInv, OneByOne
  <2>2. \A d \in Conns : session'[d] # "none" => net'[d] # "absent"
    BY <1>1, <1>4, <1>7 DEF IInv, OneByOne
  <2> QED BY <1>4, <2>1, <2>2 DEF OneByOne
<1>13. StillReady'
  <2> SUFFICES ASSUME NEW i \in DOMAIN fds', i >= pass', fds'[i].revents = "in"
               PROVE  Pending(fds[i].sock)'
    BY DEF StillReady
  <2>1. i \in DOMAIN fds /\ i \in Nat /\ fds'[i] = fds[i]
    BY <1>5, <1>8
  <2>2. i >= pass /\ i # pass
    BY <1>1, <1>2, <2>1
  <2>3. fds[i].sock # Listener
    BY <1>1, <2>1, <2>2, Visited
  <2>4. Pending(fds[i].sock)
    BY <1>2, <2>1, <2>2 DEF IInv, StillReady
  <2> QED BY <1>1, <2>1, <2>3, <2>4 DEF Pending
<1>14. UserIsTold' /\ NeverBlocked'
  BY <1>1, <1>4, <1>7 DEF IInv, UserIsTold, NeverBlocked
<1> QED BY <1>9, <1>11, <1>12, <1>13, <1>14 DEF IInv

-----------------------------------------------------------------------------
(* Reading and closing.                                                    *)

\* Closing the connection that is visited, of which callback_command is told if
\* it takes it for established.
LEMMA CloseKeeps ==
  ASSUME IInv, NEW c \in Conns, NEW r, Visiting(c, r), NEW old, Close(c, old),
         pass' = pass + 1, UNCHANGED <<backlog, status>>,
         session[c] = "established" => old \in {"established", "returned"}
  PROVE  IInv'
<1>1. /\ session' = [session EXCEPT ![c] = "none"]
      /\ told' = IF old \in {"established", "returned"} THEN told \ {c} ELSE told
      /\ fds' = RemoveAt(fds, pass)
      /\ net' = [net EXCEPT ![c] = "absent"]
      /\ buffered' = [buffered EXCEPT ![c] = << >>]
  BY DEF Close
<1>2. /\ pass \in DOMAIN fds /\ pass \in Nat \ {0} /\ session[c] # "none"
      /\ c # Listener /\ fds[pass].sock = c
      /\ \A i \in DOMAIN fds : i # pass => fds[i].sock # c
  BY Visited
<1>3. /\ fds' \in Seq(Pollfds)
      /\ Len(fds) \in Nat \ {0} /\ Len(fds') = Len(fds) - 1
      /\ DOMAIN fds = 1..Len(fds) /\ DOMAIN fds' = 1..(Len(fds) - 1)
      /\ \A j \in 1..(Len(fds) - 1) : fds'[j] = fds[IF j < pass THEN j ELSE j + 1]
  <2> DEFINE rest == RemoveAt(fds, pass)
  <2>1. fds \in Seq(Pollfds)
    BY DEF IInv, ShapesOK
  <2>2. /\ rest \in Seq(Pollfds)
        /\ Len(fds) \in Nat \ {0} /\ Len(rest) = Len(fds) - 1
        /\ DOMAIN fds = 1..Len(fds) /\ DOMAIN rest = 1..(Len(fds) - 1)
        /\ \A j \in 1..(Len(fds) - 1) : rest[j] = fds[IF j < pass THEN j ELSE j + 1]
    BY <1>2, <2>1, RemoveAtFacts
  <2>3. fds' = rest
    BY <1>1
  <2> HIDE DEF rest
  <2> QED BY <2>2, <2>3
<1>4. /\ \A d \in Conns : /\ session'[d] = IF d = c THEN "none" ELSE session[d]
                          /\ net'[d] = IF d = c THEN "absent" ELSE net[d]
                          /\ buffered'[d] = IF d = c THEN << >> ELSE buffered[d]
      /\ told' = told \ {c}
  <2>1. told' = told \ {c}
    BY <1>1 DEF IInv, UserIsTold
  <2> QED BY <1>1, <2>1 DEF IInv, ShapesOK
<1> DEFINE was(j) == IF j < pass THEN j ELSE j + 1
<1>5. ASSUME NEW j \in DOMAIN fds'
      PROVE  /\ was(j) \in DOMAIN fds /\ was(j) # pass /\ j \in Nat
             /\ fds'[j] = fds[was(j)] /\ fds'[j].sock \in Sockets /\ fds'[j].sock # c
             /\ j >= pass => was(j) >= pass
  <2>1. j \in 1..(Len(fds) - 1) /\ fds'[j] = fds[was(j)]
    BY <1>3
  <2>2. was(j) \in 1..Len(fds) /\ was(j) # pass /\ (j >= pass => was(j) >= pass)
    BY <1>2, <1>3, <2>1
  <2>3. fds'[j] \in Pollfds
    BY <1>3
  <2> QED BY <1>2, <1>3, <2>1, <2>2, <2>3 DEF Pollfds
<1>6. \A i, j \in DOMAIN fds' : was(i) = was(j) => i = j
  BY <1>2, <1>3
<1> HIDE DEF was
<1>7. ShapesOK'
  <2>1. net' \in [Conns -> {"absent", "open", "closed", "reset"}]
    BY <1>1 DEF IInv, ShapesOK
  <2>2. buffered' \in [Conns -> Seq(Lines \cup Frames)]
    BY <1>1, EmptySeq DEF IInv, ShapesOK
  <2>3. session' \in [Conns -> States] /\ told' \subseteq Conns
    BY <1>1, <1>4 DEF IInv, ShapesOK, States
  <2>4. Len(fds') <= MaxClients /\ pass' \in Nat
    BY <1>2, <1>3 DEF IInv, ShapesOK
  <2> QED BY <1>3, <2>1, <2>2, <2>3, <2>4 DEF IInv, ShapesOK
<1>8. PolledOnce'
  <2>1. \A i, j \in DOMAIN fds' : fds'[i].sock = fds'[j].sock => i = j
    BY <1>5, <1>6 DEF IInv, PolledOnce
  <2>2. \A i \in DOMAIN fds' : fds'[i].sock \in Conns => session'[fds'[i].sock] # "none"
    BY <1>4, <1>5 DEF IInv, PolledOnce
  <2> QED BY <2>1, <2>2 DEF PolledOnce
<1>9. OneByOne'
  <2>1. \A i \in DOMAIN backlog : backlog[i] \in Conns /\ backlog[i] # c
    BY <1>2, ElementOfSeq, LenProperties DEF IInv, ShapesOK, OneByOne
  <2> QED BY <1>4, <2>1 DEF IInv, OneByOne
<1>10. StillReady'
  <2> SUFFICES ASSUME NEW i \in DOMAIN fds', i >= pass', fds'[i].revents = "in"
               PROVE  Pending(fds[i].sock)'
    BY DEF StillReady
  <2>1. i >= pass
    BY <1>2, <1>5
  <2>2. Pending(fds'[i].sock)
    BY <1>2, <1>5, <2>1 DEF IInv, StillReady
  <2>3. fds'[i].sock = Listener \/ (fds'[i].sock \in Conns /\ fds'[i].sock # c)
    BY <1>5 DEF Sockets
  <2> QED BY <1>4, <2>2, <2>3 DEF Pending
<1>11. UserIsTold' /\ NeverBlocked'
  BY <1>4 DEF IInv, UserIsTold, NeverBlocked
<1> QED BY <1>7, <1>8, <1>9, <1>10, <1>11 DEF IInv

\* Reading from the connection that is visited, which stays.
LEMMA ReadKeeps ==
  ASSUME IInv, NEW c \in Conns, NEW n, Reading(c, n), NEW x \in States \ {"none"},
         session' = [session EXCEPT ![c] = x],
         told' = IF x = "established" THEN told \cup {c} ELSE told \ {c},
         buffered' = [buffered EXCEPT ![c] = Left(c, n)],
         pass' = pass + 1, UNCHANGED <<fds, backlog, net, status>>
  PROVE  IInv'
<1>1. /\ pass \in Nat \ {0} /\ session[c] # "none" /\ c # Listener
      /\ \A i \in DOMAIN fds : i # pass => fds[i].sock # c
  BY Visited DEF Reading
<1>2. Left(c, n) \in Seq(Lines \cup Frames)
  <2> DEFINE s == buffered[c]
  <2>1. s \in Seq(Lines \cup Frames) /\ n \in DOMAIN s
    BY DEF IInv, ShapesOK, Reading
  <2>2. /\ Len(s) \in Nat /\ DOMAIN s = 1..Len(s)
        /\ \A i \in 1..Len(s) : s[i] \in Lines \cup Frames
    BY <2>1, LenProperties, ElementOfSeq
  <2>3. n + 1 \in Int /\ \A i \in (n + 1)..Len(s) : s[i] \in Lines \cup Frames
    BY <2>1, <2>2
  <2> HIDE DEF s
  <2>4. SubSeq(s, n + 1, Len(s)) \in Seq(Lines \cup Frames)
    BY <2>1, <2>2, <2>3, SubSeqProperties
  <2> QED BY <2>4 DEF Left, s
<1>3. \A d \in Conns : /\ session'[d] = IF d = c THEN x ELSE session[d]
                       /\ d # c => buffered'[d] = buffered[d]
  BY DEF IInv, ShapesOK
<1>4. ShapesOK'
  BY <1>1, <1>2 DEF IInv, ShapesOK
<1>5. PolledOnce' /\ OneByOne'
  <2>1. \A i \in DOMAIN backlog : backlog[i] \in Conns /\ backlog[i] # c
    BY <1>1, ElementOfSeq, LenProperties DEF IInv, ShapesOK, OneByOne
  <2> QED BY <1>1, <1>3, <2>1 DEF IInv, PolledOnce, OneByOne
<1>6. StillReady'
  <2> SUFFICES ASSUME NEW i \in DOMAIN fds, i >= pass + 1, fds[i].revents = "in"
               PROVE  Pending(fds[i].sock)'
    BY DEF StillReady
  <2>1. i \in Nat /\ fds[i].sock \in Sockets
    BY Entries
  <2>2. i >= pass /\ i # pass
    BY <1>1, <2>1
  <2>3. Pending(fds[i].sock) /\ fds[i].sock # c
    BY <1>1, <2>2 DEF IInv, StillReady
  <2> QED BY <1>3, <2>1, <2>3 DEF Pending, Sockets
<1>7. UserIsTold' /\ NeverBlocked'
  BY <1>3 DEF IInv, UserIsTold, NeverBlocked
<1> QED BY <1>4, <1>5, <1>6, <1>7 DEF IInv

LEMMA HangUpKeeps ==
  ASSUME IInv, NEW c \in Conns, HangUp(c)
  PROVE  IInv'
<1>1. /\ Visiting(c, "hup") /\ Close(c, session[c]) /\ pass' = pass + 1
      /\ UNCHANGED <<backlog, status>>
  BY DEF HangUp
<1> QED BY <1>1, CloseKeeps

\* With nothing to read the browser has gone, so recv returns 0.
LEMMA ReadNothingKeeps ==
  ASSUME IInv, NEW c \in Conns, ReadNothing(c)
  PROVE  IInv'
<1>1. Visiting(c, "in") /\ buffered[c] = << >>
  BY DEF ReadNothing
<1>2. net[c] # "open"
  BY <1>1, Visited DEF Pending
<1>3. Close(c, session[c]) /\ pass' = pass + 1 /\ UNCHANGED <<backlog, status>>
  BY <1>2 DEF ReadNothing
<1> QED BY <1>1, <1>3, CloseKeeps

LEMMA ReadingKeeps ==
  ASSUME IInv, NEW c \in Conns, NEW n,
         \/ ReadHeaders(c, n) \/ ReadRequest(c, n) \/ ReadHandshake(c, n)
         \/ ReadRefused(c, n) \/ ReadText(c, n) \/ ReadEnd(c, n)
  PROVE  IInv'
<1>1. CASE ReadHeaders(c, n) \/ ReadRequest(c, n)
  <2>1. PICK x \in {"http", "headers"} : session' = [session EXCEPT ![c] = x]
    BY <1>1 DEF ReadHeaders, ReadRequest
  <2>2. /\ Reading(c, n) /\ session[c] # "established"
        /\ buffered' = [buffered EXCEPT ![c] = Left(c, n)]
        /\ pass' = pass + 1 /\ UNCHANGED <<fds, told, backlog, net, status>>
    BY <1>1 DEF ReadHeaders, ReadRequest
  <2>3. told' = told \ {c}
    BY <2>2 DEF IInv, UserIsTold
  <2> QED BY <2>1, <2>2, <2>3, ReadKeeps DEF States
<1>2. CASE ReadHandshake(c, n)
  <2>1. /\ Reading(c, n) /\ session' = [session EXCEPT ![c] = "established"]
        /\ told' = told \cup {c}
        /\ buffered' = [buffered EXCEPT ![c] = Left(c, n)]
        /\ pass' = pass + 1 /\ UNCHANGED <<fds, backlog, net, status>>
    BY <1>2 DEF ReadHandshake
  <2> QED BY <2>1, ReadKeeps DEF States
<1>3. CASE ReadRefused(c, n)
  <2>1. /\ Visiting(c, "in") /\ session[c] # "established" /\ Close(c, "headers")
        /\ pass' = pass + 1 /\ UNCHANGED <<backlog, status>>
    BY <1>3 DEF ReadRefused, Reading
  <2> QED BY <2>1, CloseKeeps
<1>4. CASE ReadText(c, n)
  <2>1. /\ Reading(c, n) /\ session[c] = "established"
        /\ buffered' = [buffered EXCEPT ![c] = Left(c, n)]
        /\ pass' = pass + 1 /\ UNCHANGED <<fds, session, told, backlog, net, status>>
    BY <1>4 DEF ReadText, sessionVars
  <2>2. session' = [session EXCEPT ![c] = "established"] /\ told' = told \cup {c}
    BY <2>1 DEF IInv, ShapesOK, UserIsTold
  <2> QED BY <2>1, <2>2, ReadKeeps DEF States
<1>5. CASE ReadEnd(c, n)
  <2>1. /\ Visiting(c, "in") /\ Close(c, "returned")
        /\ pass' = pass + 1 /\ UNCHANGED <<backlog, status>>
    BY <1>5 DEF ReadEnd, Reading
  <2> QED BY <2>1, CloseKeeps
<1> QED BY <1>1, <1>2, <1>3, <1>4, <1>5

-----------------------------------------------------------------------------
(* The browsers.                                                           *)

\* What a browser does leaves ready what is.
LEMMA BrowserKeeps ==
  ASSUME IInv, ShapesOK', OneByOne', UNCHANGED <<fds, pass, session, told, status>>,
         \A i \in DOMAIN fds : Pending(fds[i].sock) => Pending(fds[i].sock)'
  PROVE  IInv'
<1>1. StillReady'
  BY DEF IInv, StillReady
<1>2. PolledOnce' /\ UserIsTold' /\ NeverBlocked'
  BY DEF IInv, PolledOnce, UserIsTold, NeverBlocked
<1> QED BY <1>1, <1>2 DEF IInv

\* What the poll set holds has a session, if it is not the listening socket.
LEMMA PolledSockets ==
  ASSUME IInv, NEW i \in DOMAIN fds
  PROVE  \/ fds[i].sock = Listener
         \/ /\ fds[i].sock \in Conns /\ fds[i].sock # Listener
            /\ session[fds[i].sock] # "none"
<1>1. fds[i].sock \in Sockets
  BY Entries
<1> QED BY <1>1 DEF IInv, PolledOnce, Sockets

LEMMA ConnectKeeps ==
  ASSUME IInv, NEW c \in Conns, Connect(c)
  PROVE  IInv'
<1>1. /\ net[c] = "absent" /\ net' = [net EXCEPT ![c] = "open"]
      /\ backlog' = Append(backlog, c)
      /\ UNCHANGED <<fds, pass, session, told, buffered, status>>
  BY DEF Connect, sessionVars
<1>2. /\ backlog' \in Seq(Conns) /\ Len(backlog) \in Nat
      /\ DOMAIN backlog = 1..Len(backlog) /\ DOMAIN backlog' = 1..(Len(backlog) + 1)
      /\ \A i \in 1..Len(backlog) : backlog'[i] = backlog[i]
      /\ backlog'[Len(backlog) + 1] = c
  BY <1>1, AppendProperties, LenProperties DEF IInv, ShapesOK
<1>3. \A d \in Conns : net'[d] = IF d = c THEN "open" ELSE net[d]
  BY <1>1 DEF IInv, ShapesOK
<1>4. ShapesOK'
  BY <1>1, <1>2 DEF IInv, ShapesOK
<1>5. /\ session[c] = "none"
      /\ \A i \in DOMAIN backlog : backlog[i] \in Conns /\ backlog[i] # c
  BY <1>1, <1>2, ElementOfSeq DEF IInv, ShapesOK, OneByOne
<1>6. \A i \in DOMAIN backlog' : \/ i \in DOMAIN backlog /\ backlog'[i] = backlog[i]
                                 \/ i = Len(backlog) + 1 /\ backlog'[i] = c
  BY <1>2
<1>7. OneByOne'
  <2>1. \A i \in DOMAIN backlog' :
          session'[backlog'[i]] = "none" /\ net'[backlog'[i]] # "absent"
    BY <1>1, <1>3, <1>5, <1>6 DEF IInv, OneByOne
  <2>2. \A i, j \in DOMAIN backlog' : backlog'[i] = backlog'[j] => i = j
    BY <1>5, <1>6 DEF IInv, OneByOne
  <2> QED BY <1>1, <1>3, <2>1, <2>2 DEF IInv, OneByOne
<1>8. backlog' # << >>
  BY <1>2, EmptySeq
<1>9. ASSUME NEW i \in DOMAIN fds, Pending(fds[i].sock)
      PROVE  Pending(fds[i].sock)'
  BY <1>1, <1>3, <1>5, <1>8, <1>9, PolledSockets DEF Pending
<1> QED BY <1>1, <1>4, <1>7, <1>9, BrowserKeeps

\* Something more is sent by a browser.
LEMMA SendKeeps ==
  ASSUME IInv, NEW c \in Conns, NEW new \in Seq(Lines \cup Frames),
         buffered' = [buffered EXCEPT ![c] = new], buffered[c] # << >> => new # << >>,
         UNCHANGED <<fds, pass, session, told, backlog, net, status>>
  PROVE  IInv'
<1>1. ShapesOK' /\ OneByOne'
  BY DEF IInv, ShapesOK, OneByOne
<1>2. \A d \in Conns : buffered'[d] = IF d = c THEN new ELSE buffered[d]
  BY DEF IInv, ShapesOK
<1>3. ASSUME NEW i \in DOMAIN fds, Pending(fds[i].sock)
      PROVE  Pending(fds[i].sock)'
  BY <1>2, <1>3, PolledSockets DEF Pending
<1> QED BY <1>1, <1>3, BrowserKeeps

LEMMA AskKeeps ==
  ASSUME IInv, NEW c \in Conns, NEW request \in Requests[c], Ask(c, request)
  PROVE  IInv'
<1> DEFINE L == Lines \cup Frames
<1>1. /\ buffered' = [buffered EXCEPT ![c] = @ \o request]
      /\ UNCHANGED <<fds, pass, session, told, backlog, net, status>>
  BY DEF Ask, sessionVars
<1>2. request \in Seq(L) /\ buffered[c] \in Seq(L)
  <2>1. request \in Seq(Lines)
    BY RequestsAssumption
  <2>2. request \in Seq(L)
    BY <2>1, SeqMonotonic
  <2> QED BY <2>2 DEF IInv, ShapesOK
<1>3. buffered[c] \o request \in Seq(L)
  BY <1>2, ConcatProperties
<1>4. buffered[c] # << >> => buffered[c] \o request # << >>
  <2> SUFFICES ASSUME buffered[c] # << >> PROVE buffered[c] \o request # << >>
    OBVIOUS
  <2>1. /\ Len(buffered[c]) \in Nat \ {0} /\ Len(request) \in Nat
        /\ Len(buffered[c] \o request) = Len(buffered[c]) + Len(request)
    BY <1>2, EmptySeq, LenProperties, ConcatProperties
  <2>2. Len(buffered[c] \o request) # 0
    BY <2>1
  <2> QED BY <2>2, EmptySeq
<1> QED BY <1>1, <1>3, <1>4, SendKeeps

LEMMA SendFrameKeeps ==
  ASSUME IInv, NEW c \in Conns, NEW frame \in Frames, SendFrame(c, frame)
  PROVE  IInv'
<1>1. /\ buffered' = [buffered EXCEPT ![c] = Append(@, frame)] /\ buffered[c] = << >>
      /\ UNCHANGED <<fds, pass, session, told, backlog, net, status>>
  BY DEF SendFrame, sessionVars
<1>2. Append(buffered[c], frame) \in Seq(Lines \cup Frames)
  BY AppendProperties, LenProperties DEF IInv, ShapesOK
<1> QED BY <1>1, <1>2, SendKeeps

LEMMA LeaveKeeps ==
  ASSUME IInv, NEW c \in Conns, Leave(c)
  PROVE  IInv'
<1>1. PICK how \in {"closed", "reset"} :
        /\ net' = [net EXCEPT ![c] = how]
        /\ UNCHANGED <<fds, pass, session, told, backlog, buffered, status>>
  BY DEF Leave, sessionVars
<1>2. \A d \in Conns : net'[d] = IF d = c THEN how ELSE net[d]
  BY <1>1 DEF IInv, ShapesOK
<1>3. ShapesOK'
  BY <1>1 DEF IInv, ShapesOK
<1>4. OneByOne'
  <2>1. \A i \in DOMAIN backlog : backlog[i] \in Conns
    BY LenProperties, ElementOfSeq DEF IInv, ShapesOK
  <2> QED BY <1>1, <1>2, <2>1 DEF IInv, OneByOne
<1>5. ASSUME NEW i \in DOMAIN fds, Pending(fds[i].sock)
      PROVE  Pending(fds[i].sock)'
  BY <1>1, <1>2, <1>5, PolledSockets DEF Pending
<1> QED BY <1>1, <1>3, <1>4, <1>5, BrowserKeeps

LEMMA NextKeeps == IInv /\ [Next]_vars => IInv'
<1> SUFFICES ASSUME IInv, [Next]_vars PROVE IInv'
  OBVIOUS
<1>1. CASE Poll \/ Accept
  BY <1>1, PollKeeps, AcceptKeeps
<1>2. CASE PassEnds \/ TooBusy \/ \E s \in Conns \cup {Listener} : Skip(s)
  <2>1. /\ UNCHANGED <<fds, session, told, backlog, net, buffered, status>>
        /\ \/ pass' = 0
           \/ pass' = pass + 1 /\ \E s, r : Visiting(s, r)
    BY <1>2 DEF PassEnds, TooBusy, Skip, sessionVars, netVars
  <2>2. (\E s, r : Visiting(s, r)) => pass > 0
    BY Visited
  <2> QED BY <2>1, <2>2, GoesOn
<1>3. ASSUME NEW c \in Conns,
             \/ HangUp(c) \/ ReadNothing(c)
             \/ \E n \in Pieces(c) :
                  \/ ReadHeaders(c, n) \/ ReadRequest(c, n) \/ ReadHandshake(c, n)
                  \/ ReadRefused(c, n) \/ ReadText(c, n) \/ ReadEnd(c, n)
      PROVE  IInv'
  BY <1>3, HangUpKeeps, ReadNothingKeeps, ReadingKeeps
<1>4. CASE Browser
  BY <1>4, ConnectKeeps, LeaveKeeps, AskKeeps, SendFrameKeeps DEF Browser
<1>5. CASE UNCHANGED vars
  <2>1. /\ UNCHANGED <<fds, session, told, backlog, net, buffered, status>>
        /\ pass' = pass
    BY <1>5 DEF vars, sessionVars, netVars
  <2> QED BY <2>1, GoesOn
<1> QED BY <1>1, <1>2, <1>3, <1>4, <1>5 DEF Next, Loop

-----------------------------------------------------------------------------
(* The theorems.                                                           *)

\* In every reachable state the poll set is within MAX_CLIENTS, holds each
\* socket once, and what the poll has found still holds where the pass will come.
THEOREM Invariance == Spec => []IInv
<1>1. Init => IInv
  BY InitIInv
<1>2. IInv /\ [Next]_vars => IInv'
  BY NextKeeps
<1> QED BY <1>1, <1>2, PTL DEF Spec

\* libwebsocket_service_fd never calls recv on a blocking socket with nothing to
\* read, whatever was accepted and closed since the poll.
THEOREM ReadsWhatIsThere == Spec => []NeverBlocked
<1>1. IInv => NeverBlocked
  BY DEF IInv
<1> QED BY <1>1, Invariance, PTL

\* The sessions that callback_command has heard of and not heard the end of are
\* those that are established.
THEOREM UserKnowsSessions == Spec => []UserIsTold
<1>1. IInv => UserIsTold
  BY DEF IInv
<1> QED BY <1>1, Invariance, PTL

-----------------------------------------------------------------------------
(* The parser of headers.                                                  *)

Parsers ==
  [complete : BOOLEAN, stale : BOOLEAN, uri : Uris \cup {""}, upgrade : BOOLEAN,
   protocol : Seq({"command", "chat"})]

Names(p) == "command" \in ToSet(p.protocol)

LEMMA NewParserFacts == NewParser \in Parsers /\ ~Names(NewParser)
BY EmptySeq DEF NewParser, Parsers, Names, ToSet

\* What a line that is not the last changes.
LEMMA ParseFacts ==
  ASSUME NEW p \in Parsers, NEW line \in Lines, ~p.complete
  PROVE  LET q == Parse(p, line) IN
           /\ q \in Parsers
           /\ q.complete => line = "end"
           /\ q.upgrade <=> p.upgrade \/ (~p.stale /\ line = "Upgrade")
           /\ Names(q) => Names(p) \/ line = "command"
           /\ q.stale <=> p.stale /\ line \in Uris
           /\ q.uri = IF ~p.stale /\ line \in Uris THEN line ELSE p.uri
<1> DEFINE q == Parse(p, line)
<1>1. CASE p.stale
  <2>1. q = IF line \in Uris THEN p ELSE [p EXCEPT !.stale = FALSE]
    BY <1>1 DEF Parse
  <2> HIDE DEF q
  <2> QED BY <1>1, <2>1 DEF Parsers, Names, q
<1>2. CASE ~p.stale /\ line \in Uris
  <2>1. q = [p EXCEPT !.uri = line]
    BY <1>2 DEF Parse, Parsers, Uris
  <2>2. line \notin {"Upgrade", "command", "end"}
    BY <1>2 DEF Uris
  <2> HIDE DEF q
  <2> QED BY <1>2, <2>1, <2>2 DEF Parsers, Names, q
<1>3. CASE ~p.stale /\ line = "Upgrade"
  <2>1. q = [p EXCEPT !.upgrade = TRUE] /\ line \notin Uris
    BY <1>3 DEF Parse, Parsers, Uris
  <2> HIDE DEF q
  <2> QED BY <1>3, <2>1 DEF Parsers, Names, q
<1>4. CASE ~p.stale /\ line \in {"command", "chat"}
  <2>1. q = [p EXCEPT !.protocol = Append(@, line)] /\ line \notin Uris /\ line # "Upgrade"
    BY <1>4 DEF Parse, Parsers, Uris
  <2>2. p.protocol \in Seq({"command", "chat"})
    BY DEF Parsers
  <2>3. /\ Append(p.protocol, line) \in Seq({"command", "chat"})
        /\ ToSet(Append(p.protocol, line)) = ToSet(p.protocol) \cup {line}
    BY <1>4, <2>2, ToSetAppend
  <2> DEFINE longer == Append(p.protocol, line)
  <2>4. q = [p EXCEPT !.protocol = longer]
    BY <2>1
  <2> HIDE DEF q, longer
  <2>5. /\ q \in Parsers /\ q.protocol = longer /\ q.complete = p.complete
        /\ q.upgrade = p.upgrade /\ q.stale = p.stale /\ q.uri = p.uri
    BY <2>3, <2>4 DEF Parsers, longer
  <2> QED BY <1>4, <2>1, <2>3, <2>5 DEF Names, q, longer
<1>5. CASE ~p.stale /\ line = "end"
  <2>1. q = [p EXCEPT !.complete = TRUE] /\ line \notin Uris
    BY <1>5 DEF Parse, Parsers, Uris
  <2> HIDE DEF q
  <2> QED BY <1>5, <2>1 DEF Parsers, Names, q
<1>6. CASE ~p.stale /\ line = "Host"
  <2>1. q = p /\ line \notin Uris
    BY <1>6 DEF Parse, Parsers, Uris
  <2> HIDE DEF q
  <2> QED BY <1>6, <2>1 DEF Parsers, Names, q
<1> QED BY <1>1, <1>2, <1>3, <1>4, <1>5, <1>6 DEF Lines, Headers, Uris

\* The parser when it has passed over the first k lines of a request, which is
\* the first on its connection or not: it has kept nothing that was not asked,
\* it has not lost the upgrade of a request for "command", and it has the URI of
\* the first request.
Progress(p, request, k, first) ==
  /\ p \in Parsers
  /\ p.complete => k = Len(request)
  /\ p.upgrade => "Upgrade" \in ToSet(request)
  /\ Names(p) => "command" \in ToSet(request)
  /\ "command" \in ToSet(request) =>
       /\ k >= 2 => ~p.stale
       /\ \A i \in 1..k : request[i] = "Upgrade" => p.upgrade
  /\ first => ~p.stale /\ (k >= 1 => p.uri = request[1])
  /\ (first /\ k = 0) \/ p.uri \in Uris

LEMMA ParseProgress ==
  ASSUME NEW request \in Seq(Lines), IsRequest(request), NEW first \in BOOLEAN,
         NEW k \in Nat, k < Len(request), NEW p, Progress(p, request, k, first)
  PROVE  Progress(Parse(p, request[k + 1]), request, k + 1, first)
<1> DEFINE line == request[k + 1]
           q == Parse(p, line)
<1>1. /\ Len(request) \in Nat /\ DOMAIN request = 1..Len(request)
      /\ \A i \in 1..Len(request) : request[i] \in Lines
  BY LenProperties, ElementOfSeq
<1>2. k + 1 \in 1..Len(request) /\ line \in Lines /\ line \in ToSet(request)
  BY <1>1 DEF ToSet
<1>3. p \in Parsers /\ ~p.complete
  <2> DEFINE len == Len(request)
  <2>1. len \in Nat /\ k < len
    BY <1>1
  <2> HIDE DEF len
  <2>2. k # len
    BY <2>1
  <2>3. k # Len(request)
    BY <2>2 DEF len
  <2> QED BY <2>3 DEF Progress
<1>4. /\ line = "end" => k + 1 = Len(request)
      /\ line \in Uris <=> k = 0
      /\ k = 0 => line = request[1]
      /\ k = 1 => line = request[2]
  <2>1. "end" \notin Uris /\ "end" \notin Headers /\ \A u \in Uris : u \notin Headers
    BY DEF Uris, Headers
  <2>2. k # 0 /\ k + 1 # Len(request) => line \in Headers
    <3> DEFINE len == Len(request)
    <3>1. len \in Nat /\ k < len
      BY <1>1
    <3> HIDE DEF len
    <3>2. k # 0 /\ k + 1 # len => k + 1 \in 2..(len - 1)
      BY <3>1
    <3> QED BY <3>2 DEF IsRequest, len
  <2>3. k = 0 => line = request[1] /\ line \in Uris /\ k + 1 # Len(request)
    BY DEF IsRequest
  <2>4. k + 1 = Len(request) => line = "end"
    BY DEF IsRequest
  <2>5. k = 1 => line = request[2]
    OBVIOUS
  <2> HIDE DEF line
  <2> QED BY <2>1, <2>2, <2>3, <2>4, <2>5
<1>5. /\ q \in Parsers
      /\ q.complete => line = "end"
      /\ q.upgrade <=> p.upgrade \/ (~p.stale /\ line = "Upgrade")
      /\ Names(q) => Names(p) \/ line = "command"
      /\ q.stale <=> p.stale /\ line \in Uris
      /\ q.uri = IF ~p.stale /\ line \in Uris THEN line ELSE p.uri
  BY <1>2, <1>3, ParseFacts
<1> HIDE DEF q, line
<1>6. ASSUME "command" \in ToSet(request)
      PROVE  /\ k + 1 >= 2 => ~q.stale
             /\ \A i \in 1..(k + 1) : request[i] = "Upgrade" => q.upgrade
  <2>1. k + 1 >= 2 => ~q.stale
    BY <1>4, <1>5
  <2>2. \A i \in 1..k : request[i] = "Upgrade" => q.upgrade
    BY <1>5, <1>6 DEF Progress
  <2>3. line = "Upgrade" => q.upgrade
    <3> SUFFICES ASSUME line = "Upgrade" PROVE q.upgrade
      OBVIOUS
    <3>1. k # 0
      BY <1>4 DEF Uris
    <3>2. k # 1
      BY <1>4, <1>6 DEF IsRequest
    <3>3. k >= 2
      BY <3>1, <3>2
    <3> QED BY <1>5, <1>6, <3>3 DEF Progress
  <2>4. \A i \in 1..(k + 1) : i \in 1..k \/ i = k + 1
    OBVIOUS
  <2> QED BY <2>1, <2>2, <2>3, <2>4 DEF line
<1>7. first => ~q.stale /\ q.uri = request[1]
  <2> SUFFICES ASSUME first PROVE ~q.stale /\ q.uri = request[1]
    OBVIOUS
  <2>1. ~p.stale /\ (k >= 1 => p.uri = request[1])
    BY DEF Progress
  <2> QED BY <1>4, <1>5, <2>1
<1>8. q.uri \in Uris
  BY <1>4, <1>5 DEF Progress
<1>9. q.upgrade => "Upgrade" \in ToSet(request)
  BY <1>2, <1>5 DEF Progress
<1>10. Names(q) => "command" \in ToSet(request)
  BY <1>2, <1>5 DEF Progress
<1>11. Progress(q, request, k + 1, first)
  BY <1>4, <1>5, <1>6, <1>7, <1>8, <1>9, <1>10 DEF Progress
<1> QED BY <1>11 DEF q, line

\* The parser before and after each of the first m lines.
IsRun(g, p, lines, m) ==
  g = [k \in 0..m |-> IF k = 0 THEN p ELSE Parse(g[k - 1], lines[k])]

LEMMA RunExists ==
  ASSUME NEW p, NEW lines, NEW n \in Nat
  PROVE  \E g : IsRun(g, p, lines, n)
<1> DEFINE S == {m \in 0..n : \E g : IsRun(g, p, lines, m)}
<1>1. 0 \in S
  <2> DEFINE g == [k \in 0..0 |-> p]
  <2>1. \A k \in 0..0 : k = 0
    OBVIOUS
  <2>2. g = [k \in 0..0 |-> IF k = 0 THEN p ELSE Parse(g[k - 1], lines[k])]
    BY <2>1
  <2>3. IsRun(g, p, lines, 0)
    BY <2>2 DEF IsRun
  <2> QED BY <2>3
<1>2. ASSUME NEW m \in 0..(n - 1), m \in S
      PROVE  m + 1 \in S
  <2>1. PICK g : IsRun(g, p, lines, m)
    BY <1>2
  <2> DEFINE h == [k \in 0..(m + 1) |->
                     IF k = m + 1 THEN Parse(g[m], lines[m + 1]) ELSE g[k]]
  <2>2. m \in Nat /\ m + 1 \in 0..n
    OBVIOUS
  <2>3. ASSUME NEW k \in 0..(m + 1)
        PROVE  h[k] = IF k = 0 THEN p ELSE Parse(h[k - 1], lines[k])
    <3>1. CASE k = m + 1
      <4>1. h[k - 1] = g[m] /\ k # 0 /\ h[k] = Parse(g[m], lines[m + 1])
        BY <2>2, <3>1
      <4> HIDE DEF h
      <4> QED BY <3>1, <4>1
    <3>2. CASE k # m + 1
      <4>1. k \in 0..m /\ h[k] = g[k]
        BY <2>2, <3>2
      <4>2. g[k] = IF k = 0 THEN p ELSE Parse(g[k - 1], lines[k])
        BY <2>1, <4>1 DEF IsRun
      <4>3. k # 0 => h[k - 1] = g[k - 1]
        BY <2>2, <4>1
      <4> HIDE DEF h
      <4> QED BY <4>1, <4>2, <4>3
    <3> QED BY <3>1, <3>2
  <2>4. h = [k \in 0..(m + 1) |-> h[k]]
    OBVIOUS
  <2> HIDE DEF h
  <2>5. h = [k \in 0..(m + 1) |-> IF k = 0 THEN p ELSE Parse(h[k - 1], lines[k])]
    BY <2>3, <2>4
  <2>6. IsRun(h, p, lines, m + 1)
    BY <2>5 DEF IsRun
  <2> QED BY <2>2, <2>6
<1> HIDE DEF S
<1>3. 0..n \subseteq S
  BY <1>1, <1>2, Climb
<1>4. n \in S
  BY <1>3
<1> QED BY <1>4 DEF S

LEMMA ParseAllRun ==
  ASSUME NEW p, NEW lines, NEW n \in Nat, Len(lines) = n
  PROVE  \E g : /\ ParseAll(p, lines) = g[n] /\ g[0] = p
                /\ \A k \in 1..n : g[k] = Parse(g[k - 1], lines[k])
<1> DEFINE g == CHOOSE g : IsRun(g, p, lines, n)
<1>1. IsRun(g, p, lines, n)
  BY RunExists
<1>2. ParseAll(p, lines) = g[n]
  BY DEF ParseAll, IsRun
<1> HIDE DEF g
<1>3. g[0] = p /\ \A k \in 1..n : g[k] = Parse(g[k - 1], lines[k])
  BY <1>1 DEF IsRun
<1> QED BY <1>2, <1>3

\* What was received of a request takes the parser on by as many lines.
LEMMA ParseAllProgress ==
  ASSUME NEW request \in Seq(Lines), IsRequest(request), NEW first \in BOOLEAN,
         NEW k \in Nat, NEW n \in Nat, k + n <= Len(request),
         NEW p, Progress(p, request, k, first),
         NEW lines, Len(lines) = n, \A j \in 1..n : lines[j] = request[k + j]
  PROVE  Progress(ParseAll(p, lines), request, k + n, first)
<1>1. PICK g : /\ ParseAll(p, lines) = g[n] /\ g[0] = p
               /\ \A j \in 1..n : g[j] = Parse(g[j - 1], lines[j])
  BY ParseAllRun
<1> DEFINE S == {m \in 0..n : Progress(g[m], request, k + m, first)}
           len == Len(request)
<1>2. len \in Nat /\ k + n <= len
  BY LenProperties
<1>3. 0 \in S
  <2>1. k + 0 = k
    OBVIOUS
  <2> QED BY <1>1, <2>1
<1>4. ASSUME NEW m \in 0..(n - 1), m \in S
      PROVE  m + 1 \in S
  <2>1. m + 1 \in 1..n /\ (m + 1) - 1 = m /\ k + m \in Nat /\ k + (m + 1) = (k + m) + 1
    OBVIOUS
  <2> HIDE DEF len
  <2>2. k + m < len
    BY <1>2, <2>1
  <2>3. Progress(g[m], request, k + m, first)
    BY <1>4
  <2>4. g[m + 1] = Parse(g[m], request[(k + m) + 1])
    BY <1>1, <2>1
  <2>5. Progress(g[m + 1], request, (k + m) + 1, first)
    BY <2>1, <2>2, <2>3, <2>4, ParseProgress DEF len
  <2> QED BY <2>1, <2>5
<1> HIDE DEF S
<1>5. 0..n \subseteq S
  BY <1>3, <1>4, Climb
<1>6. n \in S
  BY <1>5
<1> QED BY <1>1, <1>6 DEF S

-----------------------------------------------------------------------------
(* Requests and answers.  What follows is said of the values of one        *)
(* connection: x is its session, p its parser, an its answers, rs the      *)
(* requests made on it, b what was sent and the server has not received.   *)

Fresh(p) == [p EXCEPT !.complete = FALSE]

FirstRight(an, rs) == an # << >> => an[1] = UriOf(rs[1])

\* Every request has its answer.
AllAnswered(p, an, rs, b) ==
  /\ Len(an) = Len(rs) /\ b = << >>
  /\ ~p.upgrade /\ ~Names(p)
  /\ rs = << >> => ~p.stale
  /\ rs # << >> => p.uri \in Uris

\* The last request has none, and is received up to its k-th line.
OneWaits(p, an, rs, b) ==
  /\ rs # << >> /\ Len(an) = Len(rs) - 1
  /\ \E k \in 0..Len(Last(rs)) :
       b = Rest(Last(rs), k) /\ Progress(Fresh(p), Last(rs), k, Len(rs) = 1)

Upgraded(an, rs) ==
  /\ rs # << >> /\ Len(an) <= Len(rs)
  /\ {"Upgrade", "command"} \subseteq ToSet(Last(rs))

ServedAs(c, x, p, an, rs, b) ==
  /\ rs \in Seq(Requests[c]) /\ an \in Seq(Uris) /\ p \in Parsers
  /\ FirstRight(an, rs)
  /\ x = "established" => Upgraded(an, rs)
  /\ x # "established" => AllAnswered(p, an, rs, b) \/ OneWaits(p, an, rs, b)

Served ==
  /\ DOMAIN asked = Conns /\ answers \in [Conns -> Seq(Uris)] /\ DOMAIN parser = Conns
  /\ \A c \in Conns : ServedAs(c, session[c], parser[c], answers[c], asked[c], buffered[c])

\* A connection nothing has been asked on.
LEMMA ServedNew ==
  ASSUME NEW c, NEW x, x # "established"
  PROVE  ServedAs(c, x, NewParser, << >>, << >>, << >>)
<1>1. << >> \in Seq(Requests[c]) /\ << >> \in Seq(Uris)
  BY EmptySeq
<1>2. ~NewParser.upgrade /\ ~NewParser.stale
  BY DEF NewParser
<1> QED BY <1>1, <1>2, NewParserFacts DEF ServedAs, FirstRight, AllAnswered

LEMMA LastOf ==
  ASSUME NEW S, NEW s \in Seq(S), s # << >>
  PROVE  Len(s) \in Nat \ {0} /\ Last(s) = s[Len(s)] /\ Last(s) \in S
<1>1. Len(s) \in Nat \ {0}
  BY LenProperties, EmptySeq
<1>2. s[Len(s)] \in S
  BY <1>1, ElementOfSeq
<1> QED BY <1>1, <1>2 DEF Last

LEMMA LastOfAppend ==
  ASSUME NEW S, NEW s \in Seq(S), NEW e \in S
  PROVE  /\ Append(s, e) \in Seq(S) /\ Append(s, e) # << >>
         /\ Last(Append(s, e)) = e
         /\ Len(s) \in Nat /\ Len(Append(s, e)) = Len(s) + 1
         /\ s # << >> => Append(s, e)[1] = s[1]
         /\ s = << >> => Append(s, e)[1] = e /\ Len(s) = 0
<1>1. /\ Append(s, e) \in Seq(S)
      /\ Len(s) \in Nat /\ Len(Append(s, e)) = Len(s) + 1
      /\ \A i \in 1..Len(s) : Append(s, e)[i] = s[i]
      /\ Append(s, e)[Len(s) + 1] = e
  BY AppendProperties, LenProperties
<1>2. s # << >> <=> Len(s) # 0
  BY EmptySeq
<1>3. Append(s, e) # << >>
  BY <1>1, EmptySeq
<1> QED BY <1>1, <1>2, <1>3 DEF Last

\* A request is asked where every other has been answered.
LEMMA ServedAsks ==
  ASSUME NEW c \in Conns, NEW x, x # "established", NEW p, NEW an, NEW rs, NEW b,
         ServedAs(c, x, p, an, rs, b),
         NEW request \in Requests[c], rs # << >> => Len(an) = Len(rs)
  PROVE  ServedAs(c, x, p, an, Append(rs, request), b \o request)
<1> DEFINE more == Append(rs, request)
<1>1. rs \in Seq(Requests[c]) /\ an \in Seq(Uris) /\ p \in Parsers
  BY DEF ServedAs
<1>2. /\ more \in Seq(Requests[c]) /\ more # << >> /\ Last(more) = request
      /\ Len(rs) \in Nat /\ Len(more) = Len(rs) + 1
      /\ rs # << >> => more[1] = rs[1]
      /\ rs = << >> => more[1] = request /\ Len(rs) = 0
  <2> DEFINE S == Requests[c]
  <2>1. rs \in Seq(S) /\ request \in S
    BY <1>1
  <2> HIDE DEF S
  <2>2. /\ more \in Seq(S) /\ more # << >> /\ Last(more) = request
        /\ Len(rs) \in Nat /\ Len(more) = Len(rs) + 1
        /\ rs # << >> => more[1] = rs[1]
        /\ rs = << >> => more[1] = request /\ Len(rs) = 0
    BY <2>1, LastOfAppend
  <2> QED BY <2>2 DEF S
<1> HIDE DEF more
<1>3. AllAnswered(p, an, rs, b)
  <2>1. Len(an) \in Nat
    BY <1>1, LenProperties
  <2>2. OneWaits(p, an, rs, b) => rs # << >> /\ Len(an) = Len(rs) - 1
    BY DEF OneWaits
  <2>3. Len(rs) \in Nat
    BY <1>2
  <2>4. ~OneWaits(p, an, rs, b)
    BY <2>1, <2>2, <2>3
  <2> QED BY <2>4 DEF ServedAs
<1>4. request \in Seq(Lines) /\ Len(request) \in Nat
  <2>1. request \in Seq(Lines)
    BY RequestsAssumption
  <2> QED BY <2>1, LenProperties
<1>5. b \o request = Rest(request, 0)
  <2>1. b = << >>
    BY <1>3 DEF AllAnswered
  <2>2. << >> \o request = request
    BY <1>4, ConcatEmptySeq
  <2>3. 0 \in 0..Len(request)
    BY <1>4
  <2>4. /\ Rest(request, 0) \in Seq(Lines) /\ Len(Rest(request, 0)) = Len(request) - 0
        /\ \A j \in 1..(Len(request) - 0) : Rest(request, 0)[j] = request[0 + j]
    BY <1>4, <2>3, RestFacts
  <2>5. Len(Rest(request, 0)) = Len(request)
    BY <1>4, <2>4
  <2>6. \A j \in 1..Len(request) : Rest(request, 0)[j] = request[j]
    BY <1>4, <2>4
  <2>7. Rest(request, 0) = request
    BY <1>4, <2>4, <2>5, <2>6, SeqEqual
  <2> QED BY <2>1, <2>2, <2>7
<1>6. /\ Fresh(p) \in Parsers /\ ~Fresh(p).complete /\ Fresh(p).upgrade = p.upgrade
      /\ Fresh(p).stale = p.stale /\ Fresh(p).uri = p.uri /\ (Names(Fresh(p)) <=> Names(p))
  BY <1>1 DEF Fresh, Parsers, Names
<1>7. Progress(Fresh(p), request, 0, Len(more) = 1)
  <2>1. Len(more) = 1 <=> rs = << >>
    <3>1. Len(rs) = 0 <=> rs = << >>
      BY <1>1, EmptySeq
    <3> QED BY <1>2, <3>1
  <2>2. ~p.upgrade /\ ~Names(p) /\ (rs = << >> => ~p.stale) /\ (rs # << >> => p.uri \in Uris)
    BY <1>3 DEF AllAnswered
  <2> DEFINE q == Fresh(p)
             first == Len(more) = 1
  <2>3. /\ q \in Parsers /\ ~q.complete /\ ~q.upgrade /\ ~Names(q)
        /\ first => ~q.stale
        /\ first \/ q.uri \in Uris
    BY <1>6, <2>1, <2>2
  <2> HIDE DEF q, first
  <2>4. ~(0 >= 2) /\ ~(0 >= 1) /\ \A i \in 1..0 : FALSE
    OBVIOUS
  <2>5. Progress(q, request, 0, first)
    BY <2>3, <2>4 DEF Progress
  <2> QED BY <2>5 DEF q, first
<1>8. OneWaits(p, an, more, b \o request)
  <2>1. Len(an) = Len(more) - 1
    <3>1. Len(an) = Len(rs)
      BY <1>3 DEF AllAnswered
    <3>2. Len(rs) \in Nat /\ Len(more) = Len(rs) + 1
      BY <1>2
    <3> QED BY <3>1, <3>2
  <2>2. 0 \in 0..Len(request)
    BY <1>4
  <2> QED BY <1>2, <1>5, <1>7, <2>1, <2>2 DEF OneWaits
<1>9. FirstRight(an, more)
  <2>1. rs = << >> => an = << >>
    BY <1>1, <1>2, <1>3, EmptySeq DEF AllAnswered
  <2> QED BY <1>2, <2>1 DEF FirstRight, ServedAs
<1>10. ServedAs(c, x, p, an, more, b \o request)
  BY <1>1, <1>2, <1>8, <1>9 DEF ServedAs
<1> QED BY <1>10 DEF more

\* What is received takes the parser on in the last request.
LEMMA Received1 ==
  ASSUME NEW c \in Conns, NEW x, x # "established", NEW p, NEW an, NEW rs, NEW b,
         ServedAs(c, x, p, an, rs, b), NEW n \in DOMAIN b, NEW q,
         q = ParseAll(Fresh(p), SubSeq(b, 1, n))
  PROVE  /\ rs \in Seq(Requests[c]) /\ an \in Seq(Uris) /\ q \in Parsers
         /\ rs # << >> /\ Last(rs) \in Requests[c] /\ IsRequest(Last(rs))
         /\ Len(rs) \in Nat /\ Len(an) = Len(rs) - 1 /\ Len(Last(rs)) \in Nat
         /\ FirstRight(an, rs)
         /\ \E k \in 0..Len(Last(rs)) :
              Rest(b, n) = Rest(Last(rs), k) /\ Progress(q, Last(rs), k, Len(rs) = 1)
<1> DEFINE r == Last(rs)
<1>1. rs \in Seq(Requests[c]) /\ an \in Seq(Uris) /\ p \in Parsers /\ FirstRight(an, rs)
  BY DEF ServedAs
<1>2. OneWaits(p, an, rs, b)
  <2>1. AllAnswered(p, an, rs, b) => b = << >>
    BY DEF AllAnswered
  <2>2. b # << >>
    OBVIOUS
  <2> QED BY <2>1, <2>2 DEF ServedAs
<1>3. rs # << >> /\ Len(an) = Len(rs) - 1
  BY <1>2 DEF OneWaits
<1>4. r \in Requests[c] /\ Len(rs) \in Nat
  BY <1>1, <1>3, LastOf
<1>5. r \in Seq(Lines) /\ IsRequest(r) /\ Len(r) \in Nat
  <2>1. r \in Seq(Lines)
    BY <1>4, RequestsAssumption
  <2> QED BY <1>4, <2>1, LenProperties, BrowsersAssumption
<1>6. PICK k \in 0..Len(r) :
        b = Rest(r, k) /\ Progress(Fresh(p), r, k, Len(rs) = 1)
  BY <1>2 DEF OneWaits
<1> HIDE DEF r
<1>7. /\ b \in Seq(Lines) /\ Len(b) = Len(r) - k /\ DOMAIN b = 1..(Len(r) - k)
      /\ \A j \in 1..(Len(r) - k) : b[j] = r[k + j]
  BY <1>5, <1>6, RestFacts
<1>8. n \in Nat /\ n \in 0..(Len(r) - k) /\ k \in Nat /\ k + n <= Len(r) /\ n <= Len(b)
  BY <1>5, <1>7
<1> DEFINE lines == SubSeq(b, 1, n)
<1>9. Len(lines) = n /\ \A j \in 1..n : lines[j] = r[k + j]
  <2>1. \A i \in 1..n : b[i] \in Lines
    BY <1>7, <1>8, ElementOfSeq
  <2>2. /\ Len(SubSeq(b, 1, n)) = IF 1 <= n THEN n - 1 + 1 ELSE 0
        /\ \A i \in 1..(n - 1 + 1) : SubSeq(b, 1, n)[i] = b[1 + i - 1]
    BY <1>8, <2>1, SubSeqProperties
  <2>3. Len(lines) = n
    BY <1>8, <2>2
  <2>4. \A i \in 1..n : 1 + i - 1 = i /\ i \in 1..(n - 1 + 1)
    BY <1>8
  <2>5. \A i \in 1..n : lines[i] = b[i]
    BY <2>2, <2>4
  <2> QED BY <1>7, <1>8, <2>3, <2>5
<1>10. (Len(rs) = 1) \in BOOLEAN
  OBVIOUS
<1> HIDE DEF lines
<1>11. Progress(ParseAll(Fresh(p), lines), r, k + n, Len(rs) = 1)
  BY <1>5, <1>6, <1>8, <1>9, <1>10, ParseAllProgress
<1>12. Progress(q, r, k + n, Len(rs) = 1)
  BY <1>11 DEF lines
<1>13. k + n \in 0..Len(r) /\ Rest(b, n) = Rest(r, k + n)
  BY <1>5, <1>6, <1>8, RestOfRest
<1>14. q \in Parsers
  BY <1>12 DEF Progress
<1> QED BY <1>1, <1>3, <1>4, <1>5, <1>12, <1>13, <1>14 DEF r

\* The headers go on.
LEMMA ServedHeaders ==
  ASSUME NEW c \in Conns, NEW x, x # "established", NEW p, NEW an, NEW rs, NEW b,
         ServedAs(c, x, p, an, rs, b), NEW n \in DOMAIN b, NEW q,
         q = ParseAll(Fresh(p), SubSeq(b, 1, n)), ~q.complete
  PROVE  ServedAs(c, "headers", q, an, rs, Rest(b, n))
<1>1. /\ rs \in Seq(Requests[c]) /\ an \in Seq(Uris) /\ q \in Parsers
      /\ rs # << >> /\ Len(an) = Len(rs) - 1 /\ FirstRight(an, rs)
  BY Received1
<1>2. PICK k \in 0..Len(Last(rs)) :
        Rest(b, n) = Rest(Last(rs), k) /\ Progress(q, Last(rs), k, Len(rs) = 1)
  BY Received1
<1>3. Fresh(q) = q
  BY <1>1 DEF Fresh, Parsers
<1>4. OneWaits(q, an, rs, Rest(b, n))
  BY <1>1, <1>2, <1>3 DEF OneWaits
<1> QED BY <1>1, <1>4 DEF ServedAs

\* At the end of the headers the whole request has been received.
LEMMA RequestEnds ==
  ASSUME NEW c \in Conns, NEW x, x # "established", NEW p, NEW an, NEW rs, NEW b,
         ServedAs(c, x, p, an, rs, b), NEW n \in DOMAIN b, NEW q,
         q = ParseAll(Fresh(p), SubSeq(b, 1, n)), q.complete
  PROVE  /\ Rest(b, n) = << >> /\ q.uri \in Uris
         /\ Len(rs) = 1 => q.uri = UriOf(rs[1])
         /\ ~q.upgrade => ~Names(q)
         /\ q.upgrade /\ Names(q) => {"Upgrade", "command"} \subseteq ToSet(Last(rs))
<1> DEFINE r == Last(rs)
<1>1. /\ rs \in Seq(Requests[c]) /\ rs # << >> /\ r \in Requests[c] /\ IsRequest(r)
      /\ Len(rs) \in Nat /\ Len(r) \in Nat
  BY Received1
<1>2. PICK k \in 0..Len(r) : Rest(b, n) = Rest(r, k) /\ Progress(q, r, k, Len(rs) = 1)
  BY Received1
<1>3. Len(rs) = 1 => r = rs[1]
  BY DEF Last
<1> HIDE DEF r
<1>4. k = Len(r) /\ k >= 2
  <2>1. k = Len(r)
    BY <1>2 DEF Progress
  <2>2. Len(r) >= 2
    BY <1>1 DEF IsRequest
  <2> QED BY <2>1, <2>2
<1>5. r \in Seq(Lines)
  BY <1>1, RequestsAssumption
<1>6. Rest(b, n) = << >>
  <2>1. Rest(r, k) \in Seq(Lines) /\ Len(Rest(r, k)) = Len(r) - k
    BY <1>5, RestFacts
  <2>2. Len(Rest(r, k)) = 0
    BY <1>1, <1>4, <2>1
  <2> QED BY <1>2, <2>1, <2>2, EmptySeq
<1>7. q.uri \in Uris
  BY <1>2, <1>4 DEF Progress
<1>8. Len(rs) = 1 => q.uri = UriOf(rs[1])
  <2> SUFFICES ASSUME Len(rs) = 1 PROVE q.uri = UriOf(rs[1])
    OBVIOUS
  <2>1. q.uri = r[1]
    BY <1>2, <1>4 DEF Progress
  <2>2. Head(r) = r[1]
    OBVIOUS
  <2> QED BY <1>3, <2>1, <2>2 DEF UriOf
<1>9. ~q.upgrade => ~Names(q)
  <2> SUFFICES ASSUME Names(q) PROVE q.upgrade
    OBVIOUS
  <2>1. "command" \in ToSet(r)
    BY <1>2 DEF Progress
  <2>2. PICK i \in DOMAIN r : r[i] = "Upgrade"
    BY <1>1, <2>1 DEF IsRequest, ToSet
  <2>3. i \in 1..k
    BY <1>4, <1>5, LenProperties
  <2> QED BY <1>2, <2>1, <2>2, <2>3 DEF Progress
<1>10. q.upgrade /\ Names(q) => {"Upgrade", "command"} \subseteq ToSet(r)
  BY <1>2 DEF Progress
<1> QED BY <1>6, <1>7, <1>8, <1>9, <1>10 DEF r

\* A request is answered.
LEMMA ServedAnswer ==
  ASSUME NEW c \in Conns, NEW x, x # "established", NEW p, NEW an, NEW rs, NEW b,
         ServedAs(c, x, p, an, rs, b), NEW n \in DOMAIN b, NEW q,
         q = ParseAll(Fresh(p), SubSeq(b, 1, n)), q.complete, ~q.upgrade
  PROVE  ServedAs(c, "http", [q EXCEPT !.stale = TRUE], Append(an, q.uri), rs, Rest(b, n))
<1> DEFINE new == [q EXCEPT !.stale = TRUE]
           more == Append(an, q.uri)
<1>1. /\ rs \in Seq(Requests[c]) /\ an \in Seq(Uris) /\ q \in Parsers /\ Len(rs) \in Nat
      /\ rs # << >> /\ Len(an) = Len(rs) - 1 /\ FirstRight(an, rs)
  BY Received1
<1>2. /\ Rest(b, n) = << >> /\ q.uri \in Uris /\ ~Names(q)
      /\ Len(rs) = 1 => q.uri = UriOf(rs[1])
  BY RequestEnds
<1>3. /\ new \in Parsers /\ new.upgrade = q.upgrade /\ new.uri = q.uri
      /\ Names(new) <=> Names(q)
  BY <1>1 DEF Parsers, Names
<1>4. /\ more \in Seq(Uris) /\ more # << >> /\ Len(more) = Len(an) + 1
      /\ Len(an) \in Nat
      /\ an # << >> => more[1] = an[1]
      /\ an = << >> => more[1] = q.uri /\ Len(an) = 0
  BY <1>1, <1>2, LastOfAppend
<1> HIDE DEF new, more
<1>5. Len(more) = Len(rs)
  BY <1>1, <1>4
<1>6. FirstRight(more, rs)
  <2>1. an = << >> => Len(rs) = 1
    BY <1>1, <1>4
  <2> QED BY <1>1, <1>2, <1>4, <2>1 DEF FirstRight
<1>7. AllAnswered(new, more, rs, Rest(b, n))
  BY <1>1, <1>2, <1>3, <1>5 DEF AllAnswered
<1>8. ServedAs(c, "http", new, more, rs, Rest(b, n))
  BY <1>1, <1>3, <1>4, <1>6, <1>7 DEF ServedAs
<1> QED BY <1>8 DEF new, more

\* A handshake is accepted.
LEMMA ServedHandshake ==
  ASSUME NEW c \in Conns, NEW x, x # "established", NEW p, NEW an, NEW rs, NEW b, NEW b1,
         ServedAs(c, x, p, an, rs, b), NEW n \in DOMAIN b, NEW q,
         q = ParseAll(Fresh(p), SubSeq(b, 1, n)), q.complete, q.upgrade, Supported(q)
  PROVE  ServedAs(c, "established", NewParser, an, rs, b1)
<1>1. /\ rs \in Seq(Requests[c]) /\ an \in Seq(Uris) /\ q \in Parsers /\ Len(rs) \in Nat
      /\ rs # << >> /\ Len(an) = Len(rs) - 1 /\ FirstRight(an, rs)
  BY Received1
<1>2. Names(q)
  BY DEF Supported, Names, ToSet
<1>3. {"Upgrade", "command"} \subseteq ToSet(Last(rs))
  BY <1>2, RequestEnds
<1>4. Upgraded(an, rs)
  <2>1. Len(an) <= Len(rs)
    BY <1>1
  <2> QED BY <1>1, <1>3, <2>1 DEF Upgraded
<1> QED BY <1>1, <1>4, NewParserFacts DEF ServedAs

LEMMA InitServed == Init => Served
<1> SUFFICES ASSUME Init PROVE Served
  OBVIOUS
<1>1. DOMAIN asked = Conns /\ answers \in [Conns -> Seq(Uris)] /\ DOMAIN parser = Conns
  BY EmptySeq DEF Init
<1>2. ASSUME NEW c \in Conns
      PROVE  ServedAs(c, session[c], parser[c], answers[c], asked[c], buffered[c])
  <2>1. /\ session[c] = "none" /\ parser[c] = NewParser /\ answers[c] = << >>
        /\ asked[c] = << >> /\ buffered[c] = << >>
    BY DEF Init
  <2> QED BY <2>1, ServedNew
<1> QED BY <1>1, <1>2 DEF Served

\* A step that serves one connection and leaves the others.
LEMMA ServesOne ==
  ASSUME IInv, Served, NEW c \in Conns,
         DOMAIN asked' = Conns, DOMAIN answers' = Conns, DOMAIN parser' = Conns,
         answers' \in [Conns -> Seq(Uris)],
         \A d \in Conns \ {c} :
           /\ session'[d] = session[d] /\ parser'[d] = parser[d]
           /\ answers'[d] = answers[d] /\ asked'[d] = asked[d]
           /\ buffered'[d] = buffered[d],
         ServedAs(c, session'[c], parser'[c], answers'[c], asked'[c], buffered'[c])
  PROVE  Served'
<1>1. ASSUME NEW d \in Conns
      PROVE  ServedAs(d, session'[d], parser'[d], answers'[d], asked'[d], buffered'[d])
  <2>1. CASE d = c
    BY <2>1
  <2>2. CASE d # c
    <3>1. ServedAs(d, session[d], parser[d], answers[d], asked[d], buffered[d])
      BY DEF Served
    <3> QED BY <2>2, <3>1
  <2> QED BY <2>1, <2>2
<1> QED BY <1>1 DEF Served

LEMMA CloseServes ==
  ASSUME IInv, Served, NEW c \in Conns, NEW old, Close(c, old)
  PROVE  Served'
<1>1. /\ session' = [session EXCEPT ![c] = "none"]
      /\ parser' = [parser EXCEPT ![c] = NewParser]
      /\ answers' = [answers EXCEPT ![c] = << >>]
      /\ asked' = [asked EXCEPT ![c] = << >>]
      /\ buffered' = [buffered EXCEPT ![c] = << >>]
  BY DEF Close
<1>2. /\ DOMAIN session = Conns /\ DOMAIN buffered = Conns /\ DOMAIN asked = Conns
      /\ answers \in [Conns -> Seq(Uris)] /\ DOMAIN parser = Conns
  BY DEF IInv, ShapesOK, Served
<1>3. /\ session'[c] = "none" /\ parser'[c] = NewParser /\ answers'[c] = << >>
      /\ asked'[c] = << >> /\ buffered'[c] = << >>
  BY <1>1, <1>2
<1>4. answers' \in [Conns -> Seq(Uris)] /\ DOMAIN asked' = Conns /\ DOMAIN parser' = Conns
  BY <1>1, <1>2, EmptySeq
<1>5. ServedAs(c, session'[c], parser'[c], answers'[c], asked'[c], buffered'[c])
  BY <1>3, ServedNew
<1>6. \A d \in Conns \ {c} :
        /\ session'[d] = session[d] /\ parser'[d] = parser[d]
        /\ answers'[d] = answers[d] /\ asked'[d] = asked[d]
        /\ buffered'[d] = buffered[d]
  BY <1>1, <1>2
<1> QED BY <1>4, <1>5, <1>6, ServesOne

LEMMA AcceptServes ==
  ASSUME IInv, Served, Accept
  PROVE  Served'
<1> DEFINE c == Head(backlog)
<1>1. /\ UNCHANGED <<parser, answers, asked, buffered>>
      /\ Visiting(Listener, "in")
      /\ session' = [session EXCEPT ![c] = "http"]
  BY DEF Accept
<1>2. backlog # << >>
  BY <1>1, Visited DEF Pending
<1>3. c \in Conns /\ session[c] = "none"
  <2>1. c = backlog[1] /\ backlog[1] \in Conns /\ 1 \in DOMAIN backlog
    <3>1. backlog \in Seq(Conns)
      BY DEF IInv, ShapesOK
    <3>2. c = backlog[1] /\ backlog[1] \in Conns /\ Len(backlog) \in Nat \ {0}
          /\ DOMAIN backlog = 1..Len(backlog)
      BY <1>2, <3>1, HeadTailProperties, LenProperties, EmptySeq
    <3> QED BY <3>2
  <2> QED BY <2>1 DEF IInv, OneByOne
<1> HIDE DEF c
<1>4. DOMAIN session = Conns
  BY DEF IInv, ShapesOK
<1>5. ServedAs(c, session'[c], parser'[c], answers'[c], asked'[c], buffered'[c])
  <2>1. ServedAs(c, "none", parser[c], answers[c], asked[c], buffered[c])
    BY <1>3 DEF Served
  <2>2. ServedAs(c, "http", parser[c], answers[c], asked[c], buffered[c])
    BY <2>1 DEF ServedAs
  <2> QED BY <1>1, <1>3, <1>4, <2>2
<1>6. \A d \in Conns \ {c} : session'[d] = session[d]
  BY <1>1, <1>4
<1>7. /\ DOMAIN asked' = Conns /\ DOMAIN answers' = Conns /\ DOMAIN parser' = Conns
      /\ answers' \in [Conns -> Seq(Uris)]
  BY <1>1 DEF Served
<1> QED BY <1>1, <1>3, <1>5, <1>6, <1>7, ServesOne

\* Reading headers, whatever is made of them.
LEMMA ReadingServes ==
  ASSUME IInv, Served, NEW c \in Conns, NEW n,
         ReadHeaders(c, n) \/ ReadRequest(c, n) \/ ReadHandshake(c, n)
  PROVE  Served'
<1> DEFINE p == parser[c]
           an == answers[c]
           rs == asked[c]
           b == buffered[c]
           q == ParseAll(Fresh(p), SubSeq(b, 1, n))
<1>1. /\ DOMAIN session = Conns /\ DOMAIN buffered = Conns /\ DOMAIN asked = Conns
      /\ answers \in [Conns -> Seq(Uris)] /\ DOMAIN parser = Conns
      /\ DOMAIN answers = Conns
  BY DEF IInv, ShapesOK, Served
<1>2. Parsed(c, n) = q /\ Left(c, n) = Rest(b, n)
  BY DEF Parsed, Received, Fresh, Left, Rest
<1>3. n \in DOMAIN b /\ session[c] # "established"
  BY DEF ReadHeaders, ReadRequest, ReadHandshake, Reading
<1>4. /\ ServedAs(c, session[c], p, an, rs, b)
      /\ buffered' = [buffered EXCEPT ![c] = Rest(b, n)] /\ asked' = asked
  BY <1>2 DEF Served, ReadHeaders, ReadRequest, ReadHandshake
<1> HIDE DEF q, p, an, rs, b
<1>5. CASE ReadHeaders(c, n)
  <2>1. /\ ~q.complete /\ session' = [session EXCEPT ![c] = "headers"]
        /\ parser' = [parser EXCEPT ![c] = q] /\ answers' = answers
    BY <1>2, <1>5 DEF ReadHeaders
  <2>2. ServedAs(c, "headers", q, an, rs, Rest(b, n))
    BY <1>3, <1>4, <2>1, ServedHeaders DEF q
  <2>3. ServedAs(c, session'[c], parser'[c], answers'[c], asked'[c], buffered'[c])
    <3>1. /\ session'[c] = "headers" /\ parser'[c] = q /\ answers'[c] = an
          /\ asked'[c] = rs /\ buffered'[c] = Rest(b, n)
      BY <1>1, <1>4, <2>1 DEF an, rs
    <3> QED BY <2>2, <3>1
  <2>4. \A d \in Conns \ {c} :
          /\ session'[d] = session[d] /\ parser'[d] = parser[d]
          /\ answers'[d] = answers[d] /\ asked'[d] = asked[d]
          /\ buffered'[d] = buffered[d]
    BY <1>1, <1>4, <2>1
  <2>5. /\ DOMAIN asked' = Conns /\ DOMAIN answers' = Conns /\ DOMAIN parser' = Conns
        /\ answers' \in [Conns -> Seq(Uris)]
    BY <1>1, <1>4, <2>1
  <2> QED BY <2>3, <2>4, <2>5, ServesOne
<1>6. CASE ReadRequest(c, n)
  <2> DEFINE new == [q EXCEPT !.stale = TRUE]
             more == Append(an, q.uri)
  <2>1. /\ q.complete /\ ~q.upgrade /\ session' = [session EXCEPT ![c] = "http"]
        /\ parser' = [parser EXCEPT ![c] = new]
        /\ answers' = [answers EXCEPT ![c] = more]
    BY <1>2, <1>6 DEF ReadRequest, an
  <2>2. ServedAs(c, "http", new, more, rs, Rest(b, n))
    BY <1>3, <1>4, <2>1, ServedAnswer DEF q
  <2> HIDE DEF new, more
  <2>3. more \in Seq(Uris)
    BY <2>2 DEF ServedAs
  <2>4. ServedAs(c, session'[c], parser'[c], answers'[c], asked'[c], buffered'[c])
    <3>1. /\ session'[c] = "http" /\ parser'[c] = new /\ answers'[c] = more
          /\ asked'[c] = rs /\ buffered'[c] = Rest(b, n)
      BY <1>1, <1>4, <2>1 DEF rs
    <3> QED BY <2>2, <3>1
  <2>5. \A d \in Conns \ {c} :
          /\ session'[d] = session[d] /\ parser'[d] = parser[d]
          /\ answers'[d] = answers[d] /\ asked'[d] = asked[d]
          /\ buffered'[d] = buffered[d]
    BY <1>1, <1>4, <2>1
  <2>6. /\ DOMAIN asked' = Conns /\ DOMAIN answers' = Conns /\ DOMAIN parser' = Conns
        /\ answers' \in [Conns -> Seq(Uris)]
    BY <1>1, <1>4, <2>1, <2>3
  <2> QED BY <2>4, <2>5, <2>6, ServesOne
<1>7. CASE ReadHandshake(c, n)
  <2>1. /\ q.complete /\ q.upgrade /\ Supported(q)
        /\ session' = [session EXCEPT ![c] = "established"]
        /\ parser' = [parser EXCEPT ![c] = NewParser] /\ answers' = answers
    BY <1>2, <1>7 DEF ReadHandshake
  <2>2. ServedAs(c, "established", NewParser, an, rs, Rest(b, n))
    BY <1>3, <1>4, <2>1, ServedHandshake DEF q
  <2>3. ServedAs(c, session'[c], parser'[c], answers'[c], asked'[c], buffered'[c])
    <3>1. /\ session'[c] = "established" /\ parser'[c] = NewParser /\ answers'[c] = an
          /\ asked'[c] = rs /\ buffered'[c] = Rest(b, n)
      BY <1>1, <1>4, <2>1 DEF an, rs
    <3> QED BY <2>2, <3>1
  <2>4. \A d \in Conns \ {c} :
          /\ session'[d] = session[d] /\ parser'[d] = parser[d]
          /\ answers'[d] = answers[d] /\ asked'[d] = asked[d]
          /\ buffered'[d] = buffered[d]
    BY <1>1, <1>4, <2>1
  <2>5. /\ DOMAIN asked' = Conns /\ DOMAIN answers' = Conns /\ DOMAIN parser' = Conns
        /\ answers' \in [Conns -> Seq(Uris)]
    BY <1>1, <1>4, <2>1
  <2> QED BY <2>3, <2>4, <2>5, ServesOne
<1> QED BY <1>5, <1>6, <1>7

\* Of a websocket it does not matter what is sent.
LEMMA FramesServe ==
  ASSUME IInv, Served, NEW c \in Conns, session[c] = "established", NEW new,
         buffered' = [buffered EXCEPT ![c] = new],
         UNCHANGED <<session, parser, answers, asked>>
  PROVE  Served'
<1>1. DOMAIN buffered = Conns
  BY DEF IInv, ShapesOK
<1>2. ServedAs(c, "established", parser[c], answers[c], asked[c], new)
  <2>1. ServedAs(c, "established", parser[c], answers[c], asked[c], buffered[c])
    BY DEF Served
  <2> QED BY <2>1 DEF ServedAs
<1>3. ServedAs(c, session'[c], parser'[c], answers'[c], asked'[c], buffered'[c])
  BY <1>1, <1>2
<1>4. \A d \in Conns \ {c} : buffered'[d] = buffered[d]
  BY <1>1
<1>5. /\ DOMAIN asked' = Conns /\ DOMAIN answers' = Conns /\ DOMAIN parser' = Conns
      /\ answers' \in [Conns -> Seq(Uris)]
  BY DEF Served
<1> QED BY <1>3, <1>4, <1>5, ServesOne

LEMMA AskServes ==
  ASSUME IInv, Served, NEW c \in Conns, NEW request \in Requests[c], Ask(c, request)
  PROVE  Served'
<1> DEFINE p == parser[c]
           an == answers[c]
           rs == asked[c]
           b == buffered[c]
<1>1. /\ DOMAIN buffered = Conns /\ DOMAIN asked = Conns
      /\ answers \in [Conns -> Seq(Uris)] /\ DOMAIN parser = Conns
  BY DEF IInv, ShapesOK, Served
<1>2. /\ session[c] # "established" /\ (rs # << >> => Len(an) = Len(rs))
      /\ asked' = [asked EXCEPT ![c] = Append(rs, request)]
      /\ buffered' = [buffered EXCEPT ![c] = b \o request]
      /\ UNCHANGED <<session, parser, answers>>
  BY DEF Ask, sessionVars
<1>3. ServedAs(c, session[c], p, an, rs, b)
  BY DEF Served
<1> HIDE DEF p, an, rs, b
<1>4. ServedAs(c, session[c], p, an, Append(rs, request), b \o request)
  BY <1>2, <1>3, ServedAsks
<1>5. ServedAs(c, session'[c], parser'[c], answers'[c], asked'[c], buffered'[c])
  <2>1. /\ asked'[c] = Append(rs, request) /\ buffered'[c] = b \o request
        /\ session'[c] = session[c] /\ parser'[c] = p /\ answers'[c] = an
    BY <1>1, <1>2 DEF p, an
  <2> QED BY <1>4, <2>1
<1>6. \A d \in Conns \ {c} : buffered'[d] = buffered[d] /\ asked'[d] = asked[d]
  BY <1>1, <1>2
<1>7. /\ DOMAIN asked' = Conns /\ DOMAIN answers' = Conns /\ DOMAIN parser' = Conns
      /\ answers' \in [Conns -> Seq(Uris)]
  BY <1>1, <1>2
<1> QED BY <1>2, <1>5, <1>6, <1>7, ServesOne

LEMMA StepServes == IInv /\ Served /\ [Next]_vars => Served'
<1> SUFFICES ASSUME IInv, Served, [Next]_vars PROVE Served'
  OBVIOUS
<1>1. CASE UNCHANGED <<session, parser, answers, asked, buffered>>
  BY <1>1 DEF Served
<1>2. CASE Poll \/ PassEnds \/ TooBusy \/ \E s \in Conns \cup {Listener} : Skip(s)
  BY <1>1, <1>2 DEF Poll, PassEnds, TooBusy, Skip, sessionVars, netVars
<1>3. CASE Accept
  BY <1>3, AcceptServes
<1>4. ASSUME NEW c \in Conns,
             HangUp(c) \/ ReadNothing(c) \/ \E n : ReadRefused(c, n) \/ ReadEnd(c, n)
      PROVE  Served'
  <2>1. \/ \E old : Close(c, old)
        \/ UNCHANGED <<session, parser, answers, asked, buffered>>
    BY <1>4 DEF HangUp, ReadNothing, ReadRefused, ReadEnd, sessionVars
  <2> QED BY <1>1, <2>1, CloseServes
<1>5. ASSUME NEW c \in Conns, NEW n,
             ReadHeaders(c, n) \/ ReadRequest(c, n) \/ ReadHandshake(c, n) \/ ReadText(c, n)
      PROVE  Served'
  <2>1. ReadText(c, n) =>
          /\ session[c] = "established" /\ buffered' = [buffered EXCEPT ![c] = Left(c, n)]
          /\ UNCHANGED <<session, parser, answers, asked>>
    BY DEF ReadText, sessionVars
  <2> QED BY <1>5, <2>1, ReadingServes, FramesServe
<1>6. ASSUME NEW c \in Conns, Connect(c) \/ Leave(c)
      PROVE  Served'
  BY <1>1, <1>6 DEF Connect, Leave, sessionVars
<1>7. ASSUME NEW c \in Conns, NEW request \in Requests[c], Ask(c, request)
      PROVE  Served'
  BY <1>7, AskServes
<1>8. ASSUME NEW c \in Conns, NEW frame \in Frames, SendFrame(c, frame)
      PROVE  Served'
  <2>1. /\ session[c] = "established"
        /\ buffered' = [buffered EXCEPT ![c] = Append(buffered[c], frame)]
        /\ UNCHANGED <<session, parser, answers, asked>>
    BY <1>8 DEF SendFrame, sessionVars
  <2> QED BY <2>1, FramesServe
<1>9. CASE Loop
  BY <1>2, <1>3, <1>4, <1>5, <1>9 DEF Loop
<1>10. CASE Browser
  BY <1>6, <1>7, <1>8, <1>10 DEF Browser
<1>11. CASE UNCHANGED vars
  BY <1>1, <1>11 DEF vars, sessionVars, netVars
<1> QED BY <1>9, <1>10, <1>11 DEF Next

LEMMA ServedAnswers == Served => AnswersTheRequest
<1> SUFFICES ASSUME Served, NEW c \in Conns
             PROVE  /\ session[c] # "none" /\ answers[c] # << >> =>
                         /\ answers[c][1] = UriOf(asked[c][1])
                         /\ Len(answers[c]) <= Len(asked[c])
                    /\ session[c] = "established" =>
                         {"Upgrade", "command"} \subseteq ToSet(Last(asked[c]))
  BY DEF AnswersTheRequest
<1> DEFINE an == answers[c]
           rs == asked[c]
<1>1. ServedAs(c, session[c], parser[c], an, rs, buffered[c])
  BY DEF Served
<1>2. Len(an) \in Nat /\ Len(rs) \in Nat
  BY <1>1, LenProperties DEF ServedAs
<1>3. Len(an) <= Len(rs)
  <2>1. \/ Len(an) <= Len(rs) \/ Len(an) = Len(rs) \/ Len(an) = Len(rs) - 1
    BY <1>1 DEF ServedAs, Upgraded, AllAnswered, OneWaits
  <2> HIDE DEF an, rs
  <2> QED BY <1>2, <2>1
<1> QED BY <1>1, <1>3 DEF ServedAs, FirstRight, Upgraded

-----------------------------------------------------------------------------
(* What the poll set holds.                                                *)

Polls(s) == \E i \in DOMAIN fds : fds[i].sock = s

\* The listening socket and every session are polled.
AllPolled ==
  /\ Polls(Listener) /\ \A c \in Conns : session[c] # "none" => Polls(c)
  /\ pass <= MaxClients + 1

LEMMA InitPolled == Init => AllPolled
<1> SUFFICES ASSUME Init PROVE AllPolled
  OBVIOUS
<1>1. 1 \in DOMAIN fds /\ fds[1].sock = Listener
  BY DEF Init, Entry
<1>2. pass <= MaxClients + 1
  BY DEF Init
<1> QED BY <1>1, <1>2 DEF AllPolled, Polls, Init

\* A step that goes no further than to the next entry and leaves the sockets.
LEMMA SameSockets ==
  ASSUME IInv, AllPolled, DOMAIN fds' = DOMAIN fds,
         \A i \in DOMAIN fds : fds'[i].sock = fds[i].sock,
         \A c \in Conns : session'[c] # "none" => session[c] # "none",
         pass' \in {0, 1, pass} \/ (pass' = pass + 1 /\ pass \in DOMAIN fds)
  PROVE  AllPolled'
<1>1. pass' <= MaxClients + 1
  <2>1. DOMAIN fds = 1..Len(fds) /\ Len(fds) \in Nat /\ Len(fds) <= MaxClients /\ pass \in Nat
    BY Entries DEF IInv, ShapesOK
  <2>2. pass \in DOMAIN fds => pass <= MaxClients
    BY <2>1
  <2> QED BY <2>1, <2>2 DEF AllPolled
<1>2. \A s : Polls(s) => Polls(s)'
  BY DEF Polls
<1> QED BY <1>1, <1>2 DEF AllPolled

LEMMA AcceptPolls ==
  ASSUME IInv, AllPolled, Accept
  PROVE  AllPolled'
<1> PICK c : c = Head(backlog)
  OBVIOUS
<1>1. /\ Visiting(Listener, "in") /\ session' = [session EXCEPT ![c] = "http"]
      /\ fds' = Append(fds, Entry(c, "none")) /\ pass' = pass + 1
  BY DEF Accept
<1>2. c \in Conns
  <2>1. backlog # << >> /\ backlog \in Seq(Conns)
    BY <1>1, Visited DEF Pending, IInv, ShapesOK
  <2> QED BY <2>1, HeadTailProperties, LenProperties, EmptySeq
<1>3. Entry(c, "none") \in Pollfds /\ Entry(c, "none").sock = c
  BY <1>2 DEF Entry, Pollfds, Sockets, Revents
<1>4. /\ Len(fds) \in Nat /\ DOMAIN fds = 1..Len(fds) /\ DOMAIN fds' = 1..(Len(fds) + 1)
      /\ \A i \in 1..Len(fds) : fds'[i] = fds[i]
      /\ fds'[Len(fds) + 1] = Entry(c, "none") /\ Len(fds) <= MaxClients
  BY <1>1, <1>3, AppendProperties, LenProperties DEF IInv, ShapesOK
<1>5. \A s : Polls(s) => Polls(s)'
  <2>1. \A i \in DOMAIN fds : i \in DOMAIN fds' /\ fds'[i] = fds[i]
    BY <1>4
  <2> QED BY <2>1 DEF Polls
<1>6. Polls(c)'
  <2>1. Len(fds) + 1 \in DOMAIN fds' /\ fds'[Len(fds) + 1].sock = c
    BY <1>3, <1>4
  <2> QED BY <2>1 DEF Polls
<1>7. pass' <= MaxClients + 1
  <2>1. pass \in 1..Len(fds)
    BY <1>1, <1>4, Visited
  <2> QED BY <1>1, <1>4, <2>1
<1>8. \A d \in Conns : session'[d] # "none" => d = c \/ session[d] # "none"
  BY <1>1 DEF IInv, ShapesOK
<1> QED BY <1>5, <1>6, <1>7, <1>8 DEF AllPolled

LEMMA ClosePolls ==
  ASSUME IInv, AllPolled, NEW c \in Conns, NEW r, Visiting(c, r), NEW old, Close(c, old),
         pass' = pass + 1
  PROVE  AllPolled'
<1>1. session' = [session EXCEPT ![c] = "none"] /\ fds' = RemoveAt(fds, pass)
  BY DEF Close
<1>2. pass \in DOMAIN fds /\ pass \in Nat \ {0} /\ c # Listener /\ fds[pass].sock = c
  BY Visited
<1>3. /\ Len(fds) \in Nat \ {0} /\ Len(fds) <= MaxClients
      /\ DOMAIN fds = 1..Len(fds) /\ DOMAIN fds' = 1..(Len(fds) - 1)
      /\ \A j \in 1..(Len(fds) - 1) : fds'[j] = fds[IF j < pass THEN j ELSE j + 1]
  <2> DEFINE rest == RemoveAt(fds, pass)
  <2>1. fds \in Seq(Pollfds) /\ Len(fds) <= MaxClients
    BY DEF IInv, ShapesOK
  <2>2. /\ Len(fds) \in Nat \ {0}
        /\ DOMAIN fds = 1..Len(fds) /\ DOMAIN rest = 1..(Len(fds) - 1)
        /\ \A j \in 1..(Len(fds) - 1) : rest[j] = fds[IF j < pass THEN j ELSE j + 1]
    BY <1>2, <2>1, RemoveAtFacts
  <2>3. fds' = rest
    BY <1>1
  <2> HIDE DEF rest
  <2> QED BY <2>1, <2>2, <2>3
<1>4. ASSUME NEW s, s # c, Polls(s)
      PROVE  Polls(s)'
  <2>1. PICK i \in DOMAIN fds : fds[i].sock = s
    BY <1>4 DEF Polls
  <2>2. i # pass /\ i \in 1..Len(fds)
    BY <1>2, <1>3, <1>4, <2>1
  <2> DEFINE j == IF i < pass THEN i ELSE i - 1
  <2>3. j \in 1..(Len(fds) - 1) /\ (IF j < pass THEN j ELSE j + 1) = i
    BY <1>2, <1>3, <2>2
  <2> HIDE DEF j
  <2>4. j \in DOMAIN fds' /\ fds'[j] = fds[i]
    BY <1>3, <2>3
  <2> QED BY <2>1, <2>4 DEF Polls
<1>5. \A d \in Conns : session'[d] # "none" => d # c /\ session[d] # "none"
  BY <1>1 DEF IInv, ShapesOK
<1>6. pass' <= MaxClients + 1
  BY <1>2, <1>3
<1> QED BY <1>2, <1>4, <1>5, <1>6 DEF AllPolled

LEMMA StepPolled == IInv /\ AllPolled /\ [Next]_vars => AllPolled'
<1> SUFFICES ASSUME IInv, AllPolled, [Next]_vars PROVE AllPolled'
  OBVIOUS
<1>1. CASE Poll
  <2>1. /\ pass' = 1 /\ session' = session
        /\ fds' = [i \in DOMAIN fds |-> Entry(fds[i].sock, Ready(fds[i].sock))]
    BY <1>1 DEF Poll, sessionVars
  <2>2. DOMAIN fds' = DOMAIN fds /\ \A i \in DOMAIN fds : fds'[i].sock = fds[i].sock
    BY <2>1 DEF Entry
  <2> QED BY <2>1, <2>2, SameSockets
<1>2. CASE UNCHANGED <<fds, session>> /\ pass' \in {0, pass}
  BY <1>2, SameSockets
<1>3. CASE UNCHANGED fds /\ pass' = pass + 1 /\ pass \in DOMAIN fds
            /\ \A c \in Conns : session'[c] # "none" => session[c] # "none"
  BY <1>3, SameSockets
<1>4. CASE Accept
  BY <1>4, AcceptPolls
<1>5. CASE PassEnds
  BY <1>2, <1>5 DEF PassEnds, sessionVars
<1>6. CASE TooBusy \/ \E s \in Conns \cup {Listener} : Skip(s)
  BY <1>3, <1>6 DEF TooBusy, Skip, Visiting, sessionVars
<1>7. ASSUME NEW c \in Conns,
             HangUp(c) \/ ReadNothing(c) \/ \E n : ReadRefused(c, n) \/ ReadEnd(c, n)
      PROVE  AllPolled'
  <2>1. \/ (\E r : Visiting(c, r)) /\ (\E old : Close(c, old)) /\ pass' = pass + 1
        \/ UNCHANGED <<fds, session>> /\ pass' = pass
    BY <1>7 DEF HangUp, ReadNothing, ReadRefused, ReadEnd, Reading, sessionVars
  <2> QED BY <1>2, <2>1, ClosePolls
<1>8. ASSUME NEW c \in Conns, NEW n,
             ReadHeaders(c, n) \/ ReadRequest(c, n) \/ ReadHandshake(c, n) \/ ReadText(c, n)
      PROVE  AllPolled'
  <2>1. /\ UNCHANGED fds /\ pass' = pass + 1 /\ Reading(c, n)
        /\ \/ session' = session
           \/ \E x : session' = [session EXCEPT ![c] = x]
    BY <1>8 DEF ReadHeaders, ReadRequest, ReadHandshake, ReadText, sessionVars
  <2>2. pass \in DOMAIN fds /\ session[c] # "none"
    BY <2>1, Visited DEF Reading
  <2>3. \A d \in Conns : session'[d] # "none" => session[d] # "none"
    BY <2>1, <2>2 DEF IInv, ShapesOK
  <2> QED BY <1>3, <2>1, <2>2, <2>3
<1>9. CASE Browser
  BY <1>2, <1>9 DEF Browser, Connect, Leave, Ask, SendFrame, sessionVars
<1>10. CASE UNCHANGED vars
  BY <1>2, <1>10 DEF vars, sessionVars
<1>11. CASE Loop
  BY <1>1, <1>4, <1>5, <1>6, <1>7, <1>8, <1>11 DEF Loop
<1> QED BY <1>9, <1>10, <1>11 DEF Next

\* The entries are as many as the sessions and the listening socket.
LEMMA Counted ==
  ASSUME IInv, AllPolled
  PROVE  LET S == {c \in Conns : session[c] # "none"} IN
           /\ {fds[i].sock : i \in DOMAIN fds} = {Listener} \cup S
           /\ Len(fds) = 1 + Cardinality(S)
<1> DEFINE S == {c \in Conns : session[c] # "none"}
           T == S \cup {Listener}
           sock == [i \in 1..Len(fds) |-> fds[i].sock]
<1>1. DOMAIN fds = 1..Len(fds) /\ Len(fds) \in Nat
  BY Entries
<1>2. \A i \in DOMAIN fds : fds[i].sock \in T
  BY PolledSockets
<1>3. \A s \in T : \E i \in DOMAIN fds : fds[i].sock = s
  BY DEF AllPolled, Polls
<1>4. sock \in Bijection(1..Len(fds), T)
  <2>1. sock \in [1..Len(fds) -> T]
    BY <1>1, <1>2
  <2>2. \A i, j \in 1..Len(fds) : sock[i] = sock[j] => i = j
    BY <1>1 DEF IInv, PolledOnce
  <2>3. \A s \in T : \E i \in 1..Len(fds) : sock[i] = s
    BY <1>1, <1>3
  <2> HIDE DEF sock, T
  <2> QED BY <2>1, <2>2, <2>3 DEF Bijection, Injection, Surjection, IsInjective
<1>5. IsFiniteSet(T) /\ Cardinality(T) = Len(fds)
  <2> HIDE DEF sock, T
  <2>1. ExistsBijection(1..Len(fds), T)
    BY <1>4 DEF ExistsBijection
  <2> QED BY <1>1, <2>1, FS_CountingElements, FS_NatBijection
<1>6. IsFiniteSet(S) /\ Listener \notin S
  <2>1. S \subseteq T
    OBVIOUS
  <2> QED BY <1>5, <2>1, FS_Subset
<1>7. Cardinality(T) = Cardinality(S) + 1
  BY <1>6, FS_AddElement
<1>8. Cardinality(S) \in Nat
  BY <1>6, FS_CardinalityType
<1>9. Len(fds) = 1 + Cardinality(S)
  BY <1>5, <1>7, <1>8
<1>10. {fds[i].sock : i \in DOMAIN fds} = {Listener} \cup S
  BY <1>2, <1>3
<1> QED BY <1>9, <1>10

-----------------------------------------------------------------------------
\* The first answer on a connection is to its first request, no request is
\* answered twice, and a websocket is established only where the last request
\* asks for it, whatever the parser has kept of those before.
THEOREM AnswersRequests == Spec => []AnswersTheRequest
<1>1. Init => Served
  BY InitServed
<1>2. IInv /\ Served /\ [Next]_vars => Served'
  BY StepServes
<1>3. Spec => []Served
  BY <1>1, <1>2, Invariance, PTL DEF Spec
<1> QED BY <1>3, ServedAnswers, PTL

\* The values of the variables; the poll set holds the listening socket and
\* those of the sessions, each once, and is never longer than MAX_CLIENTS.
THEOREM TypeCorrect == Spec => []TypeOK
<1>1. Spec => []Served
  BY InitServed, StepServes, Invariance, PTL DEF Spec
<1>2. Spec => []AllPolled
  BY InitPolled, StepPolled, Invariance, PTL DEF Spec
<1>3. IInv /\ Served /\ AllPolled => TypeOK
  <2> SUFFICES ASSUME IInv, Served, AllPolled PROVE TypeOK
    OBVIOUS
  <2>1. /\ Len(fds) = 1 + Cardinality({c \in Conns : session[c] # "none"})
        /\ {fds[i].sock : i \in DOMAIN fds}
             = {Listener} \cup {c \in Conns : session[c] # "none"}
    BY Counted
  <2>2. pass \in 0..(MaxClients + 1)
    BY DEF IInv, ShapesOK, AllPolled
  <2>3. IsInjective(backlog)
    BY DEF IInv, OneByOne, IsInjective
  <2>4. answers \in [Conns -> Seq(Uris)] /\ \A c \in Conns : asked[c] \in Seq(Requests[c])
    BY DEF Served, ServedAs
  <2>5. status \in {"running", "blocked"}
    BY DEF IInv, NeverBlocked
  <2>6. /\ fds \in Seq([sock : Sockets, revents : {"none", "in", "hup"}])
        /\ Len(fds) <= MaxClients
        /\ session \in [Conns -> {"none", "http", "headers", "established"}]
        /\ told \subseteq Conns /\ backlog \in Seq(Conns)
        /\ net \in [Conns -> {"absent", "open", "closed", "reset"}]
        /\ buffered \in [Conns -> Seq(Lines \cup Frames)]
    BY DEF IInv, ShapesOK, Pollfds, Revents, States
  <2> QED BY <2>1, <2>2, <2>3, <2>4, <2>5, <2>6 DEF TypeOK
<1> QED BY <1>1, <1>2, <1>3, Invariance, PTL

=============================================================================
