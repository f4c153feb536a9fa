--------------------------- MODULE OutboundProofs ---------------------------
(***************************************************************************)
(* Proofs about Outbound for every set of connections, every hash, every   *)
(* capacity and every number of messages: that each message is in one      *)
(* place and in which order messages reach the browsers, what the process  *)
(* can die of before a browser leaves, and the shapes of what the two      *)
(* threads share.                                                          *)
(***************************************************************************)
EXTENDS Outbound, SequencesExt, SequenceTheorems, FiniteSetTheorems, TLAPS

-----------------------------------------------------------------------------
(* Sequences.                                                              *)

\* The elements of a sequence to which one is added.
LEMMA ToSetAppend ==
  ASSUME NEW S, NEW s \in Seq(S), NEW e \in S
  PROVE  /\ Append(s, e) \in Seq(S)
         /\ ToSet(Append(s, e)) = ToSet(s) \cup {e}
<1>1. /\ Append(s, e) \in Seq(S)
      /\ DOMAIN s = 1..Len(s) /\ DOMAIN Append(s, e) = 1..(Len(s) + 1)
      /\ \A i \in 1..Len(s) : Append(s, e)[i] = s[i]
      /\ Append(s, e)[Len(s) + 1] = e
      /\ Len(s) \in Nat
  BY AppendProperties, LenProperties
<1>2. \A i \in DOMAIN Append(s, e) : Append(s, e)[i] \in ToSet(s) \cup {e}
  BY <1>1 DEF ToSet
<1>3. \A x \in ToSet(s) \cup {e} : \E i \in DOMAIN Append(s, e) : x = Append(s, e)[i]
  BY <1>1 DEF ToSet
<1> QED BY <1>1, <1>2, <1>3 DEF ToSet

\* Removing the element at a place moves those behind it down by one.
LEMMA RemoveAtFacts ==
  ASSUME NEW S, NEW s \in Seq(S), NEW i \in DOMAIN s
  PROVE  /\ RemoveAt(s, i) \in Seq(S)
         /\ Len(s) \in Nat \ {0} /\ Len(RemoveAt(s, i)) = Len(s) - 1
         /\ DOMAIN s = 1..Len(s) /\ DOMAIN RemoveAt(s, i) = 1..(Len(s) - 1)
         /\ s[i] \in S
         /\ \A j \in 1..(Len(s) - 1) : RemoveAt(s, i)[j] = s[IF j < i THEN j ELSE j + 1]
<1> DEFINE n == Len(s)
           a == SubSeq(s, 1, i - 1)
           b == SubSeq(s, i + 1, n)
<1>1. n \in Nat \ {0} /\ DOMAIN s = 1..n /\ i \in 1..n /\ \A j \in 1..n : s[j] \in S
  BY LenProperties
<1>2. /\ a = [j \in 1..(i - 1) |-> s[j]] /\ a \in Seq(S) /\ Len(a) = i - 1
      /\ b = [j \in 1..(n - i) |-> s[i + j]] /\ b \in Seq(S) /\ Len(b) = n - i
  BY <1>1
<1> HIDE DEF a, b
<1>3. /\ a \o b \in Seq(S) /\ Len(a \o b) = (i - 1) + (n - i)
      /\ \A j \in 1..((i - 1) + (n - i)) :
           (a \o b)[j] = IF j <= i - 1 THEN a[j] ELSE b[j - (i - 1)]
  <2>1. /\ a \in Seq(S) /\ Len(a) = i - 1
        /\ b \in Seq(S) /\ Len(b) = n - i
    BY <1>2
  <2>2. /\ a \o b \in Seq(S) /\ Len(a \o b) = Len(a) + Len(b)
        /\ \A j \in 1..(Len(a) + Len(b)) :
             (a \o b)[j] = IF j <= Len(a) THEN a[j] ELSE b[j - Len(a)]
    BY <2>1, ConcatProperties
  <2> QED BY <2>1, <2>2, Zenon
<1>4. ASSUME NEW j \in 1..(n - 1)
      PROVE  (a \o b)[j] = s[IF j < i THEN j ELSE j + 1]
  <2>1. (a \o b)[j] = IF j <= i - 1 THEN a[j] ELSE b[j - (i - 1)]
    BY <1>1, <1>3
  <2>2. j <= i - 1 => j < i /\ a[j] = s[j]
    BY <1>1, <1>2
  <2>3. ~(j <= i - 1) => ~(j < i) /\ b[j - (i - 1)] = s[j + 1]
    BY <1>1, <1>2
  <2> QED BY <2>1, <2>2, <2>3
<1>5. RemoveAt(s, i) = a \o b
  BY DEF RemoveAt, a, b
<1>6. Len(a \o b) = n - 1
  BY <1>1, <1>3
<1> HIDE DEF n
<1>7. DOMAIN (a \o b) = 1..(n - 1)
  BY <1>3, <1>6, LenProperties
<1> QED BY <1>1, <1>3, <1>4, <1>5, <1>6, <1>7 DEF n

\* Nothing new is in what is left.
LEMMA ToSetRemove ==
  ASSUME NEW S, NEW s \in Seq(S), NEW i \in DOMAIN s
  PROVE  /\ RemoveAt(s, i) \in Seq(S) /\ ToSet(RemoveAt(s, i)) \subseteq ToSet(s)
         /\ s[i] \in S /\ s[i] \in ToSet(s)
<1> DEFINE r == RemoveAt(s, i)
<1>1. /\ r \in Seq(S) /\ s[i] \in S /\ Len(s) \in Nat
      /\ DOMAIN s = 1..Len(s) /\ DOMAIN r = 1..(Len(s) - 1)
      /\ \A j \in 1..(Len(s) - 1) : r[j] = s[IF j < i THEN j ELSE j + 1]
  BY RemoveAtFacts
<1> HIDE DEF r
<1>2. \A j \in DOMAIN r : \E k \in DOMAIN s : r[j] = s[k]
  <2> SUFFICES ASSUME NEW j \in DOMAIN r
               PROVE  \E k \in DOMAIN s : r[j] = s[k]
    OBVIOUS
  <2>1. j \in DOMAIN s /\ j + 1 \in DOMAIN s /\ j \in 1..(Len(s) - 1)
    BY <1>1
  <2>2. r[j] = s[IF j < i THEN j ELSE j + 1]
    BY <1>1, <2>1
  <2>3. CASE j < i
    BY <2>1, <2>2, <2>3
  <2>4. CASE ~(j < i)
    BY <2>1, <2>2, <2>4
  <2> QED BY <2>3, <2>4
<1> QED BY <1>1, <1>2 DEF ToSet, r

\* The last element is removed, if there is one.
LEMMA FrontFacts ==
  ASSUME NEW S, NEW s \in Seq(S)
  PROVE  Front(s) \in Seq(S)
<1>1. Len(s) \in Nat /\ \A i \in 1..Len(s) : s[i] \in S
  BY LenProperties, ElementOfSeq
<1>2. \A i \in 1..(Len(s) - 1) : s[i] \in S
  BY <1>1
<1>3. SubSeq(s, 1, Len(s) - 1) \in Seq(S)
  BY <1>1, <1>2, SubSeqProperties
<1> QED BY <1>3 DEF Front

-----------------------------------------------------------------------------

Slots == Conns \cup {Stale}

\* The types of what the two properties are about: all but the poll set.
ShapesOK ==
  /\ posted \in 0..MaxPosts /\ outq \in Seq(Numbers) /\ dropped \subseteq Numbers
  /\ wire \in [Conns -> Seq(Numbers)]
  /\ table \in [0..(Buckets - 1) -> Seq(Slots)]
  /\ wsi \in [Conns -> {"none", "http", "established", "closing", "dead", "freed"}]
  /\ peer \in [Conns -> {"absent", "up", "closing", "reset"}]
  /\ pc \in [Threads -> PCs]
  /\ cur \in [Threads -> Slots]
  /\ msg \in [Threads -> 0..MaxPosts]
  /\ walk \in [bucket : 0..Buckets, index : Nat \ {0}]

\* A thread holds a message until it has written it.
InHand == \A t \in Threads : pc[t] = "write" <=> msg[t] # 0

Older(m) == m <= posted /\ \A i \in DOMAIN outq : m < outq[i]

\* What has left the queue is older than what waits in it.
OldestFirst ==
  /\ \A i \in DOMAIN outq : outq[i] <= posted
  /\ \A i, j \in DOMAIN outq : i < j => outq[i] < outq[j]
  /\ \A t \in Threads : Older(msg[t])
  /\ \A c \in Conns : \A i \in DOMAIN wire[c] : Older(wire[c][i])

\* No message is forgotten.
Complete ==
  \A m \in 1..posted :
    m \in dropped \/ (\E i \in DOMAIN outq : outq[i] = m) \/ Written(m) \/ Held(m)

Ordered == InHand /\ OldestFirst /\ Complete

Calling == {"pop", "write", "find", "arm"}

\* Until a browser leaves no connection closes, and both threads call back
\* established connections only.
BeforeLoss ==
  ~Gone =>
    /\ \A c \in Conns : wsi[c] \in {"none", "http", "established"}
    /\ pc["svc"] \notin {"shift", "cut", "dead", "free"}
    /\ \A t \in Threads :
         pc[t] \in Calling => cur[t] \in Conns /\ wsi[cur[t]] = "established"

\* Each thread keeps to its own steps.
OwnSteps ==
  /\ pc["app"] \in Calling \cup {"idle", "walk", "filter"}
  /\ pc["svc"] \in Calling \cup {"poll", "insert", "shift", "cut", "dead", "free"}

IInv == ShapesOK /\ Ordered /\ BeforeLoss /\ OwnSteps /\ ExitAfterLoss

USE OutboundAssumption

-----------------------------------------------------------------------------
(* The initial state.                                                      *)

\* The elements of a finite set in some order.
LEMMA SetToSeqFacts ==
  ASSUME NEW T, NEW S \in SUBSET T, IsFiniteSet(S)
  PROVE  SetToSeq(S) \in Seq(T)
<1>1. PICK n \in Nat : ExistsBijection(1..n, S)
  BY FS_NatBijection
<1>2. Cardinality(S) = n
  BY <1>1, FS_CountingElements
<1>3. PICK f \in [1..n -> S] : IsInjective(f)
  BY <1>1 DEF ExistsBijection, Bijection, Injection
<1>4. SetToSeq(S) \in [1..n -> S]
  BY <1>2, <1>3 DEF SetToSeq
<1>5. SetToSeq(S) \in [1..n -> T]
  BY <1>4
<1> QED BY <1>5

LEMMA InitIInv == Init => IInv
<1> SUFFICES ASSUME Init PROVE IInv
  OBVIOUS
<1>1. /\ posted = 0 /\ outq = << >> /\ dropped = {} /\ status = "running"
      /\ wire = [c \in Conns |-> << >>]
      /\ wsi = [c \in Conns |-> IF c \in Initially THEN "established" ELSE "none"]
      /\ peer = [c \in Conns |-> IF c \in Initially THEN "up" ELSE "absent"]
      /\ pc = [app |-> "idle", svc |-> "poll"]
      /\ cur = [t \in Threads |-> Stale] /\ msg = [t \in Threads |-> 0]
      /\ walk = [bucket |-> 0, index |-> 1]
      /\ table = [b \in 0..(Buckets - 1) |-> SetToSeq({c \in Initially : Bucket[c] = b})]
  BY DEF Init
<1>2. table \in [0..(Buckets - 1) -> Seq(Slots)]
  <2>1. \A b \in 0..(Buckets - 1) :
          SetToSeq({c \in Initially : Bucket[c] = b}) \in Seq(Slots)
    <3> TAKE b \in 0..(Buckets - 1)
    <3> DEFINE S == {c \in Initially : Bucket[c] = b}
    <3>1. S \in SUBSET Slots /\ S \in SUBSET Conns
      BY DEF Slots
    <3>2. IsFiniteSet(S)
      BY <3>1, FS_Subset
    <3> QED BY <3>1, <3>2, SetToSeqFacts
  <2> QED BY <1>1, <2>1
<1>3. pc \in [Threads -> PCs] /\ pc["app"] = "idle" /\ pc["svc"] = "poll"
  BY <1>1 DEF Threads, PCs
<1>4. ShapesOK
  <2>1. walk \in [bucket : 0..Buckets, index : Nat \ {0}]
    BY <1>1
  <2>2. /\ posted \in 0..MaxPosts /\ dropped \subseteq Numbers /\ outq \in Seq(Numbers)
        /\ wire \in [Conns -> Seq(Numbers)]
    BY <1>1
  <2>3. /\ wsi \in [Conns -> {"none", "http", "established", "closing", "dead", "freed"}]
        /\ peer \in [Conns -> {"absent", "up", "closing", "reset"}]
    BY <1>1
  <2>4. cur \in [Threads -> Slots] /\ msg \in [Threads -> 0..MaxPosts]
    BY <1>1 DEF Slots
  <2> QED BY <1>2, <1>3, <2>1, <2>2, <2>3, <2>4 DEF ShapesOK
<1>5. Ordered
  <2>1. InHand
    <3>1. \A t \in Threads : pc[t] # "write" /\ msg[t] = 0
      BY <1>1, <1>3 DEF Threads
    <3> QED BY <3>1 DEF InHand
  <2>2. OldestFirst
    BY <1>1 DEF OldestFirst, Older
  <2>3. Complete
    BY <1>1 DEF Complete
  <2> QED BY <2>1, <2>2, <2>3 DEF Ordered
<1>6. BeforeLoss /\ OwnSteps
  <2>1. \A t \in Threads : pc[t] \notin Calling
    BY <1>3 DEF Threads, Calling
  <2>2. \A c \in Conns : wsi[c] \in {"none", "http", "established"}
    BY <1>1
  <2> QED BY <1>3, <2>1, <2>2 DEF BeforeLoss, OwnSteps
<1>7. ExitAfterLoss
  BY <1>1 DEF ExitAfterLoss
<1> QED BY <1>4, <1>5, <1>6, <1>7 DEF IInv

-----------------------------------------------------------------------------
(* Steps that leave the messages where they are.                           *)

LEMMA MessagesStay ==
  ASSUME IInv, UNCHANGED <<posted, outq, dropped, wire, msg>>,
         \A t \in Threads : pc[t] = "write" <=> pc'[t] = "write"
  PROVE  Ordered'
<1>1. InHand'
  BY DEF IInv, Ordered, InHand
<1>2. OldestFirst'
  BY DEF IInv, Ordered, OldestFirst, Older
<1>3. Complete'
  BY DEF IInv, Ordered, Complete, Written, Held
<1> QED BY <1>1, <1>2, <1>3 DEF Ordered

\* A step in which no connection changes its state.
LEMMA ConnectionsStay ==
  ASSUME IInv, UNCHANGED <<wsi, peer>>, OwnSteps',
         ~Gone => pc'["svc"] \notin {"shift", "cut", "dead", "free"},
         ~Gone => \A t \in Threads : pc'[t] \in Calling =>
                    cur'[t] \in Conns /\ wsi[cur'[t]] = "established"
  PROVE  BeforeLoss'
BY DEF IInv, BeforeLoss, Gone

\* A step of the application's walk.
LEMMA WalkNextKeeps ==
  ASSUME IInv, WalkNext
  PROVE  IInv'
<1>1. /\ UNCHANGED <<posted, outq, dropped, wire, table, fds, wsi, peer, msg, slot, status>>
      /\ status = "running" /\ pc["app"] = "walk"
      /\ \/ /\ pc' = [pc EXCEPT !["app"] = "idle"] /\ UNCHANGED <<walk, cur>>
         \/ /\ walk.bucket < Buckets /\ walk' = [bucket |-> walk.bucket + 1, index |-> 1]
            /\ UNCHANGED <<pc, cur>>
         \/ /\ walk.bucket < Buckets /\ walk.index <= Len(table[walk.bucket])
            /\ cur' = [cur EXCEPT !["app"] = table[walk.bucket][walk.index]]
            /\ pc' = [pc EXCEPT !["app"] = "filter"] /\ UNCHANGED walk
  BY DEF WalkNext, Goto, queueVars, connVars, Alive
<1>2. /\ pc \in [Threads -> PCs] /\ cur \in [Threads -> Slots]
      /\ walk \in [bucket : 0..Buckets, index : Nat \ {0}]
      /\ table \in [0..(Buckets - 1) -> Seq(Slots)]
  BY DEF IInv, ShapesOK
<1>3. /\ pc' \in [Threads -> PCs] /\ pc'["svc"] = pc["svc"]
      /\ pc'["app"] \in {"idle", "walk", "filter"}
  BY <1>1, <1>2 DEF PCs, Threads
<1>4. cur' \in [Threads -> Slots] /\ cur'["svc"] = cur["svc"]
  <2>1. CASE UNCHANGED cur
    BY <1>2, <2>1
  <2>2. CASE /\ walk.bucket < Buckets /\ walk.index <= Len(table[walk.bucket])
             /\ cur' = [cur EXCEPT !["app"] = table[walk.bucket][walk.index]]
    <3>1. table[walk.bucket] \in Seq(Slots)
      BY <1>2, <2>2
    <3>2. table[walk.bucket][walk.index] \in Slots
      BY <1>2, <2>2, <3>1, ElementOfSeq, LenProperties
    <3>3. PICK e \in Slots : cur' = [cur EXCEPT !["app"] = e]
      BY <2>2, <3>2
    <3> QED BY <1>2, <3>3 DEF Threads
  <2> QED BY <1>1, <2>1, <2>2
<1>5. walk' \in [bucket : 0..Buckets, index : Nat \ {0}]
  BY <1>1, <1>2
<1>6. ShapesOK'
  BY <1>1, <1>3, <1>4, <1>5 DEF IInv, ShapesOK
<1>7. Ordered'
  BY <1>1, <1>3, MessagesStay DEF Threads
<1>8. OwnSteps'
  BY <1>3 DEF IInv, OwnSteps
<1>9. BeforeLoss'
  BY <1>1, <1>3, <1>4, <1>8, ConnectionsStay DEF IInv, BeforeLoss, Threads, Calling
<1>10. ExitAfterLoss'
  BY <1>1 DEF ExitAfterLoss
<1> QED BY <1>6, <1>7, <1>8, <1>9, <1>10 DEF IInv

LEMMA WalkFilterKeeps ==
  ASSUME IInv, WalkFilter
  PROVE  IInv'
<1>1. /\ UNCHANGED <<posted, outq, dropped, wire, table, fds, wsi, peer, cur, msg, slot>>
      /\ status = "running" /\ pc["app"] = "filter"
      /\ \/ /\ Freed(cur["app"]) /\ status' = "fault" /\ UNCHANGED <<pc, walk>>
         \/ /\ walk' = [walk EXCEPT !.index = @ + 1]
            /\ pc' = [pc EXCEPT !["app"] = "walk"] /\ UNCHANGED status
         \/ /\ ~Freed(cur["app"]) /\ wsi[cur["app"]] = "established"
            /\ pc' = [pc EXCEPT !["app"] = "pop"] /\ UNCHANGED <<walk, status>>
  BY DEF WalkFilter, Goto, queueVars, connVars, Alive
<1>2. /\ pc \in [Threads -> PCs] /\ cur["app"] \in Slots
      /\ walk \in [bucket : 0..Buckets, index : Nat \ {0}]
  BY DEF IInv, ShapesOK, Threads
<1>3. /\ pc' \in [Threads -> PCs] /\ pc'["svc"] = pc["svc"]
      /\ pc'["app"] \in {"filter", "walk", "pop"}
  BY <1>1, <1>2 DEF PCs, Threads
<1>4. walk' \in [bucket : 0..Buckets, index : Nat \ {0}]
  <2>1. walk.index + 1 \in Nat \ {0}
    BY <1>2
  <2> QED BY <1>1, <1>2, <2>1
<1>5. ShapesOK'
  BY <1>1, <1>3, <1>4 DEF IInv, ShapesOK
<1>6. Ordered'
  BY <1>1, <1>3, MessagesStay DEF Threads
<1>7. OwnSteps'
  BY <1>3 DEF IInv, OwnSteps, Calling
<1>8. pc'["app"] = "pop" => cur["app"] \in Conns /\ wsi[cur["app"]] = "established"
  BY <1>1, <1>2 DEF Freed, Slots, Threads, IInv, ShapesOK
<1>9. BeforeLoss'
  BY <1>1, <1>3, <1>7, <1>8, ConnectionsStay DEF IInv, BeforeLoss, Threads, Calling
<1>10. ExitAfterLoss'
  <2>1. CASE status' = "fault" /\ Freed(cur["app"])
    <3>1. cur["app"] # Stale => cur["app"] \in Conns /\ wsi[cur["app"]] = "freed"
      BY <1>2, <2>1 DEF Freed, Slots
    <3>2. ~Gone => cur["app"] = Stale
      BY <3>1 DEF IInv, BeforeLoss
    <3>3. Gone' <=> Gone
      BY <1>1 DEF Gone
    <3> QED BY <1>1, <2>1, <3>2, <3>3 DEF ExitAfterLoss
  <2>2. CASE UNCHANGED status
    BY <1>1, <2>2 DEF ExitAfterLoss
  <2> QED BY <1>1, <2>1, <2>2
<1> QED BY <1>5, <1>6, <1>7, <1>9, <1>10 DEF IInv

-----------------------------------------------------------------------------
(* Steps of the messages.                                                  *)

\* A new message is younger than all that were posted before.
LEMMA PostKeeps ==
  ASSUME IInv, Post
  PROVE  IInv'
<1>1. /\ UNCHANGED <<wire, table, fds, wsi, peer, cur, msg, slot, status>>
      /\ status = "running" /\ pc["app"] = "idle" /\ posted < MaxPosts
      /\ posted' = posted + 1 /\ walk' = [bucket |-> 0, index |-> 1]
      /\ pc' = [pc EXCEPT !["app"] = "walk"]
      /\ \/ outq' = Append(outq, posted + 1) /\ UNCHANGED dropped
         \/ outq' = outq /\ dropped' = dropped \cup {posted + 1}
  BY DEF Post, Goto, connVars, Alive
<1>2. /\ pc \in [Threads -> PCs] /\ posted \in Nat /\ posted + 1 \in Numbers
      /\ outq \in Seq(Numbers) /\ dropped \subseteq Numbers
  BY <1>1 DEF IInv, ShapesOK, Numbers
<1>3. /\ pc' \in [Threads -> PCs] /\ pc'["svc"] = pc["svc"] /\ pc'["app"] = "walk"
  BY <1>1, <1>2 DEF PCs, Threads
<1>4. /\ outq' \in Seq(Numbers) /\ dropped' \subseteq Numbers
      /\ \A i \in DOMAIN outq' : i \in Nat /\
           \/ i \in DOMAIN outq /\ outq'[i] = outq[i]
           \/ (\A j \in DOMAIN outq' : j <= i) /\ outq'[i] = posted + 1
      /\ \A i \in DOMAIN outq : i \in DOMAIN outq' /\ outq'[i] = outq[i]
      /\ posted + 1 \in dropped' \/ \E i \in DOMAIN outq' : outq'[i] = posted + 1
  <2>1. /\ Append(outq, posted + 1) \in Seq(Numbers)
        /\ Len(outq) \in Nat
        /\ DOMAIN outq = 1..Len(outq) /\ DOMAIN Append(outq, posted + 1) = 1..(Len(outq) + 1)
        /\ \A i \in 1..Len(outq) : Append(outq, posted + 1)[i] = outq[i]
        /\ Append(outq, posted + 1)[Len(outq) + 1] = posted + 1
    BY <1>2, AppendProperties, LenProperties
  <2>2. CASE outq' = Append(outq, posted + 1) /\ UNCHANGED dropped
    BY <1>2, <2>1, <2>2
  <2>3. CASE outq' = outq /\ dropped' = dropped \cup {posted + 1}
    BY <1>2, <2>1, <2>3
  <2> QED BY <1>1, <2>2, <2>3
<1>5. ShapesOK'
  <2>1. walk' \in [bucket : 0..Buckets, index : Nat \ {0}]
    BY <1>1
  <2>2. posted' \in 0..MaxPosts
    BY <1>1, <1>2
  <2> QED BY <1>1, <1>3, <1>4, <2>1, <2>2 DEF IInv, ShapesOK
<1>6. /\ \A i \in DOMAIN outq : outq[i] \in Nat
      /\ \A t \in Threads : msg[t] \in Nat
      /\ \A c \in Conns : \A i \in DOMAIN wire[c] : wire[c][i] \in Nat
  <2>1. \A i \in DOMAIN outq : outq[i] \in Nat
    BY <1>2 DEF Numbers
  <2>2. \A t \in Threads : msg[t] \in Nat
    BY DEF IInv, ShapesOK
  <2>3. \A c \in Conns : \A i \in DOMAIN wire[c] : wire[c][i] \in Nat
    <3> TAKE c \in Conns
    <3>1. wire[c] \in Seq(Numbers)
      BY DEF IInv, ShapesOK
    <3> QED BY <3>1 DEF Numbers
  <2> QED BY <2>1, <2>2, <2>3
<1>7. \A m \in Nat : Older(m) => Older(m)'
  BY <1>1, <1>2, <1>4 DEF Older
<1>8. OldestFirst'
  <2>1. \A i \in DOMAIN outq' : outq'[i] <= posted'
    BY <1>1, <1>2, <1>4, <1>6 DEF IInv, Ordered, OldestFirst
  <2>2. \A i, j \in DOMAIN outq' : i < j => outq'[i] < outq'[j]
    <3> SUFFICES ASSUME NEW i \in DOMAIN outq', NEW j \in DOMAIN outq', i < j
                 PROVE  outq'[i] < outq'[j]
      OBVIOUS
    <3>1. i \in DOMAIN outq /\ outq'[i] = outq[i] /\ outq[i] <= posted /\ outq[i] \in Nat
      BY <1>4, <1>6 DEF IInv, Ordered, OldestFirst
    <3>2. CASE j \in DOMAIN outq /\ outq'[j] = outq[j]
      BY <3>1, <3>2 DEF IInv, Ordered, OldestFirst
    <3>3. CASE outq'[j] = posted + 1
      BY <1>2, <3>1, <3>3
    <3> QED BY <1>4, <3>2, <3>3
  <2> QED BY <1>1, <1>6, <1>7, <2>1, <2>2 DEF IInv, Ordered, OldestFirst
<1>9. InHand'
  BY <1>1, <1>3 DEF IInv, Ordered, InHand, Threads
<1>10. Complete'
  <2> SUFFICES ASSUME NEW m \in 1..posted'
               PROVE  (m \in dropped \/ (\E i \in DOMAIN outq : outq[i] = m) \/ Written(m) \/ Held(m))'
    BY DEF Complete
  <2>1. CASE m \in 1..posted
    <3>1. Written(m)' <=> Written(m)
      BY <1>1 DEF Written
    <3>2. Held(m)' <=> Held(m)
      BY <1>1 DEF Held
    <3>3. dropped \subseteq dropped'
      BY <1>1
    <3> QED BY <1>4, <2>1, <3>1, <3>2, <3>3 DEF IInv, Ordered, Complete
  <2>2. CASE m = posted + 1
    BY <1>4, <2>2
  <2> QED BY <1>1, <1>2, <2>1, <2>2
<1>11. OwnSteps'
  BY <1>3 DEF IInv, OwnSteps
<1>12. BeforeLoss'
  BY <1>1, <1>3, <1>11, ConnectionsStay DEF IInv, BeforeLoss, Threads, Calling
<1>13. ExitAfterLoss'
  BY <1>1 DEF ExitAfterLoss
<1> QED BY <1>5, <1>8, <1>9, <1>10, <1>11, <1>12, <1>13 DEF IInv, Ordered

\* The caller of the callback goes on where it was called.
LEMMA ResumeFacts ==
  ASSUME IInv, NEW t \in Threads, Resume(t), pc[t] \in Calling
  PROVE  /\ pc' \in [Threads -> PCs] /\ pc'[t] \in {"walk", "poll"}
         /\ \A u \in Threads : u # t => pc'[u] = pc[u]
         /\ walk' \in [bucket : 0..Buckets, index : Nat \ {0}]
         /\ OwnSteps'
<1>1. pc \in [Threads -> PCs] /\ walk \in [bucket : 0..Buckets, index : Nat \ {0}]
  BY DEF IInv, ShapesOK
<1>2. CASE t = "app"
  <2>1. pc' = [pc EXCEPT !["app"] = "walk"] /\ walk' = [walk EXCEPT !.index = @ + 1]
    BY <1>2 DEF Resume, Goto
  <2>2. walk.index + 1 \in Nat \ {0}
    BY <1>1
  <2>3. walk' \in [bucket : 0..Buckets, index : Nat \ {0}]
    BY <1>1, <2>1, <2>2
  <2>4. /\ pc' \in [Threads -> PCs] /\ pc'["app"] = "walk"
        /\ pc'["svc"] = pc["svc"]
    BY <1>1, <2>1 DEF Threads, PCs
  <2> QED BY <1>2, <2>3, <2>4 DEF IInv, OwnSteps, Threads
<1>3. CASE t = "svc"
  <2>1. pc' = [pc EXCEPT !["svc"] = "poll"] /\ walk' = walk
    BY <1>3 DEF Resume, Goto
  <2>2. /\ pc' \in [Threads -> PCs] /\ pc'["svc"] = "poll"
        /\ pc'["app"] = pc["app"]
    BY <1>1, <2>1 DEF Threads, PCs
  <2> QED BY <1>1, <1>3, <2>1, <2>2 DEF IInv, OwnSteps, Threads
<1> QED BY <1>2, <1>3 DEF Threads

\* The oldest message that waits passes into the hands of a thread.
LEMMA PopKeeps ==
  ASSUME IInv, NEW t \in Threads, Pop(t)
  PROVE  IInv'
<1>1. /\ UNCHANGED <<posted, dropped, wire, table, fds, wsi, peer, cur, slot, status>>
      /\ status = "running" /\ pc[t] = "pop"
      /\ \/ outq = << >> /\ Resume(t) /\ UNCHANGED <<outq, msg>>
         \/ /\ outq # << >> /\ msg' = [msg EXCEPT ![t] = Head(outq)] /\ outq' = Tail(outq)
            /\ pc' = [pc EXCEPT ![t] = "write"] /\ UNCHANGED walk
  BY DEF Pop, Goto, connVars, Alive
<1>2. /\ pc \in [Threads -> PCs] /\ outq \in Seq(Numbers) /\ msg \in [Threads -> 0..MaxPosts]
      /\ posted \in Nat
  BY DEF IInv, ShapesOK
<1>3. ExitAfterLoss'
  BY <1>1 DEF ExitAfterLoss
<1>4. CASE outq = << >> /\ Resume(t) /\ UNCHANGED <<outq, msg>>
  <2>1. /\ pc' \in [Threads -> PCs] /\ pc'[t] \in {"walk", "poll"}
        /\ \A u \in Threads : u # t => pc'[u] = pc[u]
        /\ walk' \in [bucket : 0..Buckets, index : Nat \ {0}]
        /\ OwnSteps'
    BY <1>1, <1>4, ResumeFacts DEF Calling
  <2>2. ShapesOK'
    BY <1>1, <1>4, <2>1 DEF IInv, ShapesOK
  <2>3. Ordered'
    BY <1>1, <1>4, <2>1, MessagesStay
  <2>4. BeforeLoss'
    BY <1>1, <2>1, ConnectionsStay DEF IInv, BeforeLoss, Threads, Calling
  <2> QED BY <1>3, <2>1, <2>2, <2>3, <2>4 DEF IInv
<1>5. CASE /\ outq # << >> /\ msg' = [msg EXCEPT ![t] = Head(outq)] /\ outq' = Tail(outq)
           /\ pc' = [pc EXCEPT ![t] = "write"] /\ UNCHANGED walk
  <2>1. /\ pc' \in [Threads -> PCs] /\ pc'[t] = "write"
        /\ \A u \in Threads : u # t => pc'[u] = pc[u]
    BY <1>2, <1>5 DEF PCs
  <2>2. /\ outq' \in Seq(Numbers)
        /\ \A i \in DOMAIN outq' : i + 1 \in DOMAIN outq /\ outq'[i] = outq[i + 1] /\ i \in Nat \ {0}
        /\ \A i \in DOMAIN outq : i # 1 => i - 1 \in DOMAIN outq' /\ outq'[i - 1] = outq[i]
        /\ 1 \in DOMAIN outq /\ Head(outq) = outq[1] /\ outq[1] \in Numbers
        /\ \A i \in DOMAIN outq : i \in Nat /\ outq[i] \in Nat
    <3>1. /\ Tail(outq) \in Seq(Numbers)
          /\ Len(outq) \in Nat \ {0}
          /\ DOMAIN outq = 1..Len(outq) /\ DOMAIN Tail(outq) = 1..(Len(outq) - 1)
          /\ \A i \in 1..(Len(outq) - 1) : Tail(outq)[i] = outq[i + 1]
          /\ Head(outq) = outq[1] /\ outq[1] \in Numbers
      BY <1>2, <1>5, HeadTailProperties, LenProperties, EmptySeq
    <3>2. \A i \in DOMAIN outq : i # 1 => i - 1 \in 1..(Len(outq) - 1) /\ (i - 1) + 1 = i
      BY <3>1
    <3>3. \A i \in DOMAIN outq : i \in Nat /\ outq[i] \in Nat
      BY <1>2, <3>1 DEF Numbers
    <3> QED BY <1>5, <3>1, <3>2, <3>3
  <2>3. msg' \in [Threads -> 0..MaxPosts] /\ msg'[t] = outq[1]
        /\ \A u \in Threads : u # t => msg'[u] = msg[u]
    BY <1>2, <1>5, <2>2 DEF Numbers
  <2>4. ShapesOK'
    BY <1>1, <1>5, <2>1, <2>2, <2>3 DEF IInv, ShapesOK
  <2>5. InHand'
    <3>1. msg'[t] # 0
      BY <2>2, <2>3 DEF Numbers
    <3> QED BY <2>1, <2>3, <3>1 DEF IInv, Ordered, InHand
  <2> DEFINE StillOlder(m) == m <= posted /\ \A i \in DOMAIN outq' : m < outq'[i]
  <2>6. \A m : Older(m) => StillOlder(m)
    BY <2>2 DEF Older
  <2>7. StillOlder(outq[1])
    <3>1. \A i \in DOMAIN outq' : outq[1] < outq[i + 1]
      BY <2>2 DEF IInv, Ordered, OldestFirst
    <3> QED BY <2>2, <3>1 DEF IInv, Ordered, OldestFirst
  <2>8. OldestFirst'
    <3>1. \A i \in DOMAIN outq' : outq'[i] <= posted
      BY <2>2 DEF IInv, Ordered, OldestFirst
    <3>2. \A i, j \in DOMAIN outq' : i < j => outq'[i] < outq'[j]
      <4> SUFFICES ASSUME NEW i \in DOMAIN outq', NEW j \in DOMAIN outq', i < j
                   PROVE  outq'[i] < outq'[j]
        OBVIOUS
      <4>1. i + 1 \in DOMAIN outq /\ j + 1 \in DOMAIN outq /\ i + 1 < j + 1
            /\ outq'[i] = outq[i + 1] /\ outq'[j] = outq[j + 1]
        BY <2>2
      <4> QED BY <4>1 DEF IInv, Ordered, OldestFirst
    <3>3. \A u \in Threads : StillOlder(msg'[u])
      BY <2>3, <2>6, <2>7 DEF IInv, Ordered, OldestFirst
    <3>4. \A c \in Conns : \A i \in DOMAIN wire[c] : StillOlder(wire[c][i])
      BY <2>6 DEF IInv, Ordered, OldestFirst
    <3> QED BY <1>1, <3>1, <3>2, <3>3, <3>4 DEF OldestFirst, Older
  <2>9. Complete'
    <3> SUFFICES ASSUME NEW m \in 1..posted
                 PROVE  (m \in dropped \/ (\E i \in DOMAIN outq : outq[i] = m) \/ Written(m) \/ Held(m))'
      BY <1>1 DEF Complete
    <3>1. CASE m \in dropped
      BY <1>1, <3>1
    <3>2. CASE \E i \in DOMAIN outq : outq[i] = m
      <4>1. PICK i \in DOMAIN outq : outq[i] = m
        BY <3>2
      <4>2. CASE i = 1
        BY <2>3, <4>1, <4>2 DEF Held
      <4>3. CASE i # 1
        BY <2>2, <4>1, <4>3
      <4> QED BY <4>2, <4>3
    <3>3. CASE Written(m)
      BY <1>1, <3>3 DEF Written
    <3>4. CASE Held(m)
      <4>1. PICK u \in Threads : msg[u] = m
        BY <3>4 DEF Held
      <4>2. u # t
        BY <1>1, <1>2, <4>1 DEF IInv, Ordered, InHand
      <4> QED BY <2>3, <4>1, <4>2 DEF Held
    <3> QED BY <3>1, <3>2, <3>3, <3>4 DEF IInv, Ordered, Complete
  <2>10. OwnSteps'
    BY <2>1 DEF IInv, OwnSteps, Calling, Threads
  <2>11. BeforeLoss'
    BY <1>1, <2>1, <2>10, ConnectionsStay DEF IInv, BeforeLoss, Threads, Calling
  <2> QED BY <1>3, <2>4, <2>5, <2>8, <2>9, <2>10, <2>11 DEF IInv, Ordered
<1> QED BY <1>1, <1>4, <1>5

\* A message passes from a thread to the socket of the connection it works on,
\* or the process ends: before a browser leaves no write fails.
LEMMA WriteKeeps ==
  ASSUME IInv, NEW t \in Threads, Write(t)
  PROVE  IInv'
<1> DEFINE c == cur[t]
<1>1. /\ UNCHANGED <<posted, outq, dropped, table, fds, wsi, peer, cur, slot, walk>>
      /\ status = "running" /\ pc[t] = "write"
      /\ \/ /\ Freed(c) \/ WriteFails(c)
            /\ status' \in {"exited", "fault"} /\ UNCHANGED <<wire, msg, pc>>
         \/ /\ ~Freed(c) /\ wire' = [wire EXCEPT ![c] = Append(@, msg[t])]
            /\ msg' = [msg EXCEPT ![t] = 0] /\ pc' = [pc EXCEPT ![t] = "find"]
            /\ UNCHANGED status
  BY DEF Write, Goto, connVars, Alive, WriteSucceeds
<1>2. /\ pc \in [Threads -> PCs] /\ msg \in [Threads -> 0..MaxPosts] /\ c \in Slots
      /\ wire \in [Conns -> Seq(Numbers)] /\ posted \in 0..MaxPosts
  BY DEF IInv, ShapesOK
<1>3. CASE /\ Freed(c) \/ WriteFails(c)
           /\ status' \in {"exited", "fault"} /\ UNCHANGED <<wire, msg, pc>>
  <2>1. ShapesOK' /\ OwnSteps'
    BY <1>1, <1>3 DEF IInv, ShapesOK, OwnSteps
  <2>2. Ordered'
    BY <1>1, <1>3, MessagesStay
  <2>3. BeforeLoss'
    BY <1>1, <1>3, <2>1, ConnectionsStay DEF IInv, BeforeLoss
  <2>4. Gone
    <3> SUFFICES ASSUME ~Gone PROVE FALSE
      OBVIOUS
    <3>1. c \in Conns /\ wsi[c] = "established" /\ c # Stale
      BY <1>1 DEF IInv, BeforeLoss, Calling, Stale
    <3>2. peer[c] # "reset"
      BY <3>1 DEF Gone
    <3> QED BY <1>3, <3>1, <3>2 DEF Freed, WriteFails
  <2>5. Gone'
    BY <1>1, <2>4 DEF Gone
  <2> QED BY <2>1, <2>2, <2>3, <2>5 DEF IInv, ExitAfterLoss
<1>4. CASE /\ ~Freed(c) /\ wire' = [wire EXCEPT ![c] = Append(@, msg[t])]
           /\ msg' = [msg EXCEPT ![t] = 0] /\ pc' = [pc EXCEPT ![t] = "find"]
           /\ UNCHANGED status
  <2>1. c \in Conns
    BY <1>2, <1>4 DEF Freed, Slots
  <2> HIDE DEF c
  <2>2. /\ pc' \in [Threads -> PCs] /\ pc'[t] = "find"
        /\ \A u \in Threads : u # t => pc'[u] = pc[u]
    BY <1>2, <1>4 DEF PCs
  <2>3. /\ msg' \in [Threads -> 0..MaxPosts] /\ msg'[t] = 0
        /\ \A u \in Threads : u # t => msg'[u] = msg[u]
    <3>1. 0 \in 0..MaxPosts
      OBVIOUS
    <3> QED BY <1>2, <1>4, <3>1
  <2>4. CASE msg[t] \in Numbers
    <3>1. /\ wire' \in [Conns -> Seq(Numbers)]
          /\ \A d \in Conns : \A i \in DOMAIN wire'[d] :
               \/ i \in DOMAIN wire[d] /\ wire'[d][i] = wire[d][i]
               \/ wire'[d][i] = msg[t]
          /\ \A d \in Conns : ToSet(wire[d]) \subseteq ToSet(wire'[d])
          /\ msg[t] \in ToSet(wire'[c])
      <4>1. wire[c] \in Seq(Numbers)
        BY <1>2, <2>1
      <4>2. /\ Append(wire[c], msg[t]) \in Seq(Numbers)
            /\ DOMAIN wire[c] = 1..Len(wire[c])
            /\ DOMAIN Append(wire[c], msg[t]) = 1..(Len(wire[c]) + 1)
            /\ \A i \in 1..Len(wire[c]) : Append(wire[c], msg[t])[i] = wire[c][i]
            /\ Append(wire[c], msg[t])[Len(wire[c]) + 1] = msg[t]
            /\ Len(wire[c]) \in Nat
        BY <2>4, <4>1, AppendProperties, LenProperties
      <4>3. ToSet(Append(wire[c], msg[t])) = ToSet(wire[c]) \cup {msg[t]}
        BY <2>4, <4>1, ToSetAppend
      <4>4. /\ \A d \in Conns : d # c => wire'[d] = wire[d]
            /\ wire'[c] = Append(wire[c], msg[t])
            /\ wire' \in [Conns -> Seq(Numbers)]
        BY <1>2, <1>4, <2>1, <4>2
      <4>5. \A i \in DOMAIN wire'[c] :
              \/ i \in DOMAIN wire[c] /\ wire'[c][i] = wire[c][i]
              \/ wire'[c][i] = msg[t]
        BY <4>2, <4>4
      <4> QED BY <4>3, <4>4, <4>5
    <3>2. ShapesOK'
      BY <1>1, <2>2, <2>3, <3>1 DEF IInv, ShapesOK
    <3>3. InHand'
      BY <2>2, <2>3 DEF IInv, Ordered, InHand
    <3>4. OldestFirst'
      <4>1. Older(0)
        <5>1. outq \in Seq(Numbers)
          BY DEF IInv, ShapesOK
        <5> QED BY <1>2, <5>1 DEF Older, Numbers
      <4>2. \A u \in Threads : Older(msg'[u])
        BY <2>3, <4>1 DEF IInv, Ordered, OldestFirst
      <4>3. \A d \in Conns : \A i \in DOMAIN wire'[d] : Older(wire'[d][i])
        BY <3>1 DEF IInv, Ordered, OldestFirst
      <4> QED BY <1>1, <4>2, <4>3 DEF IInv, Ordered, OldestFirst, Older
    <3>5. Complete'
      <4> SUFFICES ASSUME NEW m \in 1..posted
                   PROVE  (m \in dropped \/ (\E i \in DOMAIN outq : outq[i] = m) \/ Written(m) \/ Held(m))'
        BY <1>1 DEF Complete
      <4>1. Written(m) => Written(m)'
        BY <3>1 DEF Written
      <4>2. Held(m) => Held(m)' \/ Written(m)'
        <5> SUFFICES ASSUME NEW u \in Threads, msg[u] = m
                     PROVE  Held(m)' \/ Written(m)'
          BY DEF Held
        <5>1. CASE u = t
          BY <2>1, <3>1, <5>1 DEF Written
        <5>2. CASE u # t
          BY <2>3, <5>2 DEF Held
        <5> QED BY <5>1, <5>2
      <4> QED BY <1>1, <4>1, <4>2 DEF IInv, Ordered, Complete
    <3>6. OwnSteps'
      BY <1>1, <2>2 DEF IInv, OwnSteps, Calling, Threads
    <3>7. BeforeLoss'
      BY <1>1, <2>2, <3>6, ConnectionsStay DEF IInv, BeforeLoss, Threads, Calling
    <3>8. ExitAfterLoss'
      BY <1>1, <1>4 DEF ExitAfterLoss
    <3> QED BY <3>2, <3>3, <3>4, <3>5, <3>6, <3>7, <3>8 DEF IInv, Ordered
  <2>5. msg[t] \in Numbers
    BY <1>1, <1>2 DEF IInv, Ordered, InHand, Numbers
  <2> QED BY <2>4, <2>5
<1> QED BY <1>1, <1>3, <1>4

-----------------------------------------------------------------------------
(* Steps of the table of connections.                                      *)

\* A step of the websocket thread alone that moves no message.
LEMMA ServiceStep ==
  ASSUME IInv, NEW p \in PCs, pc["svc"] \in {"poll", "insert", "shift", "cut", "dead", "free"},
         p \in {"poll", "pop", "insert", "shift", "cut", "dead", "free"},
         pc' = [pc EXCEPT !["svc"] = p] \/ (p = pc["svc"] /\ UNCHANGED pc),
         UNCHANGED <<posted, outq, dropped, wire, msg, walk, status>>, status = "running",
         table' \in [0..(Buckets - 1) -> Seq(Slots)],
         wsi' \in [Conns -> {"none", "http", "established", "closing", "dead", "freed"}],
         peer' \in [Conns -> {"absent", "up", "closing", "reset"}],
         cur' \in [Threads -> Slots], cur'["app"] = cur["app"],
         BeforeLoss'
  PROVE  IInv'
<1>1. /\ pc' \in [Threads -> PCs] /\ pc'["svc"] = p /\ pc'["app"] = pc["app"]
  BY DEF IInv, ShapesOK, Threads
<1>2. ShapesOK'
  BY <1>1 DEF IInv, ShapesOK
<1>3. Ordered'
  BY <1>1, MessagesStay DEF Threads
<1>4. OwnSteps'
  BY <1>1 DEF IInv, OwnSteps, Calling
<1>5. ExitAfterLoss'
  BY DEF ExitAfterLoss
<1> QED BY <1>2, <1>3, <1>4, <1>5 DEF IInv

\* Which states of connections a step may change before a browser leaves.
LEMMA StatesBeforeLoss ==
  ASSUME IInv, UNCHANGED pc,
         \A t \in Threads : pc[t] \in Calling => cur'[t] = cur[t],
         Gone => Gone',
         ~Gone' => \A c \in Conns : /\ wsi'[c] \in {"none", "http", "established"}
                                    /\ wsi[c] = "established" => wsi'[c] = "established"
  PROVE  BeforeLoss'
<1> SUFFICES ASSUME ~Gone'
             PROVE  /\ \A c \in Conns : wsi'[c] \in {"none", "http", "established"}
                    /\ pc'["svc"] \notin {"shift", "cut", "dead", "free"}
                    /\ \A t \in Threads : pc'[t] \in Calling =>
                         cur'[t] \in Conns /\ wsi'[cur'[t]] = "established"
  BY DEF BeforeLoss
<1>1. ~Gone
  OBVIOUS
<1>2. /\ pc["svc"] \notin {"shift", "cut", "dead", "free"}
      /\ \A t \in Threads :
           pc[t] \in Calling => cur[t] \in Conns /\ wsi[cur[t]] = "established"
  BY <1>1 DEF IInv, BeforeLoss
<1>3. \A c \in Conns : /\ wsi'[c] \in {"none", "http", "established"}
                       /\ wsi[c] = "established" => wsi'[c] = "established"
  OBVIOUS
<1>4. ASSUME NEW t \in Threads, pc'[t] \in Calling
      PROVE  cur'[t] \in Conns /\ wsi'[cur'[t]] = "established"
  <2>1. pc[t] \in Calling /\ cur'[t] = cur[t]
    BY <1>4
  <2>2. cur[t] \in Conns /\ wsi[cur[t]] = "established"
    BY <2>1, <1>2
  <2>3. wsi'[cur[t]] = "established"
    BY <2>2, <1>3
  <2>4. cur'[t] = cur[t]
    BY <2>1
  <2> QED BY <2>2, <2>3, <2>4, Zenon
<1>5. pc'["svc"] \notin {"shift", "cut", "dead", "free"}
  BY <1>2
<1> QED BY <1>3, <1>4, <1>5, Zenon

LEMMA FindKeeps ==
  ASSUME IInv, NEW t \in Threads, Find(t)
  PROVE  IInv'
<1> DEFINE c == cur[t]
<1>1. /\ UNCHANGED <<posted, outq, dropped, wire, table, fds, wsi, peer, cur, msg>>
      /\ status = "running" /\ pc[t] = "find"
      /\ \/ Freed(c) /\ status' = "fault" /\ UNCHANGED <<slot, pc, walk>>
         \/ Resume(t) /\ UNCHANGED <<slot, status>>
         \/ /\ slot' = [slot EXCEPT ![t] = SlotOf(c)]
            /\ pc' = [pc EXCEPT ![t] = "arm"] /\ UNCHANGED <<walk, status>>
  BY DEF Find, Goto, queueVars, connVars, Alive
<1>2. CASE Freed(c) /\ status' = "fault" /\ UNCHANGED <<slot, pc, walk>>
  <2>1. ShapesOK' /\ OwnSteps'
    BY <1>1, <1>2 DEF IInv, ShapesOK, OwnSteps
  <2>2. Ordered'
    BY <1>1, <1>2, MessagesStay
  <2>3. BeforeLoss'
    BY <1>1, <1>2, <2>1, ConnectionsStay DEF IInv, BeforeLoss
  <2>4. Gone
    <3> SUFFICES ASSUME ~Gone PROVE FALSE
      OBVIOUS
    <3>1. c \in Conns /\ wsi[c] = "established" /\ c # Stale
      BY <1>1 DEF IInv, BeforeLoss, Calling, Stale
    <3> QED BY <1>2, <3>1 DEF Freed
  <2>5. Gone'
    BY <1>1, <2>4 DEF Gone
  <2> QED BY <1>2, <2>1, <2>2, <2>3, <2>5 DEF IInv, ExitAfterLoss
<1>3. CASE Resume(t) /\ UNCHANGED <<slot, status>>
  <2>1. /\ pc' \in [Threads -> PCs] /\ pc'[t] \in {"walk", "poll"}
        /\ \A u \in Threads : u # t => pc'[u] = pc[u]
        /\ walk' \in [bucket : 0..Buckets, index : Nat \ {0}]
        /\ OwnSteps'
    BY <1>1, <1>3, ResumeFacts DEF Calling
  <2>2. ShapesOK'
    BY <1>1, <2>1 DEF IInv, ShapesOK
  <2>3. Ordered'
    BY <1>1, <2>1, MessagesStay
  <2>4. BeforeLoss'
    BY <1>1, <2>1, ConnectionsStay DEF IInv, BeforeLoss, Threads, Calling
  <2>5. ExitAfterLoss'
    BY <1>1, <1>3 DEF ExitAfterLoss
  <2> QED BY <2>1, <2>2, <2>3, <2>4, <2>5 DEF IInv
<1>4. CASE pc' = [pc EXCEPT ![t] = "arm"] /\ UNCHANGED <<walk, status>>
  <2>1. /\ pc' \in [Threads -> PCs] /\ pc'[t] = "arm"
        /\ \A u \in Threads : u # t => pc'[u] = pc[u]
    BY <1>4 DEF IInv, ShapesOK, PCs
  <2>2. ShapesOK'
    BY <1>1, <1>4, <2>1 DEF IInv, ShapesOK
  <2>3. Ordered'
    BY <1>1, <2>1, MessagesStay
  <2>4. OwnSteps'
    BY <1>1, <2>1 DEF IInv, OwnSteps, Calling, Threads
  <2>5. BeforeLoss'
    BY <1>1, <2>1, <2>4, ConnectionsStay DEF IInv, BeforeLoss, Threads, Calling
  <2>6. ExitAfterLoss'
    BY <1>1, <1>4 DEF ExitAfterLoss
  <2> QED BY <2>2, <2>3, <2>4, <2>5, <2>6 DEF IInv
<1> QED BY <1>1, <1>2, <1>3, <1>4

LEMMA ArmKeeps ==
  ASSUME IInv, NEW t \in Threads, Arm(t)
  PROVE  IInv'
<1>1. /\ UNCHANGED <<posted, outq, dropped, wire, table, wsi, peer, cur, msg, status>>
      /\ status = "running" /\ pc[t] = "arm" /\ Resume(t)
  BY DEF Arm, queueVars, Alive
<1>2. /\ pc' \in [Threads -> PCs] /\ pc'[t] \in {"walk", "poll"}
      /\ \A u \in Threads : u # t => pc'[u] = pc[u]
      /\ walk' \in [bucket : 0..Buckets, index : Nat \ {0}]
      /\ OwnSteps'
  BY <1>1, ResumeFacts DEF Calling
<1>3. ShapesOK'
  BY <1>1, <1>2 DEF IInv, ShapesOK
<1>4. Ordered'
  BY <1>1, <1>2, MessagesStay
<1>5. BeforeLoss'
  BY <1>1, <1>2, ConnectionsStay DEF IInv, BeforeLoss, Threads, Calling
<1>6. ExitAfterLoss'
  BY <1>1 DEF ExitAfterLoss
<1> QED BY <1>2, <1>3, <1>4, <1>5, <1>6 DEF IInv

\* The callback is for an established connection.
LEMMA PollOutKeeps ==
  ASSUME IInv, NEW c \in Conns, SvcPollOut(c)
  PROVE  IInv'
<1>1. /\ UNCHANGED <<posted, outq, dropped, wire, table, wsi, peer, msg, slot, walk, status>>
      /\ status = "running" /\ pc["svc"] = "poll" /\ wsi[c] = "established"
      /\ cur' = [cur EXCEPT !["svc"] = c] /\ pc' = [pc EXCEPT !["svc"] = "pop"]
  BY DEF SvcPollOut, Goto, queueVars, Alive, Polling
<1>2. /\ cur' \in [Threads -> Slots] /\ cur'["app"] = cur["app"] /\ cur'["svc"] = c
      /\ pc'["app"] = pc["app"] /\ pc'["svc"] = "pop"
  BY <1>1 DEF IInv, ShapesOK, Threads, Slots
<1>3. OwnSteps'
  BY <1>2 DEF IInv, OwnSteps, Calling
<1>4. BeforeLoss'
  BY <1>1, <1>2, <1>3, ConnectionsStay DEF IInv, BeforeLoss, Threads
<1>5. /\ table' \in [0..(Buckets - 1) -> Seq(Slots)]
      /\ wsi' \in [Conns -> {"none", "http", "established", "closing", "dead", "freed"}]
      /\ peer' \in [Conns -> {"absent", "up", "closing", "reset"}]
  BY <1>1 DEF IInv, ShapesOK
<1> QED BY <1>1, <1>2, <1>4, <1>5, ServiceStep DEF PCs

LEMMA AcceptKeeps ==
  ASSUME IInv, NEW c \in Conns, SvcAccept(c)
  PROVE  IInv'
<1>1. /\ UNCHANGED <<posted, outq, dropped, wire, peer, msg, slot, walk, status>>
      /\ status = "running" /\ pc["svc"] = "poll" /\ wsi[c] = "none"
      /\ wsi' = [wsi EXCEPT ![c] = "http"]
      /\ \E e \in Slots : table' = [table EXCEPT ![Bucket[c]] = Append(@, e)]
      /\ \/ UNCHANGED <<pc, cur>>
         \/ cur' = [cur EXCEPT !["svc"] = c] /\ pc' = [pc EXCEPT !["svc"] = "insert"]
  BY DEF SvcAccept, Goto, queueVars, Alive, Polling, Slots
<1>2. /\ wsi \in [Conns -> {"none", "http", "established", "closing", "dead", "freed"}]
      /\ table \in [0..(Buckets - 1) -> Seq(Slots)] /\ pc \in [Threads -> PCs]
      /\ cur \in [Threads -> Slots]
  BY DEF IInv, ShapesOK
<1>3. table' \in [0..(Buckets - 1) -> Seq(Slots)]
  <2>1. PICK e \in Slots : table' = [table EXCEPT ![Bucket[c]] = Append(@, e)]
    BY <1>1
  <2>2. Bucket[c] \in 0..(Buckets - 1) /\ table[Bucket[c]] \in Seq(Slots)
    BY <1>2
  <2>3. Append(table[Bucket[c]], e) \in Seq(Slots)
    BY <2>2, AppendProperties, LenProperties
  <2> QED BY <1>2, <2>1, <2>2, <2>3
<1>4. /\ cur' \in [Threads -> Slots] /\ cur'["app"] = cur["app"]
      /\ pc'["app"] = pc["app"] /\ pc'["svc"] \in {"poll", "insert"}
      /\ pc'["svc"] = "poll" => cur' = cur
  BY <1>1, <1>2 DEF Threads, Slots
<1>5. /\ wsi' \in [Conns -> {"none", "http", "established", "closing", "dead", "freed"}]
      /\ \A d \in Conns : d # c => wsi'[d] = wsi[d]
      /\ wsi'[c] = "http"
  BY <1>1, <1>2
<1>6. BeforeLoss'
  <2> SUFFICES ASSUME ~Gone'
               PROVE  /\ \A d \in Conns : wsi'[d] \in {"none", "http", "established"}
                      /\ pc'["svc"] \notin {"shift", "cut", "dead", "free"}
                      /\ \A t \in Threads : pc'[t] \in Calling =>
                           cur'[t] \in Conns /\ wsi'[cur'[t]] = "established"
    BY DEF BeforeLoss
  <2>1. ~Gone
    BY <1>1 DEF Gone
  <2>2. /\ \A d \in Conns : wsi[d] \in {"none", "http", "established"}
        /\ pc["app"] \in Calling => cur["app"] \in Conns /\ wsi[cur["app"]] = "established"
    BY <2>1 DEF IInv, BeforeLoss, Threads
  <2>3. \A t \in Threads : pc'[t] \in Calling =>
          cur'[t] \in Conns /\ wsi'[cur'[t]] = "established"
    BY <1>1, <1>4, <1>5, <2>2 DEF Threads, Calling
  <2> QED BY <1>4, <1>5, <2>2, <2>3
<1>7. peer' \in [Conns -> {"absent", "up", "closing", "reset"}]
  BY <1>1 DEF IInv, ShapesOK
<1>8. CASE UNCHANGED pc
  BY <1>1, <1>3, <1>4, <1>5, <1>6, <1>7, <1>8, ServiceStep DEF PCs
<1>9. CASE pc' = [pc EXCEPT !["svc"] = "insert"]
  BY <1>1, <1>3, <1>4, <1>5, <1>6, <1>7, <1>9, ServiceStep DEF PCs
<1> QED BY <1>1, <1>8, <1>9

\* A step of inserting or of closing: the service thread alone moves.
LEMMA TableStep ==
  ASSUME IInv, NEW p \in {"poll", "cut", "dead"},
         pc["svc"] \in {"insert", "shift", "cut"}, p # "poll" => pc["svc"] \in {"shift", "cut"},
         status = "running", pc' = [pc EXCEPT !["svc"] = p],
         UNCHANGED <<posted, outq, dropped, wire, wsi, peer, cur, msg, slot, walk, status>>,
         NEW b, NEW s, table' = [table EXCEPT ![b] = s],
         b \in DOMAIN table => s \in Seq(Slots)
  PROVE  IInv'
<1>1. table' \in [0..(Buckets - 1) -> Seq(Slots)]
  BY DEF IInv, ShapesOK
<1>2. /\ pc'["app"] = pc["app"] /\ pc'["svc"] = p
  BY DEF IInv, ShapesOK, Threads
<1>3. OwnSteps'
  BY <1>2 DEF IInv, OwnSteps
<1>4. BeforeLoss'
  <2>1. ~Gone => p = "poll"
    BY DEF IInv, BeforeLoss
  <2> QED BY <1>2, <1>3, <2>1, ConnectionsStay DEF IInv, BeforeLoss, Threads, Calling
<1>5. /\ wsi' \in [Conns -> {"none", "http", "established", "closing", "dead", "freed"}]
      /\ peer' \in [Conns -> {"absent", "up", "closing", "reset"}]
      /\ cur' \in [Threads -> Slots] /\ cur'["app"] = cur["app"]
  BY DEF IInv, ShapesOK
<1> QED BY <1>1, <1>4, <1>5, ServiceStep DEF PCs

LEMMA InsertKeeps ==
  ASSUME IInv, SvcInsert
  PROVE  IInv'
<1> DEFINE c == cur["svc"]
           s == Append(Front(table[Bucket[c]]), c)
<1>1. /\ UNCHANGED <<posted, outq, dropped, wire, wsi, peer, cur, msg, slot, walk, status>>
      /\ status = "running" /\ pc["svc"] = "insert" /\ pc' = [pc EXCEPT !["svc"] = "poll"]
      /\ table' = [table EXCEPT ![Bucket[c]] = s]
  BY DEF SvcInsert, Goto, queueVars, Alive
<1>2. Bucket[c] \in DOMAIN table => s \in Seq(Slots)
  <2> SUFFICES ASSUME Bucket[c] \in DOMAIN table PROVE s \in Seq(Slots)
    OBVIOUS
  <2>1. table[Bucket[c]] \in Seq(Slots) /\ c \in Slots
    BY DEF IInv, ShapesOK, Threads
  <2>2. Front(table[Bucket[c]]) \in Seq(Slots)
    BY <2>1, FrontFacts
  <2> QED BY <2>1, <2>2, AppendProperties, LenProperties
<1> HIDE DEF c, s
<1> QED BY <1>1, <1>2, TableStep

LEMMA ShiftKeeps ==
  ASSUME IInv, SvcShift
  PROVE  IInv'
<1> DEFINE c == cur["svc"]
           s == Append(Without(table[Bucket[c]], c), Stale)
<1>1. /\ UNCHANGED <<posted, outq, dropped, wire, wsi, peer, cur, msg, slot, walk, status>>
      /\ status = "running" /\ pc["svc"] = "shift" /\ pc' = [pc EXCEPT !["svc"] = "cut"]
      /\ table' = [table EXCEPT ![Bucket[c]] = s]
  BY DEF SvcShift, Goto, queueVars, Alive
<1>2. Bucket[c] \in DOMAIN table => s \in Seq(Slots)
  <2> SUFFICES ASSUME Bucket[c] \in DOMAIN table PROVE s \in Seq(Slots)
    OBVIOUS
  <2> DEFINE old == table[Bucket[c]]
  <2>1. old \in Seq(Slots)
    BY DEF IInv, ShapesOK
  <2> HIDE DEF old
  <2>2. Without(old, c) \in Seq(Slots)
    <3>1. CASE c \in ToSet(old)
      <4> DEFINE i == CHOOSE i \in DOMAIN old : old[i] = c
      <4>1. i \in DOMAIN old
        BY <3>1 DEF ToSet
      <4>2. Without(old, c) = RemoveAt(old, i)
        BY <3>1 DEF Without
      <4> HIDE DEF i
      <4> QED BY <2>1, <4>1, <4>2, ToSetRemove
    <3>2. CASE c \notin ToSet(old)
      BY <2>1, <3>2 DEF Without
    <3> QED BY <3>1, <3>2
  <2>3. Stale \in Slots
    BY DEF Slots
  <2> QED BY <2>2, <2>3, AppendProperties, LenProperties DEF old
<1> HIDE DEF c, s
<1> QED BY <1>1, <1>2, TableStep

LEMMA CutKeeps ==
  ASSUME IInv, SvcCut
  PROVE  IInv'
<1> DEFINE c == cur["svc"]
           s == Front(table[Bucket[c]])
<1>1. /\ UNCHANGED <<posted, outq, dropped, wire, wsi, peer, cur, msg, slot, walk, status>>
      /\ status = "running" /\ pc["svc"] = "cut" /\ pc' = [pc EXCEPT !["svc"] = "dead"]
      /\ table' = [table EXCEPT ![Bucket[c]] = s]
  BY DEF SvcCut, Goto, queueVars, Alive
<1>2. Bucket[c] \in DOMAIN table => s \in Seq(Slots)
  <2> SUFFICES ASSUME Bucket[c] \in DOMAIN table PROVE s \in Seq(Slots)
    OBVIOUS
  <2>1. table[Bucket[c]] \in Seq(Slots)
    BY DEF IInv, ShapesOK
  <2> QED BY <2>1, FrontFacts
<1> HIDE DEF c, s
<1> QED BY <1>1, <1>2, TableStep

\* The handshake ends.
LEMMA EstablishKeeps ==
  ASSUME IInv, NEW c \in Conns, SvcEstablish(c)
  PROVE  IInv'
<1>1. /\ UNCHANGED <<posted, outq, dropped, wire, table, peer, pc, cur, msg, walk, status>>
      /\ status = "running" /\ pc["svc"] = "poll"
      /\ wsi' = [wsi EXCEPT ![c] = "established"]
  BY DEF SvcEstablish, queueVars, threadVars, Alive, Polling
<1>2. /\ wsi' \in [Conns -> {"none", "http", "established", "closing", "dead", "freed"}]
      /\ \A d \in Conns : wsi'[d] \in {wsi[d], "established"}
  BY <1>1 DEF IInv, ShapesOK
<1>3. BeforeLoss'
  <2>1. Gone' <=> Gone
    BY <1>1 DEF Gone
  <2>2. ~Gone => \A d \in Conns : wsi[d] \in {"none", "http", "established"}
    BY DEF IInv, BeforeLoss
  <2> QED BY <1>1, <1>2, <2>1, <2>2, StatesBeforeLoss
<1>4. /\ table' \in [0..(Buckets - 1) -> Seq(Slots)]
      /\ peer' \in [Conns -> {"absent", "up", "closing", "reset"}]
      /\ cur' \in [Threads -> Slots] /\ cur'["app"] = cur["app"]
  BY <1>1 DEF IInv, ShapesOK
<1> QED BY <1>1, <1>2, <1>3, <1>4, ServiceStep DEF PCs

\* A connection closes only when its browser has left.
LEMMA ClosingKeeps ==
  ASSUME IInv, (\E c \in Conns : SvcClose(c)) \/ SvcDead \/ SvcFree
  PROVE  IInv'
<1>1. /\ UNCHANGED <<posted, outq, dropped, wire, table, peer, msg, walk, status>>
      /\ status = "running"
      /\ pc["svc"] \in {"poll", "dead", "free"}
      /\ Gone
      /\ \E p \in {"shift", "free", "poll"} : pc' = [pc EXCEPT !["svc"] = p]
      /\ wsi' = wsi \/ \E c \in Slots, state \in {"closing", "dead", "freed"} :
                        wsi' = [wsi EXCEPT ![c] = state]
      /\ cur' = cur \/ \E c \in Slots : cur' = [cur EXCEPT !["svc"] = c]
  <2>1. CASE \E c \in Conns : SvcClose(c)
    <3>1. PICK c \in Conns : SvcClose(c)
      BY <2>1
    <3>2. Gone
      BY <3>1 DEF SvcClose, Gone
    <3> QED BY <3>1, <3>2 DEF SvcClose, Goto, queueVars, Alive, Polling, Slots
  <2>2. CASE SvcDead
    <3>1. pc["svc"] = "dead"
      BY <2>2 DEF SvcDead
    <3>2. Gone /\ cur["svc"] \in Slots
      BY <3>1 DEF IInv, BeforeLoss, ShapesOK, Threads
    <3> QED BY <2>2, <3>2 DEF SvcDead, Goto, queueVars, Alive
  <2>3. CASE SvcFree
    <3>1. pc["svc"] = "free"
      BY <2>3 DEF SvcFree
    <3>2. Gone /\ cur["svc"] \in Slots
      BY <3>1 DEF IInv, BeforeLoss, ShapesOK, Threads
    <3> QED BY <2>3, <3>2 DEF SvcFree, Goto, queueVars, Alive
  <2> QED BY <2>1, <2>2, <2>3
<1>2. PICK p \in {"shift", "free", "poll"} : pc' = [pc EXCEPT !["svc"] = p]
  BY <1>1
<1>3. BeforeLoss'
  BY <1>1 DEF BeforeLoss, Gone
<1>4. /\ table' \in [0..(Buckets - 1) -> Seq(Slots)]
      /\ peer' \in [Conns -> {"absent", "up", "closing", "reset"}]
  BY <1>1 DEF IInv, ShapesOK
<1>5. wsi' \in [Conns -> {"none", "http", "established", "closing", "dead", "freed"}]
  BY <1>1 DEF IInv, ShapesOK
<1>6. cur' \in [Threads -> Slots] /\ cur'["app"] = cur["app"]
  BY <1>1 DEF IInv, ShapesOK, Threads
<1>7. p \in PCs
  BY DEF PCs
<1> QED BY <1>1, <1>2, <1>3, <1>4, <1>5, <1>6, <1>7, ServiceStep

LEMMA PeerKeeps ==
  ASSUME IInv, NEW c \in Conns, PeerConnect(c) \/ PeerLeave(c)
  PROVE  IInv'
<1>1. /\ UNCHANGED <<posted, outq, dropped, wire, table, fds, wsi, pc, cur, msg, slot, walk,
                     status>>
      /\ status = "running"
      /\ \/ peer[c] = "absent" /\ peer' = [peer EXCEPT ![c] = "up"]
         \/ peer' = [peer EXCEPT ![c] = "closing"] \/ peer' = [peer EXCEPT ![c] = "reset"]
  BY DEF PeerConnect, PeerLeave, queueVars, threadVars, Alive
<1>2. peer' \in [Conns -> {"absent", "up", "closing", "reset"}]
  BY <1>1 DEF IInv, ShapesOK
<1>3. Gone => Gone'
  <2> SUFFICES ASSUME NEW d \in Conns, peer[d] \in {"closing", "reset"}
               PROVE  peer'[d] \in {"closing", "reset"}
    BY DEF Gone
  <2> QED BY <1>1 DEF IInv, ShapesOK
<1>4. BeforeLoss'
  <2>1. ~Gone => \A d \in Conns : wsi[d] \in {"none", "http", "established"}
    BY DEF IInv, BeforeLoss
  <2> QED BY <1>1, <1>3, <2>1, StatesBeforeLoss
<1>5. ShapesOK' /\ OwnSteps'
  BY <1>1, <1>2 DEF IInv, ShapesOK, OwnSteps
<1>6. Ordered'
  BY <1>1, MessagesStay
<1>7. ExitAfterLoss'
  BY <1>1 DEF ExitAfterLoss
<1> QED BY <1>4, <1>5, <1>6, <1>7 DEF IInv

LEMMA NextKeeps ==
  ASSUME IInv, [Next]_vars
  PROVE  IInv'
<1>1. CASE Post \/ WalkNext \/ WalkFilter
  BY <1>1, PostKeeps, WalkNextKeeps, WalkFilterKeeps
<1>2. CASE \E t \in Threads : Pop(t) \/ Write(t) \/ Find(t) \/ Arm(t)
  BY <1>2, PopKeeps, WriteKeeps, FindKeeps, ArmKeeps
<1>3. CASE SvcInsert \/ SvcShift \/ SvcCut
  BY <1>3, InsertKeeps, ShiftKeeps, CutKeeps
<1>4. CASE (\E c \in Conns : SvcClose(c)) \/ SvcDead \/ SvcFree
  BY <1>4, ClosingKeeps
<1>5. CASE \E c \in Conns : \/ SvcPollOut(c) \/ SvcAccept(c) \/ SvcEstablish(c)
                            \/ PeerConnect(c) \/ PeerLeave(c)
  BY <1>5, PollOutKeeps, AcceptKeeps, EstablishKeeps, PeerKeeps
<1>6. CASE UNCHANGED vars
  <2>1. UNCHANGED <<posted, outq, dropped, wire, table, fds, wsi, peer, pc, cur, msg, slot,
                   walk, status>>
    BY <1>6 DEF vars
  <2>2. Ordered'
    BY <2>1, MessagesStay
  <2>3. (ShapesOK /\ OwnSteps)'
    BY <2>1 DEF IInv, ShapesOK, OwnSteps
  <2>4. (BeforeLoss /\ ExitAfterLoss)'
    BY <2>1 DEF IInv, BeforeLoss, ExitAfterLoss, Gone
  <2> QED BY <2>2, <2>3, <2>4 DEF IInv
<1> QED BY <1>1, <1>2, <1>3, <1>4, <1>5, <1>6 DEF Next

-----------------------------------------------------------------------------
(* The theorems.                                                           *)

\* In every reachable state the messages that have left the queue are older than
\* those in it, none is forgotten, and no connection closes before a browser
\* leaves.
THEOREM Invariance == Spec => []IInv
<1>1. Init => IInv
  BY InitIInv
<1>2. IInv /\ [Next]_vars => IInv'
  BY NextKeeps
<1> QED BY <1>1, <1>2, PTL DEF Spec

\* A message that libwebsocket_write has sent overtakes none but those that a
\* thread has popped and not written yet.
THEOREM Overtaking == Spec => []OvertakenIsHeld
<1>1. IInv => OvertakenIsHeld
  <2> SUFFICES ASSUME IInv, NEW m \in Numbers, NEW n \in Numbers, m < n, n \in 1..posted,
                      Written(n) \/ Held(n), m \notin dropped
               PROVE  Written(m) \/ Held(m)
    BY DEF OvertakenIsHeld
  <2>1. m \in 1..posted
    BY DEF Numbers, IInv, ShapesOK
  <2>2. Older(n)
    <3>1. CASE Written(n)
      BY <3>1 DEF IInv, Ordered, OldestFirst, Written, ToSet
    <3>2. CASE Held(n)
      BY <3>2 DEF IInv, Ordered, OldestFirst, Held
    <3> QED BY <3>1, <3>2
  <2>3. \A i \in DOMAIN outq : outq[i] # m
    <3>1. \A i \in DOMAIN outq : outq[i] \in Nat /\ n < outq[i]
      <4>1. outq \in Seq(Numbers)
        BY DEF IInv, ShapesOK
      <4> QED BY <2>2, <4>1 DEF Older, Numbers
    <3>2. m \in Nat /\ n \in Nat
      BY DEF Numbers
    <3> QED BY <3>1, <3>2
  <2> QED BY <2>1, <2>3 DEF IInv, Ordered, Complete
<1> QED BY <1>1, Invariance, PTL

\* exit(1) in callback_command, and the use of a freed connection, need a browser
\* that has left, or a slot that is being filled.
THEOREM SurvivesWithoutLoss == Spec => []ExitAfterLoss
<1>1. IInv => ExitAfterLoss
  BY DEF IInv
<1> QED BY <1>1, Invariance, PTL

-----------------------------------------------------------------------------
(* No message is in two places.                                            *)

\* No number is met twice among the messages that have left the queue.
Once ==
  /\ \A m \in dropped : m <= posted /\ ~Written(m) /\ ~Held(m)
  /\ \A m \in dropped, i \in DOMAIN outq : outq[i] # m
  /\ \A m \in Numbers : ~(Written(m) /\ Held(m))
  /\ \A t, u \in Threads : msg[t] = msg[u] /\ msg[t] # 0 => t = u
  /\ \A c, d \in Conns : \A i \in DOMAIN wire[c], j \in DOMAIN wire[d] :
       wire[c][i] = wire[d][j] => c = d /\ i = j

\* What has left the queue was posted, and is older than what waits.
LEMMA LeftIsOlder ==
  ASSUME IInv, NEW m, Written(m) \/ Held(m)
  PROVE  Older(m) /\ m \in Nat
<1>1. CASE Written(m)
  <2>1. PICK c \in Conns : \E i \in DOMAIN wire[c] : wire[c][i] = m
    BY <1>1 DEF Written, ToSet
  <2>2. PICK i \in DOMAIN wire[c] : wire[c][i] = m
    BY <2>1
  <2>3. wire[c] \in Seq(Numbers)
    BY DEF IInv, ShapesOK
  <2>4. \A j \in DOMAIN wire[c] : wire[c][j] \in Nat
    BY <2>3 DEF Numbers
  <2>5. \A j \in DOMAIN wire[c] : Older(wire[c][j])
    BY DEF IInv, Ordered, OldestFirst
  <2> QED BY <2>2, <2>4, <2>5
<1>2. CASE Held(m)
  BY <1>2 DEF Held, IInv, Ordered, OldestFirst, ShapesOK
<1> QED BY <1>1, <1>2

LEMMA PostOnce ==
  ASSUME IInv, Once, Post
  PROVE  Once'
<1>1. /\ UNCHANGED <<wire, msg>> /\ posted' = posted + 1 /\ posted < MaxPosts
      /\ \/ outq' = Append(outq, posted + 1) /\ UNCHANGED dropped
         \/ outq' = outq /\ dropped' = dropped \cup {posted + 1}
  BY DEF Post
<1>2. /\ posted \in Nat /\ outq \in Seq(Numbers) /\ dropped \subseteq Numbers
      /\ posted + 1 \in Numbers
  BY <1>1 DEF IInv, ShapesOK, Numbers
<1>3. /\ \A m : Written(m)' <=> Written(m)
      /\ \A m : Held(m)' <=> Held(m)
  BY <1>1 DEF Written, Held
<1>4. \A m : Written(m) \/ Held(m) => m <= posted /\ m \in Nat
  BY LeftIsOlder DEF Older
<1>5. \A i \in DOMAIN outq : outq[i] \in Nat /\ outq[i] <= posted
  <2>1. \A i \in DOMAIN outq : outq[i] \in Nat
    BY <1>2 DEF Numbers
  <2> QED BY <2>1 DEF IInv, Ordered, OldestFirst
<1>6. \A m \in dropped : m \in Nat /\ m <= posted
  BY <1>2 DEF Once, Numbers
<1>7. /\ Len(outq) \in Nat
      /\ DOMAIN outq = 1..Len(outq) /\ DOMAIN Append(outq, posted + 1) = 1..(Len(outq) + 1)
      /\ \A i \in 1..Len(outq) : Append(outq, posted + 1)[i] = outq[i]
      /\ Append(outq, posted + 1)[Len(outq) + 1] = posted + 1
  BY <1>2, AppendProperties, LenProperties
<1>8. \A m \in dropped' : m <= posted' /\ ~Written(m) /\ ~Held(m)
  BY <1>1, <1>2, <1>4, <1>6 DEF Once
<1>9. \A m \in dropped', i \in DOMAIN outq' : outq'[i] # m
  <2>1. CASE outq' = Append(outq, posted + 1) /\ UNCHANGED dropped
    <3> TAKE m \in dropped', i \in DOMAIN outq'
    <3>1. m \in dropped /\ m # posted + 1 /\ i \in 1..(Len(outq) + 1)
      BY <1>2, <1>6, <1>7, <2>1
    <3>2. CASE i = Len(outq) + 1
      BY <1>7, <2>1, <3>1, <3>2
    <3>3. CASE i \in 1..Len(outq)
      BY <1>7, <2>1, <3>1, <3>3 DEF Once
    <3> QED BY <1>7, <3>1, <3>2, <3>3
  <2>2. CASE outq' = outq /\ dropped' = dropped \cup {posted + 1}
    BY <1>2, <1>5, <2>2 DEF Once
  <2> QED BY <1>1, <2>1, <2>2
<1> QED BY <1>1, <1>3, <1>8, <1>9 DEF Once

LEMMA PopOnce ==
  ASSUME IInv, Once, NEW t \in Threads, Pop(t)
  PROVE  Once'
<1>1. /\ UNCHANGED <<posted, dropped, wire>>
      /\ \/ UNCHANGED <<outq, msg>>
         \/ /\ outq # << >> /\ msg' = [msg EXCEPT ![t] = Head(outq)] /\ outq' = Tail(outq)
  BY DEF Pop, connVars
<1>2. CASE UNCHANGED <<outq, msg>>
  BY <1>1, <1>2 DEF Once, Written, Held
<1>3. CASE /\ outq # << >> /\ msg' = [msg EXCEPT ![t] = Head(outq)] /\ outq' = Tail(outq)
  <2>1. outq \in Seq(Numbers) /\ msg \in [Threads -> 0..MaxPosts] /\ dropped \subseteq Numbers
    BY DEF IInv, ShapesOK
  <2>2. /\ Len(outq) \in Nat \ {0}
        /\ DOMAIN outq = 1..Len(outq) /\ DOMAIN Tail(outq) = 1..(Len(outq) - 1)
        /\ \A i \in 1..(Len(outq) - 1) : Tail(outq)[i] = outq[i + 1]
        /\ Head(outq) = outq[1] /\ outq[1] \in Numbers
    BY <1>3, <2>1, HeadTailProperties, LenProperties, EmptySeq
  <2>3. \A i \in DOMAIN outq' : i + 1 \in DOMAIN outq /\ outq'[i] = outq[i + 1]
    BY <1>3, <2>2
  <2>4. msg'[t] = outq[1] /\ \A u \in Threads : u # t => msg'[u] = msg[u]
    BY <1>3, <2>1, <2>2
  <2>5. 1 \in DOMAIN outq /\ outq[1] \in Nat /\ outq[1] # 0
    BY <2>2 DEF Numbers
  <2>6. ~Written(outq[1]) /\ ~Held(outq[1])
    <3>1. Older(outq[1]) => outq[1] < outq[1]
      BY <2>5 DEF Older
    <3> QED BY <2>5, <3>1, LeftIsOlder
  <2>7. \A m : Written(m)' <=> Written(m)
    BY <1>1 DEF Written
  <2>8. \A m : Held(m)' => Held(m) \/ m = outq[1]
    BY <2>4 DEF Held
  <2>9. \A m \in dropped : m # outq[1]
    BY <2>5 DEF Once
  <2>10. \A u, w \in Threads : msg'[u] = msg'[w] /\ msg'[u] # 0 => u = w
    <3>1. \A u \in Threads : msg[u] # outq[1]
      BY <2>6 DEF Held
    <3> QED BY <2>4, <3>1 DEF Once
  <2> QED BY <1>1, <2>3, <2>6, <2>7, <2>8, <2>9, <2>10 DEF Once
<1> QED BY <1>1, <1>2, <1>3

LEMMA WriteOnce ==
  ASSUME IInv, Once, NEW t \in Threads, Write(t)
  PROVE  Once'
<1> DEFINE c == cur[t]
<1>1. /\ UNCHANGED <<posted, outq, dropped>> /\ pc[t] = "write"
      /\ \/ UNCHANGED <<wire, msg>>
         \/ /\ ~Freed(c) /\ wire' = [wire EXCEPT ![c] = Append(@, msg[t])]
            /\ msg' = [msg EXCEPT ![t] = 0]
  BY DEF Write
<1>2. CASE UNCHANGED <<wire, msg>>
  BY <1>1, <1>2 DEF Once, Written, Held
<1>3. CASE /\ ~Freed(c) /\ wire' = [wire EXCEPT ![c] = Append(@, msg[t])]
           /\ msg' = [msg EXCEPT ![t] = 0]
  <2>1. c \in Conns
    BY <1>3 DEF Freed, Slots, IInv, ShapesOK, Threads
  <2> HIDE DEF c
  <2>2. /\ msg \in [Threads -> 0..MaxPosts] /\ wire \in [Conns -> Seq(Numbers)]
        /\ dropped \subseteq Numbers /\ wire[c] \in Seq(Numbers)
    BY <2>1 DEF IInv, ShapesOK
  <2>3. msg[t] # 0 /\ msg[t] \in Numbers
    BY <1>1, <2>2 DEF IInv, Ordered, InHand, Numbers
  <2>4. msg'[t] = 0 /\ \A u \in Threads : u # t => msg'[u] = msg[u]
    BY <1>3, <2>2
  <2> DEFINE n == Len(wire[c]) + 1
             longer == Append(wire[c], msg[t])
  <2>5. /\ n \in Nat /\ n \notin DOMAIN wire[c] /\ DOMAIN longer = DOMAIN wire[c] \cup {n}
        /\ longer[n] = msg[t] /\ \A i \in DOMAIN wire[c] : longer[i] = wire[c][i]
    <3>1. /\ Len(wire[c]) \in Nat
          /\ DOMAIN wire[c] = 1..Len(wire[c])
          /\ DOMAIN Append(wire[c], msg[t]) = 1..(Len(wire[c]) + 1)
          /\ \A i \in 1..Len(wire[c]) : Append(wire[c], msg[t])[i] = wire[c][i]
          /\ Append(wire[c], msg[t])[Len(wire[c]) + 1] = msg[t]
      BY <2>2, <2>3, AppendProperties, LenProperties
    <3> QED BY <3>1
  <2>6. wire'[c] = longer /\ \A d \in Conns : d # c => wire'[d] = wire[d]
    BY <1>3, <2>1, <2>2
  <2> HIDE DEF n, longer
  <2>7. \A d \in Conns : \A i \in DOMAIN wire'[d] :
          \/ i \in DOMAIN wire[d] /\ wire'[d][i] = wire[d][i]
          \/ d = c /\ i = n /\ wire'[d][i] = msg[t]
    BY <2>5, <2>6
  <2>8. Held(msg[t]) /\ ~Written(msg[t]) /\ msg[t] \notin dropped
    BY <2>3 DEF Held, Once
  <2>9. \A d \in Conns : \A i \in DOMAIN wire[d] : wire[d][i] # msg[t]
    BY <2>8 DEF Written, ToSet
  <2>10. \A d, e \in Conns : \A i \in DOMAIN wire'[d], j \in DOMAIN wire'[e] :
           wire'[d][i] = wire'[e][j] => d = e /\ i = j
    <3> TAKE d, e \in Conns
    <3> TAKE i \in DOMAIN wire'[d], j \in DOMAIN wire'[e]
    <3>1. CASE /\ i \in DOMAIN wire[d] /\ wire'[d][i] = wire[d][i]
               /\ j \in DOMAIN wire[e] /\ wire'[e][j] = wire[e][j]
      <4>1. wire[d][i] = wire[e][j] => d = e /\ i = j
        BY <3>1 DEF Once
      <4> QED BY <3>1, <4>1
    <3> QED BY <2>7, <2>9, <3>1
  <2>11. \A m : Written(m)' => Written(m) \/ m = msg[t]
    BY <2>7 DEF Written, ToSet
  <2>12. \A m : m # 0 /\ Held(m)' => Held(m) /\ m # msg[t]
    <3> SUFFICES ASSUME NEW m, m # 0, NEW u \in Threads, msg'[u] = m
                 PROVE  Held(m) /\ m # msg[t]
      BY DEF Held
    <3>1. u # t /\ msg[u] = m
      BY <2>4
    <3> QED BY <2>3, <3>1 DEF Held, Once
  <2>13. \A u, w \in Threads : msg'[u] = msg'[w] /\ msg'[u] # 0 => u = w
    BY <2>4 DEF Once
  <2>14. \A m \in dropped : m # 0
    BY <2>2 DEF Numbers
  <2>15. \A m \in Numbers : m # 0
    BY DEF Numbers
  <2> QED BY <1>1, <2>8, <2>10, <2>11, <2>12, <2>13, <2>14, <2>15 DEF Once
<1> QED BY <1>1, <1>2, <1>3

LEMMA StepOnce ==
  ASSUME IInv, Once, [Next]_vars
  PROVE  Once'
<1>1. CASE Post
  BY <1>1, PostOnce
<1>2. CASE \E t \in Threads : Pop(t) \/ Write(t)
  BY <1>2, PopOnce, WriteOnce
<1>3. CASE UNCHANGED <<posted, outq, dropped, wire, msg>>
  BY <1>3 DEF Once, Written, Held
<1>4. CASE WalkNext \/ WalkFilter \/ \E t \in Threads : Find(t) \/ Arm(t)
  BY <1>3, <1>4 DEF WalkNext, WalkFilter, Find, Arm, queueVars
<1>5. CASE SvcInsert \/ SvcShift \/ SvcCut \/ SvcDead \/ SvcFree
  BY <1>3, <1>5 DEF SvcInsert, SvcShift, SvcCut, SvcDead, SvcFree, queueVars
<1>6. CASE \E c \in Conns : \/ SvcPollOut(c) \/ SvcAccept(c) \/ SvcEstablish(c) \/ SvcClose(c)
                            \/ PeerConnect(c) \/ PeerLeave(c)
  BY <1>3, <1>6 DEF SvcPollOut, SvcAccept, SvcEstablish, SvcClose, PeerConnect, PeerLeave,
                    queueVars, threadVars
<1>7. CASE UNCHANGED vars
  BY <1>3, <1>7 DEF vars
<1> QED BY <1>1, <1>2, <1>4, <1>5, <1>6, <1>7 DEF Next

\* A message that is somewhere is in one place.
LEMMA PlaceIsUnique ==
  ASSUME IInv, Once, NEW m \in 1..posted
  PROVE  \E p : Places(m) = {p}
<1>1. m \in Nat /\ m # 0 /\ m \in Numbers
  <2>1. posted \in 0..MaxPosts
    BY DEF IInv, ShapesOK
  <2> QED BY <2>1 DEF Numbers
<1>2. outq \in Seq(Numbers)
  BY DEF IInv, ShapesOK
<1> DEFINE Dropped == {<<"dropped", d>> : d \in dropped \cap {m}}
           Waits == {<<"waits", i>> : i \in PlacesIn(outq, m)}
           HeldBy == {<<"held", t>> : t \in {u \in Threads : msg[u] = m}}
           WrittenTo == UNION {{<<"written", c, i>> : i \in PlacesIn(wire[c], m)} : c \in Conns}
<1>3. Places(m) = Dropped \cup Waits \cup HeldBy \cup WrittenTo
  BY DEF Places
<1>4. /\ m \notin dropped => Dropped = {}
      /\ (\A i \in DOMAIN outq : outq[i] # m) => Waits = {}
      /\ ~Held(m) => HeldBy = {}
      /\ ~Written(m) => WrittenTo = {}
  <2>1. ~Written(m) => \A c \in Conns : PlacesIn(wire[c], m) = {}
    BY DEF Written, ToSet, PlacesIn
  <2>2. (\A i \in DOMAIN outq : outq[i] # m) => PlacesIn(outq, m) = {}
    BY DEF PlacesIn
  <2>3. ~Held(m) => {u \in Threads : msg[u] = m} = {}
    BY DEF Held
  <2> QED BY <2>1, <2>2, <2>3
<1>5. \A i \in DOMAIN outq : i \in Nat /\ outq[i] \in Nat
  <2>1. DOMAIN outq = 1..Len(outq) /\ Len(outq) \in Nat
    BY <1>2, LenProperties
  <2>2. \A i \in DOMAIN outq : outq[i] \in Nat
    BY <1>2 DEF Numbers
  <2> QED BY <2>1, <2>2
<1>6. Written(m) \/ Held(m) => \A i \in DOMAIN outq : outq[i] # m
  BY <1>1, <1>5, LeftIsOlder DEF Older
<1>7. CASE m \in dropped
  <2>1. Dropped = {<<"dropped", m>>}
    BY <1>7
  <2>2. ~Written(m) /\ ~Held(m) /\ \A i \in DOMAIN outq : outq[i] # m
    BY <1>7 DEF Once
  <2> HIDE DEF Dropped, Waits, HeldBy, WrittenTo
  <2>3. Places(m) = {<<"dropped", m>>}
    BY <1>3, <1>4, <2>1, <2>2
  <2> QED BY <2>3
<1>8. CASE m \notin dropped /\ \E i \in DOMAIN outq : outq[i] = m
  <2>1. PICK i \in DOMAIN outq : outq[i] = m
    BY <1>8
  <2>2. \A j \in DOMAIN outq : outq[j] = m => j = i
    BY <1>5, <2>1 DEF IInv, Ordered, OldestFirst
  <2>3. PlacesIn(outq, m) = {i}
    BY <2>1, <2>2 DEF PlacesIn
  <2>4. Waits = {<<"waits", i>>}
    BY <2>3
  <2>5. ~Written(m) /\ ~Held(m)
    BY <1>6, <2>1
  <2> HIDE DEF Dropped, Waits, HeldBy, WrittenTo
  <2>6. Places(m) = {<<"waits", i>>}
    BY <1>3, <1>4, <1>8, <2>4, <2>5
  <2> QED BY <2>6
<1>9. CASE m \notin dropped /\ Held(m)
  <2>1. PICK t \in Threads : msg[t] = m
    BY <1>9 DEF Held
  <2>2. {u \in Threads : msg[u] = m} = {t}
    BY <1>1, <2>1 DEF Once
  <2>3. HeldBy = {<<"held", t>>}
    BY <2>2
  <2>4. ~Written(m) /\ \A i \in DOMAIN outq : outq[i] # m
    BY <1>1, <1>6, <1>9 DEF Once
  <2> HIDE DEF Dropped, Waits, HeldBy, WrittenTo
  <2>5. Places(m) = {<<"held", t>>}
    BY <1>3, <1>4, <1>9, <2>3, <2>4
  <2> QED BY <2>5
<1>10. CASE m \notin dropped /\ Written(m)
  <2>1. PICK c \in Conns : \E i \in DOMAIN wire[c] : wire[c][i] = m
    BY <1>10 DEF Written, ToSet
  <2>2. PICK i \in DOMAIN wire[c] : wire[c][i] = m
    BY <2>1
  <2>3. \A d \in Conns : \A j \in DOMAIN wire[d] : wire[d][j] = m => d = c /\ j = i
    BY <2>2 DEF Once
  <2>4. PlacesIn(wire[c], m) = {i} /\ \A d \in Conns : d # c => PlacesIn(wire[d], m) = {}
    BY <2>2, <2>3 DEF PlacesIn
  <2>5. WrittenTo = {<<"written", c, i>>}
    BY <2>4
  <2>6. ~Held(m) /\ \A j \in DOMAIN outq : outq[j] # m
    BY <1>1, <1>6, <1>10 DEF Once
  <2> HIDE DEF Dropped, Waits, HeldBy, WrittenTo
  <2>7. Places(m) = {<<"written", c, i>>}
    BY <1>3, <1>4, <1>10, <2>5, <2>6
  <2> QED BY <2>7
<1> QED BY <1>7, <1>8, <1>9, <1>10 DEF IInv, Ordered, Complete

\* headcrab_post_message and the two threads that pop neither lose a message nor
\* send it twice: each is in one place, whichever thread moves it.
THEOREM EachInOnePlace == Spec => []OnePlace
<1>1. Init => Once
  BY DEF Init, Once, Written, Held, ToSet
<1>2. IInv /\ IInv' /\ Once /\ [Next]_vars => Once'
  BY StepOnce
<1>3. IInv /\ Once => OnePlace
  <2> SUFFICES ASSUME IInv, Once, NEW m \in 1..posted
               PROVE  Cardinality(Places(m)) = 1
    BY DEF OnePlace
  <2>1. PICK p : Places(m) = {p}
    BY PlaceIsUnique
  <2> QED BY <2>1, FS_Singleton
<1> QED BY <1>1, <1>2, <1>3, Invariance, PTL DEF Spec

-----------------------------------------------------------------------------
(* The poll set: no connection is polled twice.                            *)

Entries == [conn : Conns, out : BOOLEAN]
OnePerConn(s) ==
  s \in Seq(Entries) /\ \A i, j \in DOMAIN s : s[i].conn = s[j].conn => i = j
Polled(s) == {s[i].conn : i \in DOMAIN s}

\* A connection is polled from the moment the server has inserted it.
PollSet ==
  /\ OnePerConn(fds)
  /\ \A c \in Polled(fds) : wsi[c] # "none"
  /\ pc["svc"] = "insert" =>
       cur["svc"] \in Conns \ Polled(fds) /\ wsi[cur["svc"]] # "none"

\* The rest of the type invariant.
Bounded ==
  /\ Len(outq) <= Capacity
  /\ slot \in [Threads -> 0..Cardinality(Conns)]
  /\ status \in {"running", "exited", "fault"}

LEMMA PolledOnce ==
  ASSUME NEW s, OnePerConn(s)
  PROVE  /\ Len(s) \in Nat /\ DOMAIN s = 1..Len(s)
         /\ \A i \in DOMAIN s : s[i] \in Entries /\ s[i].conn \in Conns
         /\ Polled(s) \subseteq Conns
<1>1. Len(s) \in Nat /\ DOMAIN s = 1..Len(s)
  BY LenProperties DEF OnePerConn
<1>2. \A i \in DOMAIN s : s[i] \in Entries
  BY <1>1, ElementOfSeq DEF OnePerConn
<1>3. \A i \in DOMAIN s : s[i].conn \in Conns
  BY <1>2 DEF Entries
<1> QED BY <1>1, <1>2, <1>3 DEF Polled

\* There are no more entries than connections.
LEMMA PolledBound ==
  ASSUME NEW s, OnePerConn(s)
  PROVE  Len(s) <= Cardinality(Conns)
<1> DEFINE n == Len(s)
           f == [i \in 1..n |-> s[i].conn]
<1>1. n \in Nat /\ DOMAIN s = 1..n /\ \A i \in 1..n : s[i].conn \in Conns
  BY PolledOnce
<1>2. f \in Injection(1..n, Conns)
  BY <1>1 DEF Injection, IsInjective, OnePerConn
<1>3. Cardinality(1..n) <= Cardinality(Conns)
  BY <1>2, FS_Injection
<1> QED BY <1>1, <1>3, FS_Interval

\* Setting or clearing POLLOUT leaves every descriptor where it is.
LEMMA PolledSame ==
  ASSUME NEW s, OnePerConn(s), NEW r, DOMAIN r = DOMAIN s,
         r = [i \in DOMAIN s |-> r[i]],
         \A i \in DOMAIN s : r[i] \in Entries /\ r[i].conn = s[i].conn
  PROVE  OnePerConn(r) /\ Polled(r) = Polled(s)
<1>1. Len(s) \in Nat /\ DOMAIN s = 1..Len(s)
  BY PolledOnce
<1>2. r \in [1..Len(s) -> Entries]
  BY <1>1
<1>3. r \in Seq(Entries)
  BY <1>1, <1>2
<1> QED BY <1>3 DEF OnePerConn, Polled

LEMMA PolledAppend ==
  ASSUME NEW s, OnePerConn(s), NEW c \in Conns \ Polled(s)
  PROVE  LET new == Append(s, [conn |-> c, out |-> FALSE]) IN
           OnePerConn(new) /\ Polled(new) = Polled(s) \cup {c}
<1> DEFINE e == [conn |-> c, out |-> FALSE]
           new == Append(s, e)
<1>1. s \in Seq(Entries) /\ e \in Entries /\ e.conn = c
  BY DEF OnePerConn, Entries
<1> HIDE DEF e
<1>2. /\ new \in Seq(Entries) /\ Len(s) \in Nat
      /\ DOMAIN s = 1..Len(s) /\ DOMAIN new = 1..(Len(s) + 1)
      /\ \A i \in 1..Len(s) : new[i] = s[i]
      /\ new[Len(s) + 1] = e
  BY <1>1, AppendProperties, LenProperties
<1> HIDE DEF new
<1>3. \A i \in DOMAIN s : s[i].conn # c
  BY DEF Polled
<1>4. \A i \in DOMAIN new : \/ i \in DOMAIN s /\ new[i].conn = s[i].conn
                            \/ i = Len(s) + 1 /\ new[i].conn = c
  BY <1>1, <1>2
<1>5. \A i, j \in DOMAIN new : new[i].conn = new[j].conn => i = j
  BY <1>3, <1>4 DEF OnePerConn
<1>6. Polled(new) = Polled(s) \cup {c}
  <2>1. Polled(new) \subseteq Polled(s) \cup {c}
    BY <1>4 DEF Polled
  <2>2. Polled(s) \subseteq Polled(new) /\ c \in Polled(new)
    BY <1>1, <1>2 DEF Polled
  <2> QED BY <2>1, <2>2
<1> QED BY <1>2, <1>5, <1>6 DEF OnePerConn, new, e

LEMMA PolledRemove ==
  ASSUME NEW s, OnePerConn(s), NEW k \in DOMAIN s
  PROVE  OnePerConn(RemoveAt(s, k)) /\ Polled(RemoveAt(s, k)) \subseteq Polled(s)
<1> DEFINE new == RemoveAt(s, k)
           from(i) == IF i < k THEN i ELSE i + 1
<1>1. /\ new \in Seq(Entries) /\ Len(s) \in Nat
      /\ DOMAIN s = 1..Len(s) /\ DOMAIN new = 1..(Len(s) - 1)
      /\ \A i \in 1..(Len(s) - 1) : new[i] = s[from(i)]
  BY RemoveAtFacts DEF OnePerConn
<1> HIDE DEF new
<1>2. \A i \in DOMAIN new : from(i) \in DOMAIN s
  BY <1>1
<1>3. \A i, j \in DOMAIN new : from(i) = from(j) => i = j
  BY <1>1
<1> HIDE DEF from
<1>4. \A i, j \in DOMAIN new : new[i].conn = new[j].conn => i = j
  BY <1>1, <1>2, <1>3 DEF OnePerConn
<1>5. Polled(new) \subseteq Polled(s)
  BY <1>1, <1>2 DEF Polled
<1> QED BY <1>1, <1>4, <1>5 DEF OnePerConn, new

LEMMA InitPollSet == Init => PollSet /\ Bounded
<1> SUFFICES ASSUME Init PROVE PollSet /\ Bounded
  OBVIOUS
<1> DEFINE n == Cardinality(Initially)
           order == SetToSeq(Initially)
<1>1. IsFiniteSet(Initially) /\ n \in Nat
  BY FS_Subset, FS_CardinalityType
<1>2. order \in [1..n -> Initially] /\ IsInjective(order)
  <2>1. ExistsBijection(1..n, Initially)
    BY <1>1, FS_NatBijection, FS_CountingElements
  <2>2. \E f \in [1..n -> Initially] : IsInjective(f)
    BY <2>1 DEF ExistsBijection, Bijection, Injection
  <2> QED BY <2>2 DEF SetToSeq
<1>3. fds = [i \in 1..n |-> [conn |-> order[i], out |-> FALSE]]
  BY DEF Init
<1> HIDE DEF n, order
<1>4. \A i \in 1..n : order[i] \in Conns /\ order[i] \in Initially
  BY <1>2
<1>5. /\ DOMAIN fds = 1..n
      /\ \A i \in 1..n : fds[i] \in Entries /\ fds[i].conn = order[i]
  BY <1>3, <1>4 DEF Entries
<1>6. fds \in Seq(Entries)
  <2>1. fds \in [1..n -> Entries]
    BY <1>3, <1>5
  <2> QED BY <1>1, <2>1
<1>7. OnePerConn(fds)
  BY <1>2, <1>5, <1>6 DEF OnePerConn, IsInjective
<1>8. \A c \in Polled(fds) : wsi[c] # "none"
  <2>1. \A c \in Conns : c \in Initially => wsi[c] = "established"
    BY DEF Init
  <2>2. \A i \in DOMAIN fds : wsi[fds[i].conn] = "established"
    BY <1>4, <1>5, <2>1
  <2> QED BY <2>2 DEF Polled
<1>9. pc["svc"] # "insert"
  BY DEF Init
<1>10. Bounded
  <2>1. Cardinality(Conns) \in Nat
    BY FS_CardinalityType
  <2>2. Len(outq) = 0
    BY DEF Init
  <2>3. slot \in [Threads -> 0..Cardinality(Conns)] /\ status = "running"
    BY <2>1 DEF Init
  <2> QED BY <2>2, <2>3 DEF Bounded
<1> QED BY <1>7, <1>8, <1>9, <1>10 DEF PollSet

\* A step that polls nothing new and inserts no connection.
LEMMA PollSetKept ==
  ASSUME PollSet, OnePerConn(fds'), Polled(fds') \subseteq Polled(fds),
         \A c \in Conns : wsi[c] # "none" => wsi'[c] # "none",
         pc'["svc"] = "insert" => pc["svc"] = "insert" /\ cur'["svc"] = cur["svc"]
  PROVE  PollSet'
<1>1. Polled(fds) \subseteq Conns
  BY PolledOnce DEF PollSet
<1>2. \A c \in Polled(fds') : wsi'[c] # "none"
  BY <1>1 DEF PollSet
<1>3. pc'["svc"] = "insert" =>
        cur'["svc"] \in Conns \ Polled(fds') /\ wsi'[cur'["svc"]] # "none"
  BY DEF PollSet
<1> QED BY <1>2, <1>3 DEF PollSet

\* A step of a thread that leaves connections and poll set alone.
LEMMA PollSetStays ==
  ASSUME IInv, PollSet, UNCHANGED <<fds, wsi>>,
         pc'["svc"] = "insert" => pc["svc"] = "insert" /\ cur'["svc"] = cur["svc"]
  PROVE  PollSet'
<1>1. OnePerConn(fds') /\ Polled(fds') \subseteq Polled(fds)
  BY DEF PollSet
<1> QED BY <1>1, PollSetKept

LEMMA ResumeIsNoInsert ==
  ASSUME IInv, NEW t \in Threads, Resume(t), pc[t] \in Calling
  PROVE  pc'["svc"] = "insert" => pc["svc"] = "insert"
BY ResumeFacts DEF Threads

LEMMA StepPollSet ==
  ASSUME IInv, PollSet, [Next]_vars
  PROVE  PollSet'
<1>1. /\ pc \in [Threads -> PCs] /\ cur \in [Threads -> Slots]
      /\ wsi \in [Conns -> {"none", "http", "established", "closing", "dead", "freed"}]
      /\ OnePerConn(fds) /\ Polled(fds) \subseteq Conns
  BY PolledOnce DEF IInv, ShapesOK, PollSet
<1>2. ASSUME Post \/ WalkNext \/ WalkFilter PROVE PollSet'
  <2>1. pc'["svc"] = pc["svc"] /\ cur'["svc"] = cur["svc"]
    BY <1>1, <1>2 DEF Post, WalkNext, WalkFilter, Goto, Threads
  <2>2. UNCHANGED <<fds, wsi>>
    BY <1>2 DEF Post, WalkNext, WalkFilter, connVars
  <2> QED BY <2>1, <2>2, PollSetStays
<1>3. ASSUME NEW t \in Threads, Pop(t) \/ Write(t) \/ Find(t) PROVE PollSet'
  <2>1. UNCHANGED <<fds, wsi, cur>>
    BY <1>3 DEF Pop, Write, Find, connVars
  <2>2. \/ Resume(t) /\ pc[t] \in Calling
        \/ \E p \in {"write", "find", "arm"} : pc' = [pc EXCEPT ![t] = p]
        \/ pc' = pc
    BY <1>3 DEF Pop, Write, Find, Goto, Calling
  <2>3. pc'["svc"] = "insert" => pc["svc"] = "insert"
    BY <1>1, <2>2, ResumeIsNoInsert DEF Threads
  <2> QED BY <2>1, <2>3, PollSetStays
<1>4. ASSUME NEW t \in Threads, Arm(t) PROVE PollSet'
  <2>1. /\ UNCHANGED <<wsi, cur>> /\ Resume(t) /\ pc[t] \in Calling
        /\ fds' = [i \in DOMAIN fds |->
                     IF i = slot[t] THEN [fds[i] EXCEPT !.out = TRUE] ELSE fds[i]]
    BY <1>4 DEF Arm, Calling
  <2>2. ASSUME NEW e \in Entries
        PROVE  LET armed == [e EXCEPT !.out = TRUE] IN
                 armed \in Entries /\ armed.conn = e.conn
    BY DEF Entries
  <2>3. \A i \in DOMAIN fds : fds[i] \in Entries
    BY <1>1, PolledOnce
  <2>4. \A i \in DOMAIN fds : fds'[i] \in Entries /\ fds'[i].conn = fds[i].conn
    BY <2>1, <2>2, <2>3
  <2>5. OnePerConn(fds') /\ Polled(fds') = Polled(fds)
    BY <1>1, <2>1, <2>4, PolledSame
  <2>6. pc'["svc"] = "insert" => pc["svc"] = "insert"
    BY <2>1, ResumeIsNoInsert
  <2> QED BY <2>1, <2>5, <2>6, PollSetKept
<1>5. ASSUME NEW c \in Conns, SvcPollOut(c) PROVE PollSet'
  <2>1. PICK k \in DOMAIN fds : /\ fds[k] = [conn |-> c, out |-> TRUE]
                                /\ fds' = [fds EXCEPT ![k].out = FALSE]
    BY <1>5 DEF SvcPollOut
  <2>2. /\ UNCHANGED wsi /\ pc'["svc"] # "insert"
    BY <1>1, <1>5 DEF SvcPollOut, Goto, Threads
  <2> DEFINE quiet == [fds[k] EXCEPT !.out = FALSE]
  <2>3. fds' = [i \in DOMAIN fds |-> IF i = k THEN quiet ELSE fds[i]]
    BY <2>1
  <2>4. \A i \in DOMAIN fds : fds'[i] \in Entries /\ fds'[i].conn = fds[i].conn
    <3>1. \A i \in DOMAIN fds : fds[i] \in Entries
      BY <1>1, PolledOnce
    <3>2. quiet \in Entries /\ quiet.conn = fds[k].conn
      BY <3>1 DEF Entries
    <3> HIDE DEF quiet
    <3> QED BY <2>3, <3>1, <3>2
  <2>5. OnePerConn(fds') /\ Polled(fds') = Polled(fds)
    BY <1>1, <2>3, <2>4, PolledSame
  <2> QED BY <2>2, <2>5, PollSetKept
<1>6. ASSUME NEW c \in Conns, SvcAccept(c) PROVE PollSet'
  <2>1. /\ wsi[c] = "none" /\ pc["svc"] = "poll"
        /\ wsi' = [wsi EXCEPT ![c] = "http"]
        /\ \/ fds' = Append(fds, [conn |-> c, out |-> FALSE]) /\ UNCHANGED <<pc, cur>>
           \/ /\ cur' = [cur EXCEPT !["svc"] = c] /\ pc' = [pc EXCEPT !["svc"] = "insert"]
              /\ UNCHANGED fds
    BY <1>6 DEF SvcAccept, Goto, Polling
  <2>2. c \notin Polled(fds)
    BY <2>1 DEF PollSet
  <2>3. wsi'[c] = "http" /\ \A d \in Conns : d # c => wsi'[d] = wsi[d]
    BY <1>1, <2>1
  <2>4. \A d \in Polled(fds) : wsi'[d] # "none"
    BY <1>1, <2>3 DEF PollSet
  <2>5. CASE fds' = Append(fds, [conn |-> c, out |-> FALSE]) /\ UNCHANGED <<pc, cur>>
    <3>1. OnePerConn(fds') /\ Polled(fds') = Polled(fds) \cup {c}
      BY <1>1, <2>2, <2>5, PolledAppend
    <3> QED BY <2>1, <2>3, <2>4, <2>5, <3>1 DEF PollSet
  <2>6. CASE /\ cur' = [cur EXCEPT !["svc"] = c] /\ pc' = [pc EXCEPT !["svc"] = "insert"]
             /\ UNCHANGED fds
    <3>1. cur'["svc"] = c
      BY <1>1, <2>6 DEF Threads
    <3> QED BY <1>1, <2>2, <2>3, <2>4, <2>6, <3>1 DEF PollSet
  <2> QED BY <2>1, <2>5, <2>6
<1>7. ASSUME SvcInsert PROVE PollSet'
  <2>1. /\ pc["svc"] = "insert" /\ UNCHANGED <<wsi, cur>>
        /\ fds' = Append(fds, [conn |-> cur["svc"], out |-> FALSE])
        /\ pc' = [pc EXCEPT !["svc"] = "poll"]
    BY <1>7 DEF SvcInsert, Goto
  <2>2. cur["svc"] \in Conns \ Polled(fds) /\ wsi[cur["svc"]] # "none"
    BY <2>1 DEF PollSet
  <2>3. OnePerConn(fds') /\ Polled(fds') = Polled(fds) \cup {cur["svc"]}
    BY <1>1, <2>1, <2>2, PolledAppend
  <2>4. pc'["svc"] = "poll"
    BY <1>1, <2>1 DEF Threads
  <2> QED BY <2>1, <2>2, <2>3, <2>4 DEF PollSet
<1>8. ASSUME SvcCut PROVE PollSet'
  <2> DEFINE c == cur["svc"]
  <2>1. UNCHANGED wsi /\ fds' = Unpolled(c) /\ pc' = [pc EXCEPT !["svc"] = "dead"]
    BY <1>8 DEF SvcCut, Goto
  <2> HIDE DEF c
  <2>2. OnePerConn(fds') /\ Polled(fds') \subseteq Polled(fds)
    <3>1. CASE \E i \in DOMAIN fds : fds[i].conn = c
      <4>1. SlotOf(c) \in DOMAIN fds
        BY <3>1 DEF SlotOf
      <4> QED BY <1>1, <2>1, <3>1, <4>1, PolledRemove DEF Unpolled
    <3>2. CASE ~\E i \in DOMAIN fds : fds[i].conn = c
      BY <1>1, <2>1, <3>2 DEF Unpolled
    <3> QED BY <3>1, <3>2
  <2>3. pc'["svc"] = "dead"
    BY <1>1, <2>1 DEF Threads
  <2> QED BY <2>1, <2>2, <2>3, PollSetKept
<1>9. ASSUME \/ \E c \in Conns : SvcEstablish(c) \/ SvcClose(c)
             \/ SvcShift \/ SvcDead \/ SvcFree
      PROVE  PollSet'
  <2>1. UNCHANGED fds
    BY <1>9 DEF SvcEstablish, SvcClose, SvcShift, SvcDead, SvcFree
  <2>2. \A d \in Conns : wsi[d] # "none" => wsi'[d] # "none"
    BY <1>1, <1>9 DEF SvcEstablish, SvcClose, SvcShift, SvcDead, SvcFree
  <2>3. pc'["svc"] # "insert"
    BY <1>1, <1>9 DEF SvcEstablish, SvcClose, SvcShift, SvcDead, SvcFree, Goto, Polling,
                     threadVars, Threads
  <2> QED BY <1>1, <2>1, <2>2, <2>3, PollSetKept
<1>10. ASSUME NEW c \in Conns, PeerConnect(c) \/ PeerLeave(c) PROVE PollSet'
  BY <1>10, PollSetStays DEF PeerConnect, PeerLeave, threadVars
<1>11. ASSUME UNCHANGED vars PROVE PollSet'
  BY <1>11, PollSetStays DEF vars
<1> QED BY <1>2, <1>3, <1>4, <1>5, <1>6, <1>7, <1>8, <1>9, <1>10, <1>11 DEF Next

\* The queue, the found slot and the fate of the process keep within bounds.
LEMMA StepBounded ==
  ASSUME IInv, PollSet, Bounded, [Next]_vars
  PROVE  Bounded'
<1>1. outq \in Seq(Numbers) /\ Len(outq) \in Nat /\ Cardinality(Conns) \in Nat
  BY LenProperties, FS_CardinalityType DEF IInv, ShapesOK
<1>2. Len(outq') <= Capacity
  <2>1. CASE Post
    <3>1. posted' = posted + 1 /\ posted < MaxPosts /\ posted \in 0..MaxPosts
      BY <2>1 DEF Post, IInv, ShapesOK
    <3>2. posted' \in Numbers
      BY <3>1 DEF Numbers
    <3>3. \/ outq' = outq
          \/ outq' = Append(outq, posted') /\ Len(outq) < Capacity
      BY <2>1 DEF Post
    <3>4. Len(Append(outq, posted')) = Len(outq) + 1
      BY <1>1, <3>2, AppendProperties, LenProperties
    <3> QED BY <1>1, <3>3, <3>4 DEF Bounded
  <2>2. CASE \E t \in Threads : Pop(t)
    <3>1. outq' = outq \/ (outq # << >> /\ outq' = Tail(outq))
      BY <2>2 DEF Pop
    <3>2. outq # << >> => Len(Tail(outq)) = Len(outq) - 1
      BY <1>1, HeadTailProperties, LenProperties, EmptySeq
    <3> QED BY <1>1, <3>1, <3>2 DEF Bounded
  <2>3. CASE UNCHANGED outq
    BY <2>3 DEF Bounded
  <2>4. CASE WalkNext \/ WalkFilter \/ \E t \in Threads : Write(t) \/ Find(t) \/ Arm(t)
    BY <2>3, <2>4 DEF WalkNext, WalkFilter, Write, Find, Arm, queueVars
  <2>5. CASE SvcInsert \/ SvcShift \/ SvcCut \/ SvcDead \/ SvcFree
    BY <2>3, <2>5 DEF SvcInsert, SvcShift, SvcCut, SvcDead, SvcFree, queueVars
  <2>6. CASE \E c \in Conns : \/ SvcPollOut(c) \/ SvcAccept(c) \/ SvcEstablish(c)
                              \/ SvcClose(c) \/ PeerConnect(c) \/ PeerLeave(c)
    BY <2>3, <2>6 DEF SvcPollOut, SvcAccept, SvcEstablish, SvcClose, PeerConnect, PeerLeave,
                      queueVars
  <2>7. CASE UNCHANGED vars
    BY <2>3, <2>7 DEF vars
  <2> QED BY <2>1, <2>2, <2>4, <2>5, <2>6, <2>7 DEF Next
<1>3. slot' \in [Threads -> 0..Cardinality(Conns)]
  <2>1. CASE UNCHANGED slot
    BY <2>1 DEF Bounded
  <2>2. ASSUME NEW t \in Threads, slot' = [slot EXCEPT ![t] = 0]
        PROVE  slot' \in [Threads -> 0..Cardinality(Conns)]
    BY <1>1, <2>2 DEF Bounded
  <2>3. ASSUME NEW t \in Threads, Find(t)
        PROVE  slot' \in [Threads -> 0..Cardinality(Conns)]
    <3>1. \/ UNCHANGED slot
          \/ /\ \E i \in DOMAIN fds : fds[i].conn = cur[t]
             /\ slot' = [slot EXCEPT ![t] = SlotOf(cur[t])]
      BY <2>3 DEF Find
    <3>2. CASE /\ \E i \in DOMAIN fds : fds[i].conn = cur[t]
               /\ slot' = [slot EXCEPT ![t] = SlotOf(cur[t])]
      <4>1. SlotOf(cur[t]) \in DOMAIN fds
        BY <3>2 DEF SlotOf
      <4>2. DOMAIN fds = 1..Len(fds) /\ Len(fds) \in Nat /\ Len(fds) <= Cardinality(Conns)
        BY PolledOnce, PolledBound DEF PollSet
      <4>3. SlotOf(cur[t]) \in 0..Cardinality(Conns)
        BY <1>1, <4>1, <4>2
      <4> QED BY <3>2, <4>3 DEF Bounded
    <3> QED BY <2>1, <3>1, <3>2
  <2>4. CASE \E t \in Threads : Pop(t) \/ Write(t)
    BY <2>1, <2>4 DEF Pop, Write
  <2>5. CASE \E t \in Threads : Arm(t)
    BY <2>2, <2>5 DEF Arm
  <2>6. CASE Post \/ WalkNext \/ WalkFilter
    BY <2>1, <2>6 DEF Post, WalkNext, WalkFilter
  <2>7. CASE SvcInsert \/ SvcShift \/ SvcCut \/ SvcDead \/ SvcFree
    BY <2>1, <2>7 DEF SvcInsert, SvcShift, SvcCut, SvcDead, SvcFree
  <2>8. CASE \E c \in Conns : \/ SvcPollOut(c) \/ SvcAccept(c) \/ SvcEstablish(c)
                              \/ SvcClose(c) \/ PeerConnect(c) \/ PeerLeave(c)
    BY <2>1, <2>8 DEF SvcPollOut, SvcAccept, SvcEstablish, SvcClose, PeerConnect, PeerLeave,
                      threadVars
  <2>9. CASE UNCHANGED vars
    BY <2>1, <2>9 DEF vars
  <2> QED BY <2>3, <2>4, <2>5, <2>6, <2>7, <2>8, <2>9 DEF Next
<1>4. status' \in {"running", "exited", "fault"}
  <2>1. CASE UNCHANGED status
    BY <2>1 DEF Bounded
  <2>2. CASE Post \/ WalkNext \/ WalkFilter
    BY <2>1, <2>2 DEF Post, WalkNext, WalkFilter
  <2>3. CASE \E t \in Threads : Pop(t) \/ Write(t) \/ Find(t) \/ Arm(t)
    BY <2>1, <2>3 DEF Pop, Write, Find, Arm
  <2>4. CASE SvcInsert \/ SvcShift \/ SvcCut \/ SvcDead \/ SvcFree
    BY <2>1, <2>4 DEF SvcInsert, SvcShift, SvcCut, SvcDead, SvcFree
  <2>5. CASE \E c \in Conns : \/ SvcPollOut(c) \/ SvcAccept(c) \/ SvcEstablish(c)
                              \/ SvcClose(c) \/ PeerConnect(c) \/ PeerLeave(c)
    BY <2>1, <2>5 DEF SvcPollOut, SvcAccept, SvcEstablish, SvcClose, PeerConnect, PeerLeave
  <2>6. CASE UNCHANGED vars
    BY <2>1, <2>6 DEF vars
  <2> QED BY <2>2, <2>3, <2>4, <2>5, <2>6 DEF Next
<1> QED BY <1>2, <1>3, <1>4 DEF Bounded

\* The shapes of the shared structures hold whatever the two threads do to them
\* without a lock: no connection is polled twice, and the slot that
\* libwebsocket_callback_on_writable has found is one of the poll set.
THEOREM TypeCorrect == Spec => []TypeOK
<1>1. Init => PollSet /\ Bounded
  BY InitPollSet
<1>2. IInv /\ PollSet /\ Bounded /\ [Next]_vars => PollSet' /\ Bounded'
  BY StepPollSet, StepBounded
<1>3. IInv /\ PollSet /\ Bounded => TypeOK
  <2> SUFFICES ASSUME IInv, PollSet, Bounded PROVE TypeOK
    OBVIOUS
  <2>1. fds \in Seq([conn : Conns, out : BOOLEAN])
    BY DEF PollSet, OnePerConn, Entries
  <2>2. walk.bucket \in 0..Buckets /\ walk.index \in Nat \ {0}
    BY DEF IInv, ShapesOK
  <2> QED BY <2>1, <2>2 DEF IInv, ShapesOK, Bounded, TypeOK, Slots
<1> QED BY <1>1, <1>2, <1>3, Invariance, PTL DEF Spec

=============================================================================
