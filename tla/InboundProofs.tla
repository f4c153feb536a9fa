--------------------------- MODULE InboundProofs ---------------------------
(***************************************************************************)
(* Proofs about Inbound for every set of texts, every number of them and   *)
(* every capacity of the queues: no value is used after it was freed, but  *)
(* a reply that its own handler gave up; commands run in the order of      *)
(* arrival; replies carry their seqID.                                     *)
(***************************************************************************)
EXTENDS Inbound, SequencesExt, SequenceTheorems, FiniteSetTheorems, TLAPS

Using == {"dispatch", "op", "posted", "release"}

\* What refers to a value owns it: the queue and a dispatch that has just begun
\* own its only reference, a dispatch that goes on has one more of the args.
QueueOwns ==
  \A i \in DOMAIN inq : inq[i] # 0 =>
    /\ shape[inq[i]] # "null" /\ root[inq[i]] = 1
    /\ HasArgs(inq[i]) => args[inq[i]].refs = 1

DispatchOwns ==
  pc \in Using =>
    /\ shape[cur] # "null" /\ root[cur] = 1
    /\ HasArgs(cur) => args[cur].refs = IF pc = "dispatch" THEN 1 ELSE 2
    /\ pc # "dispatch" => shape[cur] \in Commands
    /\ pc = "op" /\ shape[cur] = "command" => args[cur].seqID = cur

\* Commands are numbered in the order of arrival: those that wait are newer than
\* the one in hand, which is newer than those that have been executed.
QueueIsSorted ==
  /\ cur <= received
  /\ \A i \in DOMAIN inq : inq[i] # 0 => inq[i] \in (cur + 1)..received
  /\ \A i, j \in DOMAIN inq :
       i < j /\ inq[i] # 0 /\ inq[j] # 0 => inq[i] < inq[j]

Newest == IF pc \in {"dispatch", "op"} THEN cur - 1 ELSE cur

ExecutedBefore == \A i \in DOMAIN executed : executed[i] <= Newest

\* A reply in the queue is owned by it unless its handler gave it up, and is the
\* only one to its command.
RepliesAreOwned ==
  /\ \A i \in DOMAIN outq : outq[i].to <= Newest
       /\ (outq[i].to \notin givenUp => reply[outq[i].to] = 1)
  /\ \A i, j \in DOMAIN outq : outq[i].to = outq[j].to => i = j

Addressed(r) == r.to <= cur /\ (shape[r.to] = "command" => r.seqID = r.to)

RepliesAreAddressed ==
  /\ \A i \in DOMAIN outq : Addressed(outq[i])
  /\ \A i \in DOMAIN sent : Addressed(sent[i])

IInv ==
  /\ TypeOK /\ (status = "fault" => givenUp # {})
  /\ QueueOwns /\ DispatchOwns
  /\ QueueIsSorted /\ ExecutedBefore /\ ExecutedInOrder
  /\ RepliesAreOwned /\ RepliesAreAddressed

USE InboundAssumption

-----------------------------------------------------------------------------
\* What the sequences hold, with Replies left folded.
LEMMA Elements ==
  ASSUME TypeOK
  PROVE  /\ \A i \in DOMAIN executed : executed[i] \in Numbers
         /\ \A i \in DOMAIN outq : outq[i] \in Replies
         /\ \A i \in DOMAIN sent : sent[i] \in Replies
         /\ \A r \in Replies : r.to \in Numbers /\ r.to \in Nat
<1>1. executed \in Seq(Numbers) /\ outq \in Seq(Replies) /\ sent \in Seq(Replies)
  BY DEF TypeOK
<1>2. \A r \in Replies : r.to \in Numbers /\ r.to \in Nat
  BY DEF Replies, Numbers
<1> QED BY <1>1, <1>2

-----------------------------------------------------------------------------
(* The initial state and the steps.                                        *)

LEMMA InitIInv == Init => IInv
<1> SUFFICES ASSUME Init PROVE IInv
  OBVIOUS
<1>1. inq = << >> /\ outq = << >> /\ sent = << >> /\ executed = << >> /\ cur = 0
      /\ givenUp = {} /\ received = 0 /\ pc = "idle" /\ status = "running"
  BY DEF Init
<1>2. TypeOK
  BY DEF Init, TypeOK, Numbers, Shapes, PCs, Replies
<1>3. QueueOwns /\ DispatchOwns /\ QueueIsSorted
  BY <1>1 DEF QueueOwns, DispatchOwns, QueueIsSorted, Using
<1>4. ExecutedBefore /\ ExecutedInOrder /\ RepliesAreOwned /\ RepliesAreAddressed
  BY <1>1 DEF ExecutedBefore, ExecutedInOrder, RepliesAreOwned, RepliesAreAddressed
<1> QED BY <1>1, <1>2, <1>3, <1>4 DEF IInv

\* What json_loads returns is one of the shapes, or NULL.
LEMMA LoadedShape ==
  ASSUME NEW text \in Texts, NEW len \in 0..7
  PROVE  json_loads(text, len) \in Shapes \cup {"null"}
<1>1. text \in AllTexts
  OBVIOUS
<1>2. CASE Rejected(text, len)
  BY <1>2 DEF json_loads
<1>3. CASE ~Rejected(text, len) /\ text \in {"trailing", "duplicate"}
  BY <1>3 DEF json_loads, Shapes, Commands
<1>4. CASE ~Rejected(text, len) /\ text \notin {"trailing", "duplicate"}
  <2>1. text # "garbage"
    BY <1>4 DEF Rejected
  <2>2. json_loads(text, len) = text
    BY <1>4 DEF json_loads
  <2> QED BY <1>1, <1>4, <2>1, <2>2 DEF AllTexts
<1> QED BY <1>2, <1>3, <1>4

\* A text gets a number nothing refers to yet.
LEMMA ReceiveKeeps ==
  ASSUME IInv, NEW text \in Texts, NEW len \in 0..7, Receive(text, len)
  PROVE  IInv'
<1> DEFINE n == received + 1
           loaded == json_loads(text, len)
           e == IF loaded = "null" THEN 0 ELSE n
<1>1. loaded \in Shapes \cup {"null"}
  BY LoadedShape
<1> HIDE DEF loaded
<1>2. n \in Numbers /\ received \in Nat /\ received' = n /\ e \in 0..MaxReceived
  <2>1. received \in 0..MaxReceived /\ received < MaxReceived /\ received' = n
    BY DEF IInv, TypeOK, Receive
  <2> QED BY <2>1 DEF Numbers
<1>3. /\ shape' = [shape EXCEPT ![n] = loaded]
      /\ root' = [root EXCEPT ![n] = IF loaded = "null" THEN 0 ELSE 1]
      /\ args' = [args EXCEPT ![n].refs = IF loaded \in WithArgs THEN 1 ELSE 0]
      /\ inq' = IF Len(inq) < InCapacity THEN Append(inq, e) ELSE inq
      /\ UNCHANGED <<outq, reply, sent, pc, cur, due, executed, givenUp, status>>
  BY DEF Receive, loaded
<1>4. inq \in Seq(0..MaxReceived) /\ cur \in 0..MaxReceived /\ cur <= received
      /\ outq \in Seq(Replies) /\ sent \in Seq(Replies)
  BY DEF IInv, TypeOK, QueueIsSorted
<1> HIDE DEF n, e
<1>5. /\ inq' \in Seq(0..MaxReceived)
      /\ \A i \in DOMAIN inq' :
           \/ i \in DOMAIN inq /\ inq'[i] = inq[i]
           \/ (\A j \in DOMAIN inq' : j <= i) /\ inq'[i] = e
      /\ Len(inq') <= InCapacity
  <2>1. CASE Len(inq) < InCapacity
    <3>1. /\ Append(inq, e) \in Seq(0..MaxReceived)
          /\ Len(inq) \in Nat /\ Len(Append(inq, e)) = Len(inq) + 1
          /\ DOMAIN inq = 1..Len(inq) /\ DOMAIN Append(inq, e) = 1..(Len(inq) + 1)
          /\ \A i \in 1..Len(inq) : Append(inq, e)[i] = inq[i]
          /\ Append(inq, e)[Len(inq) + 1] = e
      BY <1>2, <1>4, AppendProperties, LenProperties
    <3>2. inq' = Append(inq, e)
      BY <1>3, <2>1
    <3> QED BY <2>1, <3>1, <3>2
  <2>2. CASE ~(Len(inq) < InCapacity)
    BY <1>3, <1>4, <2>2 DEF IInv, TypeOK
  <2> QED BY <2>1, <2>2
<1>6. \A k \in Numbers : k # n => shape'[k] = shape[k] /\ root'[k] = root[k] /\ args'[k] = args[k]
  BY <1>2, <1>3 DEF IInv, TypeOK
<1>7. /\ shape'[n] = loaded /\ (loaded # "null" => root'[n] = 1)
      /\ (loaded \in WithArgs => args'[n].refs = 1)
  BY <1>2, <1>3 DEF IInv, TypeOK
<1>8. TypeOK'
  <2> DEFINE refs == IF loaded \in WithArgs THEN 1 ELSE 0
             count == IF loaded = "null" THEN 0 ELSE 1
  <2>1. refs \in 0..2 /\ count \in {0, 1}
    OBVIOUS
  <2>2. /\ shape' = [shape EXCEPT ![n] = loaded] /\ root' = [root EXCEPT ![n] = count]
        /\ args' = [args EXCEPT ![n].refs = refs]
    BY <1>3
  <2> HIDE DEF refs, count
  <2>3. /\ shape' \in [Numbers -> Shapes \cup {"null"}]
        /\ root' \in [Numbers -> {0, 1}]
        /\ args' \in [Numbers -> [refs : 0..2, seqID : 0..MaxReceived]]
    <3>1. /\ shape \in [Numbers -> Shapes \cup {"null"}] /\ root \in [Numbers -> {0, 1}]
          /\ args \in [Numbers -> [refs : 0..2, seqID : 0..MaxReceived]]
      BY DEF IInv, TypeOK
    <3>2. shape' \in [Numbers -> Shapes \cup {"null"}] /\ root' \in [Numbers -> {0, 1}]
      BY <1>1, <1>2, <2>1, <2>2, <3>1
    <3>3. args' \in [Numbers -> [refs : 0..2, seqID : 0..MaxReceived]]
      BY <1>2, <2>1, <2>2, <3>1
    <3> QED BY <3>2, <3>3
  <2>4. received' \in 0..MaxReceived
    BY <1>2 DEF Numbers
  <2> QED BY <1>3, <1>5, <2>3, <2>4 DEF IInv, TypeOK
<1>9. QueueOwns'
  <2> SUFFICES ASSUME NEW i \in DOMAIN inq', inq'[i] # 0
               PROVE  /\ shape'[inq'[i]] # "null" /\ root'[inq'[i]] = 1
                      /\ shape'[inq'[i]] \in WithArgs => args'[inq'[i]].refs = 1
    BY DEF QueueOwns, HasArgs
  <2>1. CASE i \in DOMAIN inq /\ inq'[i] = inq[i]
    <3>1. inq[i] \in (cur + 1)..received
      BY <2>1 DEF IInv, QueueIsSorted
    <3>2. inq[i] \in Numbers /\ inq[i] # n
      BY <1>2, <1>4, <3>1 DEF n, Numbers
    <3> QED BY <1>6, <2>1, <3>2 DEF IInv, QueueOwns, HasArgs
  <2>2. CASE inq'[i] = e
    BY <1>7, <2>2 DEF e
  <2> QED BY <1>5, <2>1, <2>2
<1>10. DispatchOwns'
  <2>1. pc \in Using => cur \in Numbers /\ cur # n
    BY <1>2, <1>4 DEF IInv, TypeOK, Using, Numbers, n
  <2> QED BY <1>3, <1>6, <2>1 DEF IInv, DispatchOwns, HasArgs
<1>11. QueueIsSorted'
  <2>1. cur' <= received' /\ cur' = cur /\ received' = received + 1
    BY <1>2, <1>3, <1>4 DEF n
  <2>a. \A i \in DOMAIN inq : inq[i] # 0 => inq[i] \in (cur + 1)..received
    BY DEF IInv, QueueIsSorted
  <2>b. e = 0 \/ e = received + 1
    BY DEF e, n
  <2>2. \A i \in DOMAIN inq' : inq'[i] # 0 => inq'[i] \in (cur + 1)..(received + 1)
    <3> SUFFICES ASSUME NEW i \in DOMAIN inq', inq'[i] # 0
                 PROVE  inq'[i] \in (cur + 1)..(received + 1)
      OBVIOUS
    <3>1. CASE i \in DOMAIN inq /\ inq'[i] = inq[i]
      BY <1>2, <1>4, <2>a, <3>1
    <3>2. CASE inq'[i] = e
      BY <1>2, <1>4, <2>b, <3>2
    <3> QED BY <1>5, <3>1, <3>2
  <2>3. \A i, j \in DOMAIN inq' :
          i < j /\ inq'[i] # 0 /\ inq'[j] # 0 => inq'[i] < inq'[j]
    <3> SUFFICES ASSUME NEW i \in DOMAIN inq', NEW j \in DOMAIN inq', i < j,
                        inq'[i] # 0, inq'[j] # 0
                 PROVE  inq'[i] < inq'[j]
      OBVIOUS
    <3>1. i \in Nat /\ j \in Nat
      BY <1>5
    <3>2. i \in DOMAIN inq /\ inq'[i] = inq[i] /\ inq[i] <= received /\ inq[i] \in Nat
      <4>1. ~(j <= i)
        BY <3>1
      <4>2. i \in DOMAIN inq /\ inq'[i] = inq[i]
        BY <1>5, <4>1
      <4> QED BY <1>2, <1>4, <2>a, <4>2
    <3> QED BY <1>2, <1>5, <3>1, <3>2 DEF IInv, QueueIsSorted, e, n
  <2> QED BY <2>1, <2>2, <2>3 DEF QueueIsSorted
<1>12. (ExecutedBefore /\ ExecutedInOrder /\ RepliesAreOwned)'
  BY <1>3 DEF IInv, ExecutedBefore, ExecutedInOrder, RepliesAreOwned, Newest
<1>13. RepliesAreAddressed'
  <2>1. \A r \in Replies : Addressed(r) => r.to \in Numbers /\ r.to # n
    BY <1>2, <1>4 DEF Addressed, Replies, Numbers, n
  <2>2. \A r \in Replies : Addressed(r) => Addressed(r)'
    BY <1>3, <1>6, <2>1 DEF Addressed
  <2> QED BY <1>3, <1>4, <2>2 DEF IInv, RepliesAreAddressed
<1> QED BY <1>3, <1>8, <1>9, <1>10, <1>11, <1>12, <1>13 DEF IInv

\* The call starts; it refers to nothing yet.
LEMMA HandleCommandsKeeps ==
  ASSUME IInv, HandleCommands
  PROVE  IInv'
<1>1. /\ UNCHANGED <<received, shape, root, args, inq, outq, reply, sent, cur,
                     executed, givenUp, status>>
      /\ pc = "idle" /\ pc' = "pop" /\ due' = ToSet(inq) \ {0}
  BY DEF HandleCommands
<1>2. due' \subseteq Numbers
  <2>1. \A i \in DOMAIN inq : inq[i] \in 0..MaxReceived
    BY DEF IInv, TypeOK
  <2> QED BY <1>1, <2>1 DEF ToSet, Numbers
<1>3. TypeOK'
  BY <1>1, <1>2 DEF IInv, TypeOK, PCs
<1>4. (QueueOwns /\ DispatchOwns /\ QueueIsSorted)'
  BY <1>1 DEF IInv, QueueOwns, DispatchOwns, QueueIsSorted, Using, HasArgs
<1>5. (ExecutedBefore /\ ExecutedInOrder /\ RepliesAreOwned)'
  BY <1>1 DEF IInv, ExecutedBefore, ExecutedInOrder, RepliesAreOwned, Newest
<1>6. RepliesAreAddressed'
  BY <1>1 DEF IInv, RepliesAreAddressed, Addressed
<1> QED BY <1>1, <1>3, <1>4, <1>5, <1>6 DEF IInv

\* The queue's reference becomes the dispatch's.
LEMMA PopPreserves ==
  ASSUME IInv, Pop
  PROVE  IInv'
<1>1. /\ UNCHANGED <<received, shape, root, args, outq, reply, sent, due,
                     executed, givenUp, status>>
      /\ pc = "pop" /\ pc' \in {"idle", "dispatch"}
      /\ inq = << >> \/ inq' = Tail(inq)
      /\ inq = << >> => inq' = inq
      /\ \/ pc' = "idle" /\ cur' = cur
         \/ inq # << >> /\ Head(inq) # 0 /\ cur' = Head(inq) /\ pc' = "dispatch"
  BY DEF Pop
<1>2. inq \in Seq(0..MaxReceived) /\ cur \in 0..MaxReceived /\ received \in Nat
      /\ Len(inq) <= InCapacity
  BY DEF IInv, TypeOK
<1>3. /\ inq' \in Seq(0..MaxReceived) /\ Len(inq') <= InCapacity
      /\ \A i \in DOMAIN inq' : i + 1 \in DOMAIN inq /\ inq'[i] = inq[i + 1] /\ i \in Nat \ {0}
  <2>1. CASE inq = << >>
    BY <1>1, <1>2, <2>1
  <2>2. CASE inq # << >>
    <3>1. /\ Tail(inq) \in Seq(0..MaxReceived)
          /\ Len(inq) \in Nat \ {0} /\ Len(Tail(inq)) = Len(inq) - 1
          /\ DOMAIN inq = 1..Len(inq) /\ DOMAIN Tail(inq) = 1..(Len(inq) - 1)
          /\ \A i \in 1..(Len(inq) - 1) : Tail(inq)[i] = inq[i + 1]
      BY <1>2, <2>2, HeadTailProperties, LenProperties, EmptySeq
    <3>2. inq' = Tail(inq)
      BY <1>1, <2>2
    <3> QED BY <1>2, <3>1, <3>2
  <2> QED BY <2>1, <2>2
<1>4. inq # << >> => 1 \in DOMAIN inq /\ Head(inq) = inq[1] /\ inq[1] \in 0..MaxReceived
  BY <1>2, HeadTailProperties, LenProperties, EmptySeq
<1>5. TypeOK'
  <2>1. cur' \in 0..MaxReceived /\ (pc' \notin {"idle", "pop"} => cur' # 0) /\ pc' \in PCs
    BY <1>1, <1>2, <1>4 DEF PCs
  <2> QED BY <1>1, <1>3, <2>1 DEF IInv, TypeOK
<1>6. QueueOwns'
  BY <1>1, <1>3 DEF IInv, QueueOwns, HasArgs
<1>7. DispatchOwns'
  BY <1>1, <1>4 DEF IInv, QueueOwns, DispatchOwns, HasArgs, Using
<1>8. cur' >= cur /\ cur' <= received /\ (pc' = "dispatch" => cur' - 1 >= cur)
  BY <1>1, <1>2, <1>4 DEF IInv, QueueIsSorted
<1>9. QueueIsSorted'
  <2>1. \A i \in DOMAIN inq' : inq'[i] # 0 => inq'[i] \in (cur' + 1)..received
    <3> SUFFICES ASSUME NEW i \in DOMAIN inq', inq'[i] # 0
                 PROVE  inq'[i] \in (cur' + 1)..received
      OBVIOUS
    <3>1. i + 1 \in DOMAIN inq /\ inq'[i] = inq[i + 1] /\ i \in Nat \ {0}
      BY <1>3
    <3>2. inq[i + 1] \in (cur + 1)..received
      BY <3>1 DEF IInv, QueueIsSorted
    <3>3. CASE pc' = "dispatch"
      <4>1. inq # << >> /\ inq[1] # 0 /\ cur' = inq[1] /\ 1 \in DOMAIN inq
        BY <1>1, <1>4, <3>3
      <4>2. inq[1] < inq[i + 1]
        BY <3>1, <4>1 DEF IInv, QueueIsSorted
      <4> QED BY <1>2, <1>4, <3>1, <3>2, <4>1, <4>2
    <3>4. CASE pc' # "dispatch"
      BY <1>1, <3>1, <3>2, <3>4
    <3> QED BY <3>3, <3>4
  <2>2. \A i, j \in DOMAIN inq' :
          i < j /\ inq'[i] # 0 /\ inq'[j] # 0 => inq'[i] < inq'[j]
    BY <1>3 DEF IInv, QueueIsSorted
  <2> QED BY <1>1, <1>8, <2>1, <2>2 DEF QueueIsSorted
<1>10. Newest' \in Int /\ Newest \in Int /\ Newest <= Newest' /\ cur <= cur'
       /\ cur' \in Nat
  <2>1. cur' \in Nat /\ cur \in Nat
    BY <1>2, <1>5 DEF TypeOK
  <2>2. Newest = cur
    BY <1>1 DEF Newest
  <2>3. Newest' = IF pc' = "dispatch" THEN cur' - 1 ELSE cur'
    BY <1>1 DEF Newest
  <2>4. cur <= cur' /\ (pc' = "dispatch" => cur <= cur' - 1)
    BY <1>8, <2>1
  <2> HIDE DEF Newest
  <2>5. CASE pc' = "dispatch"
    <3>1. Newest' = cur' - 1
      BY <2>3, <2>5
    <3>2. Newest' \in Int /\ Newest \in Int
      BY <2>1, <2>2, <3>1
    <3>3. Newest <= Newest' /\ cur <= cur'
      BY <2>1, <2>2, <2>4, <2>5, <3>1
    <3> QED BY <2>1, <3>2, <3>3
  <2>6. CASE pc' # "dispatch"
    <3>1. Newest' = cur'
      BY <2>3, <2>6
    <3> QED BY <2>1, <2>2, <2>4, <3>1
  <2> QED BY <2>5, <2>6
<1>11. ExecutedBefore' /\ ExecutedInOrder' /\ RepliesAreOwned'
  <2>1. /\ \A i \in DOMAIN executed : executed[i] \in Nat
        /\ \A i \in DOMAIN outq : outq[i].to \in Nat
    BY Elements DEF IInv, Numbers
  <2> HIDE DEF Newest
  <2> QED BY <1>1, <1>10, <2>1 DEF IInv, ExecutedBefore, ExecutedInOrder, RepliesAreOwned
<1>12. RepliesAreAddressed'
  <2>1. /\ \A i \in DOMAIN sent : sent[i].to \in Nat
        /\ \A i \in DOMAIN outq : outq[i].to \in Nat
    BY Elements DEF IInv
  <2> QED BY <1>1, <1>2, <1>10, <2>1 DEF IInv, RepliesAreAddressed, Addressed
<1> QED BY <1>1, <1>5, <1>6, <1>7, <1>9, <1>11, <1>12 DEF IInv

\* A step of a dispatch that concerns the command alone, which no queue holds.
LEMMA CommandAlone ==
  ASSUME IInv, pc \in Using, pc' \in {"op", "posted", "release", "pop"},
         pc \notin {"dispatch", "op"} => pc' # "op",
         UNCHANGED <<received, shape, inq, outq, reply, sent, cur, due, executed,
                     givenUp, status>>,
         root' \in [Numbers -> {0, 1}],
         args' \in [Numbers -> [refs : 0..2, seqID : 0..MaxReceived]],
         \A k \in Numbers : k # cur => root'[k] = root[k] /\ args'[k] = args[k],
         DispatchOwns'
  PROVE  IInv'
<1>1. TypeOK'
  BY DEF IInv, TypeOK, PCs, Using
<1>2. QueueOwns'
  <2>1. \A i \in DOMAIN inq : inq[i] # 0 => inq[i] \in Numbers /\ inq[i] # cur
    <3>1. \A i \in DOMAIN inq : inq[i] # 0 => inq[i] \in (cur + 1)..received
      BY DEF IInv, QueueIsSorted
    <3>2. received \in 0..MaxReceived /\ cur \in 0..MaxReceived
      BY DEF IInv, TypeOK
    <3> QED BY <3>1, <3>2 DEF Numbers
  <2> QED BY <2>1 DEF IInv, QueueOwns, HasArgs
<1>3. QueueIsSorted' /\ ExecutedInOrder'
  BY DEF IInv, QueueIsSorted, ExecutedInOrder
<1>4. Newest' \in Int /\ Newest \in Int /\ Newest <= Newest'
  BY <1>1 DEF IInv, TypeOK, Newest
<1>5. ExecutedBefore' /\ RepliesAreOwned'
  <2>1. /\ \A i \in DOMAIN executed : executed[i] \in Nat
        /\ \A i \in DOMAIN outq : outq[i].to \in Nat
    BY Elements DEF IInv, Numbers
  <2> HIDE DEF Newest
  <2> QED BY <1>4, <2>1 DEF IInv, ExecutedBefore, RepliesAreOwned
<1>6. RepliesAreAddressed'
  BY DEF IInv, RepliesAreAddressed, Addressed
<1> QED BY <1>1, <1>2, <1>3, <1>5, <1>6 DEF IInv

LEMMA RejectHeaderKeeps ==
  ASSUME IInv, RejectHeader
  PROVE  IInv'
<1>1. /\ UNCHANGED <<received, shape, root, args, inq, outq, reply, sent, cur, due,
                     executed, givenUp, status>>
      /\ pc = "dispatch" /\ pc' = "pop"
  BY DEF RejectHeader
<1>2. DispatchOwns' /\ pc \in Using
  BY <1>1 DEF DispatchOwns, Using
<1> QED BY <1>1, <1>2, CommandAlone DEF IInv, TypeOK

LEMMA RejectSeqIDKeeps ==
  ASSUME IInv, RejectSeqID
  PROVE  IInv'
<1>1. /\ UNCHANGED <<received, shape, root, inq, outq, reply, sent, cur, due,
                     executed, givenUp, status>>
      /\ pc = "dispatch" /\ pc' = "pop" /\ shape[cur] = "badSeqID"
      /\ args' = [args EXCEPT ![cur].refs = @ + 1]
  BY DEF RejectSeqID
<1>2. DispatchOwns' /\ pc \in Using
  BY <1>1 DEF DispatchOwns, Using
<1>3. cur \in Numbers /\ args \in [Numbers -> [refs : 0..2, seqID : 0..MaxReceived]]
      /\ args[cur].refs = 1
  BY <1>1, <1>2 DEF IInv, TypeOK, Numbers, DispatchOwns, HasArgs, WithArgs
<1>4. /\ args' \in [Numbers -> [refs : 0..2, seqID : 0..MaxReceived]]
      /\ \A k \in Numbers : k # cur => args'[k] = args[k]
  BY <1>1, <1>3
<1> QED BY <1>1, <1>2, <1>4, CommandAlone DEF IInv, TypeOK

LEMMA BeginKeeps ==
  ASSUME IInv, Begin
  PROVE  IInv'
<1> DEFINE refs == IF HasArgs(cur) THEN args[cur].refs + 1 ELSE args[cur].refs
           seqID == IF shape[cur] = "command" THEN cur ELSE args[cur].seqID
<1>1. /\ UNCHANGED <<received, shape, root, inq, outq, reply, sent, cur, due,
                     executed, givenUp, status>>
      /\ pc = "dispatch" /\ pc' \in {"op", "release"} /\ shape[cur] \in Commands
      /\ args' = [args EXCEPT ![cur].refs = IF HasArgs(cur) THEN @ + 1 ELSE @,
                              ![cur].seqID = IF shape[cur] = "command" THEN cur ELSE @]
  BY DEF Begin
<1>2. pc \in Using
  BY <1>1 DEF Using
<1>3. cur \in Numbers /\ args \in [Numbers -> [refs : 0..2, seqID : 0..MaxReceived]]
      /\ (HasArgs(cur) => args[cur].refs = 1)
  BY <1>1, <1>2 DEF IInv, TypeOK, Numbers, DispatchOwns
<1>4. /\ refs \in 0..2 /\ seqID \in 0..MaxReceived
      /\ HasArgs(cur) => refs = 2
      /\ shape[cur] = "command" => seqID = cur
  BY <1>3 DEF Numbers
<1>5. /\ args'[cur].refs = refs /\ args'[cur].seqID = seqID
      /\ args'[cur] \in [refs : 0..2, seqID : 0..MaxReceived]
      /\ args' \in [Numbers -> [refs : 0..2, seqID : 0..MaxReceived]]
      /\ \A k \in Numbers : k # cur => args'[k] = args[k]
  <2>1. args' = [args EXCEPT ![cur].refs = refs, ![cur].seqID = seqID]
    BY <1>1
  <2> HIDE DEF refs, seqID
  <2> DEFINE a == [args[cur] EXCEPT !.refs = refs]
             b == [a EXCEPT !.seqID = seqID]
  <2>2. args' = [args EXCEPT ![cur] = b]
    BY <1>3, <2>1
  <2>3. a \in [refs : 0..2, seqID : 0..MaxReceived] /\ a.refs = refs
    <3>1. args[cur] \in [refs : 0..2, seqID : 0..MaxReceived]
      BY <1>3
    <3> QED BY <1>4, <3>1
  <2> HIDE DEF a
  <2>4. b \in [refs : 0..2, seqID : 0..MaxReceived] /\ b.refs = refs /\ b.seqID = seqID
    BY <1>4, <2>3
  <2> HIDE DEF b
  <2> QED BY <1>3, <2>2, <2>4
<1>6. DispatchOwns'
  <2> HIDE DEF refs, seqID
  <2> QED BY <1>1, <1>2, <1>4, <1>5 DEF IInv, DispatchOwns, HasArgs
<1> QED BY <1>1, <1>2, <1>5, <1>6, CommandAlone DEF IInv, TypeOK

LEMMA PostedLeftKeeps ==
  ASSUME IInv, PostedLeft
  PROVE  IInv'
<1>1. /\ UNCHANGED <<received, shape, root, args, inq, outq, reply, sent, cur, due,
                     executed, givenUp, status>>
      /\ pc = "posted" /\ pc' = "release"
  BY DEF PostedLeft
<1>2. DispatchOwns' /\ pc \in Using
  BY <1>1 DEF IInv, DispatchOwns, Using, HasArgs
<1> QED BY <1>1, <1>2, CommandAlone DEF IInv, TypeOK

\* The handler gives up its own reply, and no other.
LEMMA PostedDecrefKeeps ==
  ASSUME IInv, PostedDecref
  PROVE  IInv'
<1>1. /\ UNCHANGED <<received, shape, root, args, inq, outq, sent, cur, due, executed>>
      /\ pc = "posted" /\ pc' \in {"release", "posted"}
      /\ givenUp' = givenUp \cup {cur}
      /\ \/ reply[cur] > 0 /\ reply' = [reply EXCEPT ![cur] = @ - 1] /\ UNCHANGED status
         \/ status' = "fault" /\ UNCHANGED reply
  BY DEF PostedDecref
<1>2. cur \in Numbers /\ reply \in [Numbers -> {0, 1}] /\ givenUp \subseteq Numbers
  BY <1>1 DEF IInv, TypeOK, Numbers
<1>3. /\ reply' \in [Numbers -> {0, 1}]
      /\ \A k \in Numbers : k # cur => reply'[k] = reply[k]
  BY <1>1, <1>2
<1>4. TypeOK'
  <2>1. givenUp' \subseteq Numbers /\ pc' \in PCs /\ cur # 0
    BY <1>1, <1>2 DEF PCs, Numbers
  <2>2. status' \in {"running", "fault"}
    BY <1>1 DEF IInv, TypeOK
  <2> QED BY <1>1, <1>3, <2>1, <2>2 DEF IInv, TypeOK
<1>5. (QueueOwns /\ DispatchOwns /\ QueueIsSorted)'
  BY <1>1 DEF IInv, QueueOwns, DispatchOwns, QueueIsSorted, Using, HasArgs
<1>6. (ExecutedBefore /\ ExecutedInOrder /\ RepliesAreAddressed)'
  BY <1>1 DEF IInv, ExecutedBefore, ExecutedInOrder, Newest, RepliesAreAddressed, Addressed
<1>7. RepliesAreOwned'
  <2>1. Newest' = Newest
    BY <1>1 DEF Newest
  <2>2. \A i \in DOMAIN outq : outq[i].to \in Numbers
    BY Elements DEF IInv
  <2>3. \A i \in DOMAIN outq : outq[i].to \notin givenUp' =>
          outq[i].to \notin givenUp /\ outq[i].to # cur
    BY <1>1
  <2> HIDE DEF Newest
  <2> QED BY <1>1, <1>3, <2>1, <2>2, <2>3 DEF IInv, RepliesAreOwned
<1>8. givenUp' # {}
  BY <1>1
<1> QED BY <1>4, <1>5, <1>6, <1>7, <1>8 DEF IInv

LEMMA ReleaseKeeps ==
  ASSUME IInv, Release
  PROVE  IInv'
<1>1. /\ UNCHANGED <<received, shape, inq, outq, reply, sent, cur, due,
                     executed, givenUp, status>>
      /\ pc = "release" /\ pc' = "pop"
      /\ root' = [root EXCEPT ![cur] = @ - 1]
      /\ args' = IF root[cur] = 1 /\ HasArgs(cur)
                   THEN [args EXCEPT ![cur].refs = @ - 1] ELSE args
  BY DEF Release, Decref
<1>2. DispatchOwns' /\ pc \in Using
  BY <1>1 DEF DispatchOwns, Using
<1>3. cur \in Numbers /\ args \in [Numbers -> [refs : 0..2, seqID : 0..MaxReceived]]
      /\ root \in [Numbers -> {0, 1}] /\ root[cur] = 1
      /\ (HasArgs(cur) => args[cur].refs = 2)
  BY <1>1, <1>2 DEF IInv, TypeOK, Numbers, DispatchOwns
<1>4. /\ root' \in [Numbers -> {0, 1}]
      /\ \A k \in Numbers : k # cur => root'[k] = root[k]
  BY <1>1, <1>3
<1>5. /\ args' \in [Numbers -> [refs : 0..2, seqID : 0..MaxReceived]]
      /\ \A k \in Numbers : k # cur => args'[k] = args[k]
  <2>1. CASE HasArgs(cur)
    <3>1. args' = [args EXCEPT ![cur].refs = @ - 1] /\ args[cur].refs = 2
      BY <1>1, <1>3, <2>1
    <3> QED BY <1>3, <3>1
  <2>2. CASE ~HasArgs(cur)
    BY <1>1, <1>3, <2>2
  <2> QED BY <2>1, <2>2
<1> QED BY <1>1, <1>2, <1>4, <1>5, CommandAlone

\* The handler uses a command that is alive, and its reply is the first to it.
LEMMA OpKeeps ==
  ASSUME IInv, Op
  PROVE  IInv'
<1> DEFINE r == [to |-> cur, seqID |-> args[cur].seqID]
<1>1. /\ UNCHANGED <<received, shape, root, args, inq, sent, cur, due, givenUp>>
      /\ pc = "op" /\ executed' = Append(executed, cur)
  BY DEF Op
<1>2. /\ cur \in Numbers /\ executed \in Seq(Numbers) /\ outq \in Seq(Replies)
      /\ reply \in [Numbers -> {0, 1}] /\ Len(outq) <= OutCapacity
      /\ args \in [Numbers -> [refs : 0..2, seqID : 0..MaxReceived]]
  BY <1>1 DEF IInv, TypeOK, Numbers
<1>3. root[cur] = 1 /\ (HasArgs(cur) => args[cur].refs = 2)
      /\ (shape[cur] = "command" => args[cur].seqID = cur)
  BY <1>1 DEF IInv, DispatchOwns, Using
<1>4. /\ UNCHANGED status
      /\ \/ pc' = "release" /\ UNCHANGED <<reply, outq>>
         \/ /\ pc' = "posted"
            /\ reply' = [reply EXCEPT ![cur] = 1]
            /\ outq' = IF Len(outq) < OutCapacity THEN Append(outq, r) ELSE outq
  BY <1>1, <1>3 DEF Op
<1>5. r \in Replies /\ r.to = cur /\ r.seqID = args[cur].seqID
  BY <1>2 DEF Replies
<1> HIDE DEF r
<1>6. /\ executed' \in Seq(Numbers)
      /\ \A i \in DOMAIN executed' : i \in Nat /\
           \/ i \in DOMAIN executed /\ executed'[i] = executed[i]
           \/ (\A j \in DOMAIN executed' : j <= i) /\ executed'[i] = cur
  <2>1. /\ Append(executed, cur) \in Seq(Numbers)
        /\ Len(executed) \in Nat
        /\ DOMAIN executed = 1..Len(executed)
        /\ DOMAIN Append(executed, cur) = 1..(Len(executed) + 1)
        /\ \A i \in 1..Len(executed) : Append(executed, cur)[i] = executed[i]
        /\ Append(executed, cur)[Len(executed) + 1] = cur
    BY <1>2, AppendProperties, LenProperties
  <2> QED BY <1>1, <2>1
<1>7. /\ outq' \in Seq(Replies) /\ Len(outq') <= OutCapacity
      /\ \A i \in DOMAIN outq' : i \in Nat /\
           \/ i \in DOMAIN outq /\ outq'[i] = outq[i]
           \/ (\A j \in DOMAIN outq' : j <= i) /\ outq'[i] = r /\ reply'[cur] = 1
      /\ reply' \in [Numbers -> {0, 1}]
      /\ \A k \in Numbers : reply[k] = 1 => reply'[k] = 1
  <2>1. /\ Append(outq, r) \in Seq(Replies)
        /\ Len(outq) \in Nat /\ Len(Append(outq, r)) = Len(outq) + 1
        /\ DOMAIN outq = 1..Len(outq)
        /\ DOMAIN Append(outq, r) = 1..(Len(outq) + 1)
        /\ \A i \in 1..Len(outq) : Append(outq, r)[i] = outq[i]
        /\ Append(outq, r)[Len(outq) + 1] = r
    BY <1>2, <1>5, AppendProperties, LenProperties
  <2>4. /\ reply' \in [Numbers -> {0, 1}]
        /\ \A k \in Numbers : reply[k] = 1 => reply'[k] = 1
    BY <1>2, <1>4
  <2>2. CASE outq' = outq
    BY <1>2, <2>1, <2>2, <2>4
  <2>3. CASE outq' # outq
    <3>1. outq' = Append(outq, r) /\ Len(outq) < OutCapacity
          /\ reply' = [reply EXCEPT ![cur] = 1]
      BY <1>4, <2>3
    <3>2. \A i \in DOMAIN outq' : i \in Nat /\
           \/ i \in DOMAIN outq /\ outq'[i] = outq[i]
           \/ (\A j \in DOMAIN outq' : j <= i) /\ outq'[i] = r
      BY <2>1, <3>1
    <3> QED BY <1>2, <2>1, <3>1, <3>2
  <2> QED BY <2>2, <2>3
<1>8. TypeOK'
  BY <1>1, <1>4, <1>6, <1>7 DEF IInv, TypeOK, PCs
<1>9. QueueOwns' /\ QueueIsSorted'
  BY <1>1 DEF IInv, QueueOwns, QueueIsSorted, HasArgs
<1>10. DispatchOwns'
  BY <1>1, <1>4 DEF IInv, DispatchOwns, Using, HasArgs
<1>11. Newest = cur - 1 /\ Newest' = cur /\ cur \in Nat
  BY <1>1, <1>2, <1>4 DEF Newest, Numbers
<1> HIDE DEF Newest
<1>12. \A i \in DOMAIN executed : executed[i] \in Nat /\ executed[i] < cur
  BY <1>11, Elements DEF IInv, ExecutedBefore, Numbers
<1>13. ExecutedBefore' /\ ExecutedInOrder'
  <2>1. ExecutedBefore'
    BY <1>6, <1>11, <1>12 DEF ExecutedBefore
  <2>2. ExecutedInOrder'
    <3> SUFFICES ASSUME NEW i \in DOMAIN executed', NEW j \in DOMAIN executed', i < j
                 PROVE  executed'[i] < executed'[j]
      BY DEF ExecutedInOrder
    <3>1. i \in DOMAIN executed /\ executed'[i] = executed[i]
      BY <1>6
    <3> QED BY <1>6, <1>12, <3>1 DEF IInv, ExecutedInOrder
  <2> QED BY <2>1, <2>2
<1>14. \A i \in DOMAIN outq : outq[i].to \in Numbers /\ outq[i].to \in Nat
         /\ outq[i].to < cur /\ (outq[i].to \notin givenUp => reply[outq[i].to] = 1)
  BY <1>11, Elements DEF IInv, RepliesAreOwned
<1>15. RepliesAreOwned'
  <2>1. \A i \in DOMAIN outq' : outq'[i].to <= cur
          /\ (outq'[i].to \notin givenUp' => reply'[outq'[i].to] = 1)
    <3> SUFFICES ASSUME NEW i \in DOMAIN outq'
                 PROVE  /\ outq'[i].to <= cur
                        /\ outq'[i].to \notin givenUp => reply'[outq'[i].to] = 1
      BY <1>1
    <3>1. CASE i \in DOMAIN outq /\ outq'[i] = outq[i]
      BY <1>7, <1>11, <1>14, <3>1
    <3>2. CASE outq'[i] = r /\ reply'[cur] = 1
      BY <1>5, <1>11, <3>2
    <3> QED BY <1>7, <3>1, <3>2
  <2>2. \A i, j \in DOMAIN outq' : outq'[i].to = outq'[j].to => i = j
    <3> SUFFICES ASSUME NEW i \in DOMAIN outq', NEW j \in DOMAIN outq',
                        outq'[i].to = outq'[j].to
                 PROVE  i = j
      OBVIOUS
    <3>1. CASE i \in DOMAIN outq /\ j \in DOMAIN outq /\ outq'[i] = outq[i] /\ outq'[j] = outq[j]
      BY <3>1 DEF IInv, RepliesAreOwned
    <3>2. CASE outq'[i] = r /\ outq'[j] = r
      BY <1>5, <1>7, <1>14, <3>2
    <3>3. CASE i \in DOMAIN outq /\ outq'[i] = outq[i] /\ outq'[j] = r
      BY <1>5, <1>11, <1>14, <3>3
    <3>4. CASE j \in DOMAIN outq /\ outq'[j] = outq[j] /\ outq'[i] = r
      BY <1>5, <1>11, <1>14, <3>4
    <3> QED BY <1>7, <3>1, <3>2, <3>3, <3>4
  <2> QED BY <1>11, <2>1, <2>2 DEF RepliesAreOwned
<1>16. RepliesAreAddressed'
  <2>1. r.to <= cur /\ (shape[r.to] = "command" => r.seqID = r.to)
    BY <1>3, <1>5, <1>11
  <2> QED BY <1>1, <1>7, <2>1 DEF IInv, RepliesAreAddressed, Addressed
<1> QED BY <1>1, <1>4, <1>8, <1>9, <1>10, <1>13, <1>15, <1>16 DEF IInv

\* A reply is given up by the pop that takes it, after which no queue holds it.
LEMMA SendKeeps ==
  ASSUME IInv, Send
  PROVE  IInv'
<1> DEFINE r == Head(outq)
<1>1. /\ UNCHANGED <<received, shape, root, args, inq, pc, cur, due, executed, givenUp>>
      /\ outq # << >> /\ outq' = Tail(outq)
  BY DEF Send
<1>2. outq \in Seq(Replies) /\ sent \in Seq(Replies) /\ reply \in [Numbers -> {0, 1}]
      /\ Len(outq) <= OutCapacity
  BY DEF IInv, TypeOK
<1>3. /\ outq' \in Seq(Replies)
      /\ Len(outq) \in Nat \ {0} /\ Len(outq') = Len(outq) - 1
      /\ DOMAIN outq = 1..Len(outq) /\ DOMAIN outq' = 1..(Len(outq) - 1)
      /\ \A i \in 1..(Len(outq) - 1) : outq'[i] = outq[i + 1]
      /\ r = outq[1] /\ r \in Replies
  BY <1>1, <1>2, HeadTailProperties, LenProperties, EmptySeq
<1> HIDE DEF r
<1>4. /\ 1 \in DOMAIN outq /\ r.to \in Numbers /\ Addressed(r)
      /\ r.to \notin givenUp => reply[r.to] = 1
  BY <1>3, Elements DEF IInv, RepliesAreOwned, RepliesAreAddressed
<1>5. \/ /\ reply[r.to] > 0
         /\ reply' = [reply EXCEPT ![r.to] = @ - 1] /\ sent' = Append(sent, r)
         /\ UNCHANGED status
      \/ r.to \in givenUp /\ status' = "fault" /\ UNCHANGED <<reply, sent>>
  BY <1>4 DEF Send, r
<1>6. reply' \in [Numbers -> {0, 1}] /\ \A k \in Numbers : k # r.to => reply'[k] = reply[k]
  BY <1>2, <1>4, <1>5
<1>7. /\ sent' \in Seq(Replies)
      /\ \A i \in DOMAIN sent' :
           (i \in DOMAIN sent /\ sent'[i] = sent[i]) \/ sent'[i] = r
  <2>1. /\ Append(sent, r) \in Seq(Replies)
        /\ Len(sent) \in Nat
        /\ DOMAIN sent = 1..Len(sent)
        /\ DOMAIN Append(sent, r) = 1..(Len(sent) + 1)
        /\ \A i \in 1..Len(sent) : Append(sent, r)[i] = sent[i]
        /\ Append(sent, r)[Len(sent) + 1] = r
    BY <1>2, <1>3, AppendProperties, LenProperties
  <2>2. CASE sent' = sent
    BY <1>2, <2>2
  <2>3. CASE sent' = Append(sent, r)
    BY <2>1, <2>3
  <2> QED BY <1>5, <2>2, <2>3
<1>8. TypeOK'
  <2>1. status' \in {"running", "fault"}
    BY <1>5 DEF IInv, TypeOK
  <2>2. Len(outq') <= OutCapacity
    BY <1>2, <1>3, InboundAssumption
  <2> QED BY <1>1, <1>3, <1>6, <1>7, <2>1, <2>2 DEF IInv, TypeOK
<1>9. (QueueOwns /\ DispatchOwns /\ QueueIsSorted)'
  BY <1>1 DEF IInv, QueueOwns, DispatchOwns, QueueIsSorted, HasArgs
<1>10. (ExecutedBefore /\ ExecutedInOrder)'
  BY <1>1 DEF IInv, ExecutedBefore, ExecutedInOrder, Newest
<1>11. \A i \in DOMAIN outq' : i + 1 \in DOMAIN outq /\ outq'[i] = outq[i + 1] /\ i \in Nat \ {0}
  BY <1>3
<1>12. RepliesAreOwned'
  <2>1. Newest' = Newest
    BY <1>1 DEF Newest
  <2>2. \A i, j \in DOMAIN outq' : outq'[i].to = outq'[j].to => i = j
    BY <1>11 DEF IInv, RepliesAreOwned
  <2>3. \A i \in DOMAIN outq' : outq'[i].to \in Numbers /\ outq'[i].to # r.to
    BY <1>3, <1>4, <1>11, Elements DEF IInv, RepliesAreOwned
  <2>4. \A i \in DOMAIN outq' : outq'[i].to <= Newest
          /\ (outq'[i].to \notin givenUp => reply[outq'[i].to] = 1)
    BY <1>11 DEF IInv, RepliesAreOwned
  <2> HIDE DEF Newest
  <2> QED BY <1>1, <1>6, <2>1, <2>2, <2>3, <2>4 DEF RepliesAreOwned
<1>13. RepliesAreAddressed'
  BY <1>1, <1>4, <1>7, <1>11 DEF IInv, RepliesAreAddressed, Addressed
<1>14. status' = "fault" => givenUp' # {}
  BY <1>1, <1>5 DEF IInv
<1> QED BY <1>8, <1>9, <1>10, <1>12, <1>13, <1>14 DEF IInv

LEMMA NextKeeps ==
  ASSUME IInv, [Next]_vars
  PROVE  IInv'
<1>1. CASE \E text \in Texts, len \in 0..7 : Receive(text, len)
  BY <1>1, ReceiveKeeps
<1>2. CASE HandleCommands
  BY <1>2, HandleCommandsKeeps
<1>3. CASE Pop
  BY <1>3, PopPreserves
<1>4. CASE RejectHeader
  BY <1>4, RejectHeaderKeeps
<1>5. CASE RejectSeqID
  BY <1>5, RejectSeqIDKeeps
<1>6. CASE Begin
  BY <1>6, BeginKeeps
<1>7. CASE Op
  BY <1>7, OpKeeps
<1>8. CASE Posted
  BY <1>8, PostedLeftKeeps, PostedDecrefKeeps DEF Posted
<1>9. CASE Release
  BY <1>9, ReleaseKeeps
<1>10. CASE Send
  BY <1>10, SendKeeps
<1>11. CASE UNCHANGED vars
  BY <1>11 DEF vars, IInv, TypeOK, QueueOwns, DispatchOwns, QueueIsSorted,
     ExecutedBefore, ExecutedInOrder, RepliesAreOwned, RepliesAreAddressed,
     Newest, Addressed, HasArgs
<1> QED BY <1>1, <1>2, <1>3, <1>4, <1>5, <1>6, <1>7, <1>8, <1>9, <1>10, <1>11 DEF Next

-----------------------------------------------------------------------------
(* The theorems.                                                           *)

\* In every reachable state whatever a queue or a dispatch refers to is owned by
\* it, and commands and replies are in the order of arrival.
THEOREM Invariance == Spec => []IInv
<1>1. Init => IInv
  BY InitIInv
<1>2. IInv /\ [Next]_vars => IInv'
  BY NextKeeps
<1> QED BY <1>1, <1>2, PTL DEF Spec

\* The queues stay within MQ_LEN and no reference count leaves its range.
THEOREM TypeCorrect == Spec => []TypeOK
<1>1. IInv => TypeOK
  BY DEF IInv
<1> QED BY <1>1, Invariance, PTL

\* Nothing is freed under the threads that share it: mq_pop, dispatch and the
\* writing of a reply use memory that is still allocated, unless a handler gave
\* up a reply after posting it, as the one of examples/u_s does.
THEOREM NothingFreedIsUsed == Spec => []OwnedIsAlive
<1>1. IInv => OwnedIsAlive
  <2> SUFFICES ASSUME IInv PROVE OwnedIsAlive
    OBVIOUS
  <2>1. \A n \in ToSet(inq) : \E i \in DOMAIN inq : n = inq[i]
    BY DEF ToSet
  <2>2. \A n \in Numbers : n \in ToSet(inq) => root[n] > 0 /\ (HasArgs(n) => args[n].refs > 0)
    BY <2>1 DEF IInv, QueueOwns, Numbers
  <2>3. \A n \in Numbers : InUse(n) => root[n] > 0 /\ (HasArgs(n) => args[n].refs > 0)
    BY DEF IInv, InUse, DispatchOwns, Using
  <2>4. \A i \in DOMAIN outq : outq[i].to \notin givenUp => reply[outq[i].to] > 0
    BY DEF IInv, RepliesAreOwned
  <2> QED BY <2>2, <2>3, <2>4 DEF IInv, OwnedIsAlive
<1> QED BY <1>1, Invariance, PTL

\* jansson-2.4/doc/apiref.rst:178: a value whose reference count has dropped to
\* zero "is destroyed and it can no longer be used": no step uses such a value,
\* and no queue passes one on.
DestroyedIsUnused ==
  status # "fault" /\ \A i \in DOMAIN outq : reply[outq[i].to] > 0

\* Where every handler leaves what it has posted alone, as that of examples/boids
\* does, no step ever uses a value that has been destroyed.
THEOREM LeavingIsSafe ==
  ASSUME "decref" \notin Handlers
  PROVE  Spec => []DestroyedIsUnused
<1> DEFINE Safe == IInv /\ givenUp = {}
<1>1. Init => Safe
  BY InitIInv DEF Init
<1>2. Safe /\ [Next]_vars => Safe'
  <2> SUFFICES ASSUME Safe, [Next]_vars PROVE Safe'
    OBVIOUS
  <2>1. IInv'
    BY NextKeeps
  <2>2. givenUp' = givenUp
    BY DEF Next, Receive, HandleCommands, Pop, RejectHeader, RejectSeqID, Begin, Op,
       Posted, PostedLeft, PostedDecref, Release, Send, vars
  <2> QED BY <2>1, <2>2
<1>3. Safe => DestroyedIsUnused
  <2> SUFFICES ASSUME Safe PROVE DestroyedIsUnused
    OBVIOUS
  <2>1. \A i \in DOMAIN outq : reply[outq[i].to] > 0
    BY DEF IInv, RepliesAreOwned
  <2> QED BY <2>1 DEF IInv, DestroyedIsUnused
<1> HIDE DEF Safe
<1> QED BY <1>1, <1>2, <1>3, PTL DEF Spec

\* Handlers run in the order of arrival, each command at most once.
THEOREM InOrder == Spec => []ExecutedInOrder
<1>1. IInv => ExecutedInOrder
  BY DEF IInv
<1> QED BY <1>1, Invariance, PTL

\* The reply to a command with an object of args carries its seqID.
THEOREM Addressing == Spec => []ReplyToItsCommand
<1>1. IInv => ReplyToItsCommand
  BY DEF IInv, ReplyToItsCommand, RepliesAreAddressed, Addressed, ToSet
<1> QED BY <1>1, Invariance, PTL

=============================================================================
