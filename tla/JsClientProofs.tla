--------------------------- MODULE JsClientProofs ---------------------------
(***************************************************************************)
(* Proofs about JsClient for every number of connections and commands and  *)
(* every set of worlds: which command's callback a reply can reach.  And   *)
(* about Headcrab: its server is one that JsClient allows.                 *)
(***************************************************************************)
EXTENDS JsClient, SequencesExt, SequenceTheorems, FiniteSetTheorems, TLAPS

-----------------------------------------------------------------------------
(* Sequences.                                                              *)

\* The elements of a sequence to which one is added.
LEMMA ToSetAppend ==
  ASSUME NEW S, NEW s \in Seq(S), NEW e \in S
  PROVE  /\ Append(s, e) \in Seq(S)
         /\ ToSet(Append(s, e)) = ToSet(s) \cup {e}
<1>1. /\ Append(s, e) \in Seq(S)
      /\ DOMAIN s = 1..Len(s) /\ DOMAIN Append(s, e) = 1..(Len(s) + 1)
      /\ \A i \in 1..Len(s) : Append(s, e)[i] = s[i]
      /\ Append(s, e)[Len(s) + 1] = e
      /\ Len(s) \in Nat
  BY AppendProperties, LenProperties
<1>2. \A i \in DOMAIN Append(s, e) : Append(s, e)[i] \in ToSet(s) \cup {e}
  BY <1>1 DEF ToSet
<1>3. \A x \in ToSet(s) \cup {e} : \E i \in DOMAIN Append(s, e) : x = Append(s, e)[i]
  BY <1>1 DEF ToSet
<1> QED BY <1>1, <1>2, <1>3 DEF ToSet

\* Removing the head adds no element.
LEMMA ToSetTail ==
  ASSUME NEW S, NEW s \in Seq(S), s # << >>
  PROVE  /\ Tail(s) \in Seq(S) /\ ToSet(Tail(s)) \subseteq ToSet(s)
         /\ Head(s) \in S /\ Head(s) \in ToSet(s)
<1>1. /\ Tail(s) \in Seq(S) /\ Head(s) \in S
      /\ Len(s) \in Nat \ {0} /\ DOMAIN s = 1..Len(s)
      /\ DOMAIN Tail(s) = 1..(Len(s) - 1)
      /\ \A i \in 1..(Len(s) - 1) : Tail(s)[i] = s[i + 1]
      /\ Head(s) = s[1]
  BY HeadTailProperties, LenProperties, EmptySeq
<1>2. \A i \in DOMAIN Tail(s) : i + 1 \in DOMAIN s /\ Tail(s)[i] = s[i + 1]
  BY <1>1
<1>3. 1 \in DOMAIN s
  BY <1>1
<1> QED BY <1>1, <1>2, <1>3 DEF ToSet

\* Removing the element at a place moves those behind it down by one.
LEMMA RemoveAtFacts ==
  ASSUME NEW S, NEW s \in Seq(S), NEW i \in DOMAIN s
  PROVE  /\ RemoveAt(s, i) \in Seq(S)
         /\ Len(s) \in Nat \ {0} /\ Len(RemoveAt(s, i)) = Len(s) - 1
         /\ DOMAIN s = 1..Len(s) /\ DOMAIN RemoveAt(s, i) = 1..(Len(s) - 1)
         /\ s[i] \in S
         /\ \A j \in 1..(Len(s) - 1) : RemoveAt(s, i)[j] = s[IF j < i THEN j ELSE j + 1]
<1> DEFINE n == Len(s)
           a == SubSeq(s, 1, i - 1)
           b == SubSeq(s, i + 1, n)
<1>1. n \in Nat \ {0} /\ DOMAIN s = 1..n /\ i \in 1..n /\ \A j \in 1..n : s[j] \in S
  BY LenProperties
<1>2. /\ a = [j \in 1..(i - 1) |-> s[j]] /\ a \in Seq(S) /\ Len(a) = i - 1
      /\ b = [j \in 1..(n - i) |-> s[i + j]] /\ b \in Seq(S) /\ Len(b) = n - i
  BY <1>1
<1> HIDE DEF a, b
<1>3. /\ a \o b \in Seq(S) /\ Len(a \o b) = (i - 1) + (n - i)
      /\ \A j \in 1..((i - 1) + (n - i)) :
           (a \o b)[j] = IF j <= i - 1 THEN a[j] ELSE b[j - (i - 1)]
  <2>1. /\ a \in Seq(S) /\ Len(a) = i - 1
        /\ b \in Seq(S) /\ Len(b) = n - i
    BY <1>2
  <2>2. /\ a \o b \in Seq(S) /\ Len(a \o b) = Len(a) + Len(b)
        /\ \A j \in 1..(Len(a) + Len(b)) :
             (a \o b)[j] = IF j <= Len(a) THEN a[j] ELSE b[j - Len(a)]
    BY <2>1, ConcatProperties
  <2> QED BY <2>1, <2>2, Zenon
<1>4. ASSUME NEW j \in 1..(n - 1)
      PROVE  (a \o b)[j] = s[IF j < i THEN j ELSE j + 1]
  <2>1. (a \o b)[j] = IF j <= i - 1 THEN a[j] ELSE b[j - (i - 1)]
    BY <1>1, <1>3
  <2>2. j <= i - 1 => j < i /\ a[j] = s[j]
    BY <1>1, <1>2
  <2>3. ~(j <= i - 1) => ~(j < i) /\ b[j - (i - 1)] = s[j + 1]
    BY <1>1, <1>2
  <2> QED BY <2>1, <2>2, <2>3
<1>5. RemoveAt(s, i) = a \o b
  BY DEF RemoveAt, a, b
<1>6. Len(a \o b) = n - 1
  BY <1>1, <1>3
<1> HIDE DEF n
<1>7. DOMAIN (a \o b) = 1..(n - 1)
  BY <1>3, <1>6, LenProperties
<1> QED BY <1>1, <1>3, <1>4, <1>5, <1>6, <1>7 DEF n

\* Nothing new is in what is left.
LEMMA ToSetRemove ==
  ASSUME NEW S, NEW s \in Seq(S), NEW i \in DOMAIN s
  PROVE  /\ RemoveAt(s, i) \in Seq(S) /\ ToSet(RemoveAt(s, i)) \subseteq ToSet(s)
         /\ s[i] \in S /\ s[i] \in ToSet(s)
<1> DEFINE r == RemoveAt(s, i)
<1>1. /\ r \in Seq(S) /\ s[i] \in S /\ Len(s) \in Nat
      /\ DOMAIN s = 1..Len(s) /\ DOMAIN r = 1..(Len(s) - 1)
      /\ \A j \in 1..(Len(s) - 1) : r[j] = s[IF j < i THEN j ELSE j + 1]
  BY RemoveAtFacts
<1> HIDE DEF r
<1>2. \A j \in DOMAIN r : \E k \in DOMAIN s : r[j] = s[k]
  <2> SUFFICES ASSUME NEW j \in DOMAIN r
               PROVE  \E k \in DOMAIN s : r[j] = s[k]
    OBVIOUS
  <2>1. j \in DOMAIN s /\ j + 1 \in DOMAIN s /\ j \in 1..(Len(s) - 1)
    BY <1>1
  <2>2. r[j] = s[IF j < i THEN j ELSE j + 1]
    BY <1>1, <2>1
  <2>3. CASE j < i
    BY <2>1, <2>2, <2>3
  <2>4. CASE ~(j < i)
    BY <2>1, <2>2, <2>4
  <2> QED BY <2>3, <2>4
<1> QED BY <1>1, <1>2 DEF ToSet, r

-----------------------------------------------------------------------------

\* A command that the server got; the page keeps seeing its replies.
Sent(k) == OnItsWay(k) \/ \E i \in DOMAIN called : called[i].reply = k

\* The numbers stay within the tables.
Counted ==
  /\ nextSeqID <= Len(issued) /\ Len(issued) <= world.issues
  /\ connects <= world.connects
  /\ \A j \in DOMAIN issued : issued[j].conn <= connects
  /\ \A c \in Conns : socket[c] # "none" => c <= connects

\* After a command that was sent its seqID is used again on a later connection
\* at the earliest.
SentIsNumbered ==
  \A k \in Commands : Sent(k) =>
    /\ k \in DOMAIN issued /\ issued[k].conn > 0
    /\ issued[k].conn = connects => issued[k].seqID < nextSeqID
    /\ \A j \in DOMAIN issued :
         j > k /\ issued[j].seqID = issued[k].seqID => issued[j].conn > issued[k].conn

\* The callback expected under a seqID is the one of the last command with it.
ExpectedIsLatest ==
  \A id \in 0..MaxIssues : expected[id] # 0 =>
    /\ expected[id] \in DOMAIN issued /\ issued[expected[id]].seqID = id
    /\ \A j \in DOMAIN issued : j > expected[id] => issued[j].seqID # id

\* The callback that runs has been recorded, under the seqID of its command.
HandledIsCalled ==
  IF handling.callback = 0
    THEN Idle
    ELSE /\ Called(handling.callback) /\ handling.callback \in DOMAIN issued
         /\ issued[handling.callback].seqID = handling.seqID

CalledWereIssued == \A i \in DOMAIN called : called[i].callback \in DOMAIN issued

\* A callback runs only once the one connection has opened, so that nothing it
\* issues throws.
OneConnection ==
  world.connects = 1 /\ ~Idle => connects = 1 /\ socket[1] \in {"open", "closed"}

\* A callback that has been called is removed before the next event.
NotAgain ==
  world.connects = 1 /\ ~world.throws => \A i \in DOMAIN called :
    \/ handling.callback = called[i].callback
    \/ expected[issued[called[i].callback].seqID] # called[i].callback

IInv ==
  /\ TypeOK /\ Counted /\ SentIsNumbered /\ ExpectedIsLatest /\ HandledIsCalled
  /\ CalledWereIssued /\ OneConnection /\ NotAgain
  /\ OnlyReconnectConfuses /\ RightCallbackOnce /\ Remembered

USE JsClientAssumption

-----------------------------------------------------------------------------
(* Types.                                                                  *)

\* What the tables hold.
LEMMA Types ==
  ASSUME TypeOK
  PROVE  /\ Len(issued) \in Nat /\ DOMAIN issued = 1..Len(issued)
         /\ \A j \in DOMAIN issued :
              j \in Nat \ {0} /\ issued[j].conn \in Nat /\ issued[j].seqID \in 0..MaxIssues
         /\ \A i \in DOMAIN called :
              called[i].callback \in Commands /\ called[i].reply \in Commands
         /\ \A k \in Commands : k \in Nat \ {0}
         /\ \A id \in 0..MaxIssues : expected[id] \in 0..MaxIssues
         /\ nextSeqID \in Nat /\ connects \in Nat
         /\ handling.callback \in 0..MaxIssues /\ handling.seqID \in 0..MaxIssues
         /\ world.connects \in Nat /\ world.issues \in Nat
         /\ world.connects <= MaxConnects /\ world.issues <= MaxIssues
         /\ MaxIssues \in Nat /\ MaxConnects \in Nat
<1>1. issued \in Seq([conn : 0..MaxConnects, seqID : 0..MaxIssues, wanted : BOOLEAN])
  BY DEF TypeOK
<1>2. called \in Seq([callback : Commands, reply : Commands])
  BY DEF TypeOK
<1>3. world \in [connects : 0..MaxConnects, issues : 0..MaxIssues, replies : Nat,
                 lossy : BOOLEAN, throws : BOOLEAN]
  BY DEF TypeOK
<1>4. handling \in [callback : 0..MaxIssues, seqID : 0..MaxIssues]
  BY DEF TypeOK
<1>5. /\ expected \in [0..MaxIssues -> 0..MaxIssues]
      /\ nextSeqID \in 0..MaxIssues /\ connects \in 0..MaxConnects
  BY DEF TypeOK
<1>6. /\ Len(issued) \in Nat /\ DOMAIN issued = 1..Len(issued)
      /\ \A j \in DOMAIN issued :
           issued[j] \in [conn : 0..MaxConnects, seqID : 0..MaxIssues, wanted : BOOLEAN]
  <2> DEFINE R == [conn : 0..MaxConnects, seqID : 0..MaxIssues, wanted : BOOLEAN]
  <2>1. issued \in Seq(R)
    BY <1>1
  <2> HIDE DEF R
  <2>2. /\ Len(issued) \in Nat /\ DOMAIN issued = 1..Len(issued)
        /\ \A j \in DOMAIN issued : issued[j] \in R
    BY <2>1, LenProperties
  <2> QED BY <2>2 DEF R
<1>7. \A j \in DOMAIN issued :
        j \in Nat \ {0} /\ issued[j].conn \in Nat /\ issued[j].seqID \in 0..MaxIssues
  BY <1>6
<1>8. \A i \in DOMAIN called : called[i] \in [callback : Commands, reply : Commands]
  BY <1>2, LenProperties
<1>9. \A i \in DOMAIN called :
        called[i].callback \in Commands /\ called[i].reply \in Commands
  BY <1>8
<1>10. /\ world.connects \in Nat /\ world.issues \in Nat
       /\ world.connects <= MaxConnects /\ world.issues <= MaxIssues
  BY <1>3
<1>11. handling.callback \in 0..MaxIssues /\ handling.seqID \in 0..MaxIssues
  BY <1>4
<1>12. /\ \A k \in Commands : k \in Nat \ {0}
       /\ \A id \in 0..MaxIssues : expected[id] \in 0..MaxIssues
       /\ nextSeqID \in Nat /\ connects \in Nat
  BY <1>5 DEF Commands
<1> QED BY <1>6, <1>7, <1>9, <1>10, <1>11, <1>12

-----------------------------------------------------------------------------
(* The initial state and the steps.                                        *)

LEMMA InitIInv == Init => IInv
<1> SUFFICES ASSUME Init PROVE IInv
  OBVIOUS
<1>1. /\ world \in Worlds /\ connects = 0 /\ nextSeqID = 0 /\ issued = << >>
      /\ called = << >> /\ posted = << >> /\ handling = None
      /\ socket = [c \in Conns |-> "none"]
      /\ expected = [id \in 0..MaxIssues |-> 0]
      /\ requests = [c \in Conns |-> << >>] /\ incoming = [c \in Conns |-> << >>]
      /\ replied = [c \in Conns |-> 0]
  BY DEF Init
<1>2. world \in [connects : 0..MaxConnects, issues : 0..MaxIssues, replies : Nat,
                 lossy : BOOLEAN, throws : BOOLEAN]
  BY <1>1
<1>3. world.connects \in Nat /\ world.issues \in Nat /\ world.replies \in Nat
  BY <1>2
<1>4. TypeOK
  <2>1. handling \in [callback : 0..MaxIssues, seqID : 0..MaxIssues]
    BY <1>1 DEF None
  <2>2. /\ connects \in 0..MaxConnects /\ nextSeqID \in 0..MaxIssues
        /\ expected \in [0..MaxIssues -> 0..MaxIssues]
        /\ replied \in [Conns -> 0..world.replies]
        /\ socket \in [Conns -> {"none", "connecting", "open", "closed"}]
    BY <1>1, <1>3
  <2>3. /\ issued \in Seq([conn : 0..MaxConnects, seqID : 0..MaxIssues, wanted : BOOLEAN])
        /\ called \in Seq([callback : Commands, reply : Commands])
        /\ posted \in Seq(Messages)
        /\ requests \in [Conns -> Seq(Commands)]
        /\ incoming \in [Conns -> Seq(Messages)]
    BY <1>1
  <2> QED BY <1>1, <2>1, <2>2, <2>3 DEF TypeOK
<1>5. ~Called(0) /\ DOMAIN issued = {} /\ DOMAIN called = {} /\ Idle
  BY <1>1 DEF Called, Idle
<1>6. \A k \in Commands : ~Sent(k)
  BY <1>1 DEF Sent, OnItsWay, ToSet
<1>7. Counted
  BY <1>1, <1>3 DEF Counted
<1>8. SentIsNumbered /\ ExpectedIsLatest /\ CalledWereIssued /\ OneConnection
  BY <1>1, <1>5, <1>6 DEF SentIsNumbered, ExpectedIsLatest, CalledWereIssued, OneConnection
<1>9. HandledIsCalled
  BY <1>1, <1>5 DEF HandledIsCalled, None
<1>10. NotAgain /\ OnlyReconnectConfuses /\ RightCallbackOnce /\ Remembered
  BY <1>5 DEF NotAgain, OnlyReconnectConfuses, RightCallbackOnce, Remembered
<1> QED BY <1>4, <1>7, <1>8, <1>9, <1>10 DEF IInv

\* A step of the server or of a socket passes on what is on its way.
LEMMA PassingKeeps ==
  ASSUME IInv, TypeOK',
         UNCHANGED <<world, connects, nextSeqID, expected, issued, handling, called>>,
         \A k \in Commands : OnItsWay(k)' => OnItsWay(k),
         \A c \in Conns : socket'[c] # "none" => socket[c] # "none",
         \A c \in Conns : socket[c] \in {"open", "closed"} => socket'[c] \in {"open", "closed"}
  PROVE  IInv'
<1>1. \A k \in Commands : Sent(k)' => Sent(k)
  BY DEF Sent
<1>2. Counted' /\ ExpectedIsLatest' /\ CalledWereIssued'
  BY DEF IInv, Counted, ExpectedIsLatest, CalledWereIssued
<1>3. SentIsNumbered'
  BY <1>1 DEF IInv, SentIsNumbered
<1>4. HandledIsCalled'
  BY DEF IInv, HandledIsCalled, Called, Idle
<1>5. OneConnection'
  <2> SUFFICES ASSUME world.connects = 1, ~Idle
               PROVE  connects = 1 /\ socket'[1] \in {"open", "closed"}
    BY DEF OneConnection, Idle
  <2>1. 1 \in Conns
    BY Types DEF IInv, Conns
  <2> QED BY <2>1 DEF IInv, OneConnection
<1>6. NotAgain' /\ OnlyReconnectConfuses' /\ RightCallbackOnce'
  BY DEF IInv, NotAgain, OnlyReconnectConfuses, RightCallbackOnce
<1>7. Remembered'
  <2>1. DOMAIN issued \subseteq Commands
    BY Types DEF IInv, Counted, Commands
  <2> QED BY <2>1 DEF IInv, Remembered, Called
<1> QED BY <1>2, <1>3, <1>4, <1>5, <1>6, <1>7 DEF IInv

LEMMA OpenKeeps ==
  ASSUME IInv, NEW c \in Conns, Open(c)
  PROVE  IInv'
<1>1. /\ UNCHANGED <<world, connects, nextSeqID, expected, issued, requests, replied,
                     posted, incoming, handling, called>>
      /\ socket[c] = "connecting" /\ socket' = [socket EXCEPT ![c] = "open"]
  BY DEF Open, serverVars
<1>2. TypeOK'
  BY <1>1 DEF IInv, TypeOK
<1>3. \A k \in Commands : OnItsWay(k)' => OnItsWay(k)
  BY <1>1 DEF OnItsWay
<1>4. \A d \in Conns : /\ socket'[d] # "none" => socket[d] # "none"
                       /\ socket[d] \in {"open", "closed"} => socket'[d] \in {"open", "closed"}
  BY <1>1 DEF IInv, TypeOK
<1> QED BY <1>1, <1>2, <1>3, <1>4, PassingKeeps

LEMMA CloseKeeps ==
  ASSUME IInv, NEW c \in Conns, Close(c)
  PROVE  IInv'
<1>1. /\ UNCHANGED <<world, connects, nextSeqID, expected, issued, requests, replied,
                     posted, incoming, handling, called>>
      /\ socket[c] \in {"connecting", "open"} /\ socket' = [socket EXCEPT ![c] = "closed"]
  BY DEF Close, serverVars
<1>2. TypeOK'
  BY <1>1 DEF IInv, TypeOK
<1>3. \A k \in Commands : OnItsWay(k)' => OnItsWay(k)
  BY <1>1 DEF OnItsWay
<1>4. \A d \in Conns : /\ socket'[d] # "none" => socket[d] # "none"
                       /\ socket[d] \in {"open", "closed"} => socket'[d] \in {"open", "closed"}
  BY <1>1 DEF IInv, TypeOK
<1> QED BY <1>1, <1>2, <1>3, <1>4, PassingKeeps

\* The types of the queues.
LEMMA Queues ==
  ASSUME TypeOK, NEW c \in Conns
  PROVE  /\ requests[c] \in Seq(Commands) /\ incoming[c] \in Seq(Messages)
         /\ posted \in Seq(Messages)
         /\ \A m \in Messages : m.to \in Commands
<1>1. /\ requests[c] \in Seq(Commands) /\ incoming[c] \in Seq(Messages)
      /\ posted \in Seq(Messages)
  BY DEF TypeOK
<1> QED BY <1>1 DEF Messages

LEMMA PostKeeps ==
  ASSUME IInv, NEW c \in Conns, Post(c)
  PROVE  IInv'
<1>1. /\ UNCHANGED <<world, connects, socket, nextSeqID, expected, issued, requests,
                     incoming, handling, called>>
      /\ requests[c] # << >>
      /\ replied[c] < world.replies /\ replied' = [replied EXCEPT ![c] = @ + 1]
  BY DEF Post
<1>2. /\ requests[c] \in Seq(Commands) /\ posted \in Seq(Messages)
      /\ Head(requests[c]) \in Commands /\ Head(requests[c]) \in ToSet(requests[c])
  BY <1>1, Queues, ToSetTail DEF IInv
<1>3. OnItsWay(Head(requests[c]))
  BY <1>2 DEF OnItsWay
<1>4. \/ UNCHANGED posted
      \/ \E type \in {"response", "other"} :
           posted' = Append(posted, [to |-> Head(requests[c]), type |-> type])
  BY DEF Post
<1>5. posted' \in Seq(Messages) /\ \A m \in ToSet(posted') :
        m \in ToSet(posted) \/ m.to = Head(requests[c])
  <2>1. CASE UNCHANGED posted
    BY <1>2, <2>1
  <2>2. ASSUME NEW type \in {"response", "other"},
               posted' = Append(posted, [to |-> Head(requests[c]), type |-> type])
        PROVE  posted' \in Seq(Messages) /\ \A m \in ToSet(posted') :
                 m \in ToSet(posted) \/ m.to = Head(requests[c])
    <3> DEFINE e == [to |-> Head(requests[c]), type |-> type]
    <3>1. e \in Messages /\ e.to = Head(requests[c])
      BY <1>2 DEF Messages
    <3> HIDE DEF e
    <3>2. Append(posted, e) \in Seq(Messages) /\ ToSet(Append(posted, e)) = ToSet(posted) \cup {e}
      BY <1>2, <3>1, ToSetAppend
    <3>3. posted' = Append(posted, e)
      BY <2>2 DEF e
    <3> QED BY <3>1, <3>2, <3>3
  <2> QED BY <1>4, <2>1, <2>2
<1>6. replied' \in [Conns -> 0..world.replies]
  <2>1. replied \in [Conns -> 0..world.replies] /\ world.replies \in Nat
    BY DEF IInv, TypeOK
  <2> QED BY <1>1, <2>1
<1>7. TypeOK'
  BY <1>1, <1>5, <1>6 DEF IInv, TypeOK
<1>8. \A k \in Commands : OnItsWay(k)' => OnItsWay(k)
  BY <1>1, <1>3, <1>5 DEF OnItsWay
<1> QED BY <1>1, <1>7, <1>8, PassingKeeps

LEMMA DoneKeeps ==
  ASSUME IInv, NEW c \in Conns, Done(c)
  PROVE  IInv'
<1>1. /\ UNCHANGED <<world, connects, socket, nextSeqID, expected, issued, posted,
                     incoming, handling, called>>
      /\ requests[c] # << >> /\ requests' = [requests EXCEPT ![c] = Tail(@)]
      /\ replied' = [replied EXCEPT ![c] = 0]
  BY DEF Done
<1>2. Tail(requests[c]) \in Seq(Commands) /\ ToSet(Tail(requests[c])) \subseteq ToSet(requests[c])
  BY <1>1, Queues, ToSetTail DEF IInv
<1>3. TypeOK'
  <2>1. requests' \in [Conns -> Seq(Commands)]
    BY <1>1, <1>2 DEF IInv, TypeOK
  <2>2. replied' \in [Conns -> 0..world.replies]
    <3>1. replied \in [Conns -> 0..world.replies] /\ world.replies \in Nat
      BY DEF IInv, TypeOK
    <3> QED BY <1>1, <3>1
  <2> QED BY <1>1, <2>1, <2>2 DEF IInv, TypeOK
<1>4. \A d \in Conns : ToSet(requests'[d]) \subseteq ToSet(requests[d])
  BY <1>1, <1>2 DEF IInv, TypeOK
<1>5. \A k \in Commands : OnItsWay(k)' => OnItsWay(k)
  BY <1>1, <1>4 DEF OnItsWay
<1> QED BY <1>1, <1>3, <1>5, PassingKeeps

LEMMA LoseKeeps ==
  ASSUME IInv, NEW c \in Conns, Lose(c)
  PROVE  IInv'
<1>1. PICK i \in DOMAIN requests[c] : requests' = [requests EXCEPT ![c] = RemoveAt(@, i)]
  BY DEF Lose
<1>2. UNCHANGED <<world, connects, socket, nextSeqID, expected, issued, replied, posted,
                 incoming, handling, called>>
  BY DEF Lose
<1>3. /\ RemoveAt(requests[c], i) \in Seq(Commands)
      /\ ToSet(RemoveAt(requests[c], i)) \subseteq ToSet(requests[c])
  BY Queues, ToSetRemove DEF IInv
<1>4. TypeOK'
  <2>1. requests' \in [Conns -> Seq(Commands)]
    BY <1>1, <1>3 DEF IInv, TypeOK
  <2> QED BY <1>2, <2>1 DEF IInv, TypeOK
<1>5. \A d \in Conns : ToSet(requests'[d]) \subseteq ToSet(requests[d])
  BY <1>1, <1>3 DEF IInv, TypeOK
<1>6. \A k \in Commands : OnItsWay(k)' => OnItsWay(k)
  BY <1>2, <1>5 DEF OnItsWay
<1> QED BY <1>2, <1>4, <1>6, PassingKeeps

LEMMA SendKeeps ==
  ASSUME IInv, NEW c \in Conns, Send(c)
  PROVE  IInv'
<1>1. PICK i \in DOMAIN posted :
        /\ posted' = RemoveAt(posted, i)
        /\ \/ incoming' = [incoming EXCEPT ![c] = Append(@, posted[i])]
           \/ UNCHANGED incoming
  BY DEF Send
<1>2. UNCHANGED <<world, connects, socket, nextSeqID, expected, issued, requests, replied,
                 handling, called>>
  BY DEF Send
<1>3. /\ RemoveAt(posted, i) \in Seq(Messages)
      /\ ToSet(RemoveAt(posted, i)) \subseteq ToSet(posted)
      /\ posted[i] \in Messages /\ posted[i] \in ToSet(posted)
      /\ incoming[c] \in Seq(Messages)
  BY Queues, ToSetRemove DEF IInv
<1>4. /\ Append(incoming[c], posted[i]) \in Seq(Messages)
      /\ ToSet(Append(incoming[c], posted[i])) = ToSet(incoming[c]) \cup {posted[i]}
  BY <1>3, ToSetAppend
<1>5. /\ incoming' \in [Conns -> Seq(Messages)]
      /\ \A d \in Conns : ToSet(incoming'[d]) \subseteq ToSet(incoming[d]) \cup ToSet(posted)
  <2> DEFINE longer == Append(incoming[c], posted[i])
  <2>1. incoming \in [Conns -> Seq(Messages)]
    BY DEF IInv, TypeOK
  <2>2. longer \in Seq(Messages) /\ ToSet(longer) \subseteq ToSet(incoming[c]) \cup ToSet(posted)
    BY <1>3, <1>4
  <2>3. incoming' = [incoming EXCEPT ![c] = longer] \/ incoming' = incoming
    BY <1>1
  <2> HIDE DEF longer
  <2>4. CASE incoming' = [incoming EXCEPT ![c] = longer]
    BY <2>1, <2>2, <2>4
  <2>5. CASE incoming' = incoming
    BY <2>1, <2>5
  <2> QED BY <2>3, <2>4, <2>5
<1>6. TypeOK'
  BY <1>1, <1>2, <1>3, <1>5 DEF IInv, TypeOK
<1>7. \A k \in Commands : OnItsWay(k)' => OnItsWay(k)
  BY <1>1, <1>2, <1>3, <1>5 DEF OnItsWay
<1> QED BY <1>2, <1>6, <1>7, PassingKeeps

\* An exception ends the callback.
LEMMA ThrowKeeps ==
  ASSUME IInv, Throw
  PROVE  IInv'
<1>1. /\ UNCHANGED <<world, connects, socket, nextSeqID, expected, issued, requests,
                     replied, posted, incoming, called>>
      /\ world.throws /\ handling' = None
  BY DEF Throw, serverVars
<1>2. TypeOK'
  <2>1. handling' \in [callback : 0..MaxIssues, seqID : 0..MaxIssues]
    BY <1>1 DEF None
  <2> QED BY <1>1, <2>1 DEF IInv, TypeOK
<1>3. (Counted /\ ExpectedIsLatest /\ CalledWereIssued)'
  BY <1>1 DEF IInv, Counted, ExpectedIsLatest, CalledWereIssued
<1>4. SentIsNumbered'
  BY <1>1 DEF IInv, SentIsNumbered, Sent, OnItsWay
<1>5. (HandledIsCalled /\ OneConnection /\ NotAgain)'
  BY <1>1 DEF HandledIsCalled, OneConnection, NotAgain, Idle, None
<1>6. (OnlyReconnectConfuses /\ RightCallbackOnce)'
  BY <1>1 DEF IInv, OnlyReconnectConfuses, RightCallbackOnce
<1>7. Remembered'
  BY <1>1 DEF IInv, Remembered, Called, OnItsWay
<1> QED BY <1>2, <1>3, <1>4, <1>5, <1>6, <1>7 DEF IInv

\* A new connection: its number is above that of every command.
LEMMA ConnectKeeps ==
  ASSUME IInv, Connect
  PROVE  IInv'
<1>1. /\ UNCHANGED <<world, expected, issued, requests, replied, posted, incoming,
                     handling, called>>
      /\ connects < world.connects /\ connects' = connects + 1 /\ nextSeqID' = 0
      /\ socket' = [socket EXCEPT ![connects + 1] = "connecting"]
  BY DEF Connect, serverVars
<1>2. /\ connects \in Nat /\ world.connects \in Nat /\ world.connects <= MaxConnects
      /\ MaxConnects \in Nat /\ Len(issued) \in Nat
      /\ \A j \in DOMAIN issued : issued[j].conn \in Nat
      /\ \A k \in Commands : k \in Nat \ {0}
  BY Types DEF IInv
<1>3. connects' \in 0..MaxConnects /\ connects + 1 \in Conns
  BY <1>1, <1>2 DEF Conns
<1>4. TypeOK'
  <2>1. socket' \in [Conns -> {"none", "connecting", "open", "closed"}]
    BY <1>1, <1>3 DEF IInv, TypeOK
  <2>2. nextSeqID' \in 0..MaxIssues
    BY <1>1
  <2> QED BY <1>1, <1>3, <2>1, <2>2 DEF IInv, TypeOK
<1>5. Counted'
  <2>1. \A c \in Conns : socket'[c] # "none" => c <= connects + 1
    <3>1. \A c \in Conns : c \in Nat /\ (c # connects + 1 => socket'[c] = socket[c])
      BY <1>1 DEF IInv, TypeOK, Conns
    <3> QED BY <1>2, <3>1 DEF IInv, Counted
  <2> QED BY <1>1, <1>2, <2>1 DEF IInv, Counted
<1>6. \A k \in Commands : Sent(k)' <=> Sent(k)
  BY <1>1 DEF Sent, OnItsWay
<1>7. SentIsNumbered'
  <2>1. \A j \in DOMAIN issued : issued[j].conn # connects'
    BY <1>1, <1>2 DEF IInv, Counted
  <2> QED BY <1>1, <1>6, <2>1 DEF IInv, SentIsNumbered
<1>8. (ExpectedIsLatest /\ CalledWereIssued)'
  BY <1>1 DEF IInv, ExpectedIsLatest, CalledWereIssued
<1>9. (HandledIsCalled /\ NotAgain /\ OnlyReconnectConfuses /\ RightCallbackOnce)'
  BY <1>1 DEF IInv, HandledIsCalled, Called, Idle, NotAgain, OnlyReconnectConfuses,
     RightCallbackOnce
<1>10. OneConnection'
  BY <1>1, <1>2 DEF IInv, OneConnection, Idle
<1>11. Remembered'
  BY <1>1 DEF IInv, Remembered, Called, OnItsWay
<1> QED BY <1>4, <1>5, <1>7, <1>8, <1>9, <1>10, <1>11 DEF IInv

\* With one connection no two commands that were sent have the same seqID, so
\* that every reply has been given to its own callback.
LEMMA OneSeqID ==
  ASSUME IInv, world.connects = 1
  PROVE  /\ \A j, k \in Commands :
              Sent(j) /\ Sent(k) /\ issued[j].seqID = issued[k].seqID => j = k
         /\ \A i \in DOMAIN called : called[i].callback = called[i].reply
<1>1. /\ \A j \in DOMAIN issued : issued[j].conn \in Nat /\ issued[j].conn <= 1
      /\ \A k \in Commands : k \in Nat \ {0}
  <2>1. connects \in Nat /\ connects <= 1
    BY Types DEF IInv, Counted
  <2> QED BY <2>1, Types DEF IInv, Counted
<1>2. \A j, k \in Commands :
        Sent(j) /\ Sent(k) /\ issued[j].seqID = issued[k].seqID => j = k
  <2> SUFFICES ASSUME NEW j \in Commands, NEW k \in Commands, Sent(j), Sent(k),
                      issued[j].seqID = issued[k].seqID, j > k
               PROVE  FALSE
    BY <1>1
  <2>1. /\ j \in DOMAIN issued /\ k \in DOMAIN issued /\ issued[k].conn > 0
        /\ issued[j].conn > issued[k].conn
    BY DEF IInv, SentIsNumbered
  <2> QED BY <1>1, <2>1
<1>3. \A i \in DOMAIN called : called[i].callback = called[i].reply
  <2> SUFFICES ASSUME NEW i \in DOMAIN called, called[i].callback # called[i].reply
               PROVE  FALSE
    OBVIOUS
  <2>1. Sent(called[i].reply) /\ called[i].reply \in Commands
    BY Types DEF IInv, Sent
  <2>2. called[i].reply \in DOMAIN issued /\ issued[called[i].reply].conn > 0
    BY <2>1 DEF IInv, SentIsNumbered
  <2>3. /\ called[i].callback \in DOMAIN issued
        /\ issued[called[i].reply].conn < issued[called[i].callback].conn
    BY DEF IInv, CalledWereIssued, OnlyReconnectConfuses
  <2> QED BY <1>1, <2>2, <2>3
<1> QED BY <1>2, <1>3

\* The callback has ended, and what its seqID stands for is forgotten.
LEMMA ReturnPreserves ==
  ASSUME IInv, Return
  PROVE  IInv'
<1>1. /\ UNCHANGED <<world, connects, socket, nextSeqID, issued, requests, replied,
                     posted, incoming, called>>
      /\ ~Idle /\ handling' = None
      /\ expected' = [expected EXCEPT ![handling.seqID] = 0]
  BY DEF Return, serverVars
<1>2. /\ expected \in [0..MaxIssues -> 0..MaxIssues] /\ handling.seqID \in 0..MaxIssues
      /\ 0 \in 0..MaxIssues
  <2>1. expected \in [0..MaxIssues -> 0..MaxIssues]
    BY DEF IInv, TypeOK
  <2>2. handling.seqID \in 0..MaxIssues
    BY Types DEF IInv
  <2>3. 0 \in 0..MaxIssues
    OBVIOUS
  <2> QED BY <2>1, <2>2, <2>3
<1>3. /\ expected' \in [0..MaxIssues -> 0..MaxIssues]
      /\ \A id \in 0..MaxIssues : expected'[id] = expected[id] \/ expected'[id] = 0
      /\ \A id \in 0..MaxIssues : id # handling.seqID => expected'[id] = expected[id]
      /\ expected'[handling.seqID] = 0
  BY <1>1, <1>2
<1>4. TypeOK'
  <2>1. handling' \in [callback : 0..MaxIssues, seqID : 0..MaxIssues]
    BY <1>1, <1>2 DEF None
  <2> QED BY <1>1, <1>3, <2>1 DEF IInv, TypeOK
<1>5. (Counted /\ CalledWereIssued)'
  BY <1>1 DEF IInv, Counted, CalledWereIssued
<1>6. ExpectedIsLatest'
  BY <1>1, <1>3 DEF IInv, ExpectedIsLatest
<1>7. SentIsNumbered'
  BY <1>1 DEF IInv, SentIsNumbered, Sent, OnItsWay
<1>8. (HandledIsCalled /\ OneConnection)'
  BY <1>1 DEF HandledIsCalled, OneConnection, Idle, None
<1>9. (OnlyReconnectConfuses /\ RightCallbackOnce)'
  BY <1>1 DEF IInv, OnlyReconnectConfuses, RightCallbackOnce
<1>10. handling.callback # 0 /\ Called(handling.callback) /\ handling.callback \in DOMAIN issued
       /\ issued[handling.callback].seqID = handling.seqID
  BY <1>1 DEF IInv, HandledIsCalled
<1>11. NotAgain'
  <2> SUFFICES ASSUME world.connects = 1, ~world.throws, NEW i \in DOMAIN called
               PROVE  expected'[issued[called[i].callback].seqID] # called[i].callback
    BY <1>1 DEF NotAgain
  <2>1. /\ called[i].callback # 0 /\ called[i].callback \in DOMAIN issued
        /\ issued[called[i].callback].seqID \in 0..MaxIssues
    BY Types DEF IInv, CalledWereIssued
  <2>2. CASE handling.callback = called[i].callback
    BY <1>3, <1>10, <2>1, <2>2
  <2>3. CASE expected[issued[called[i].callback].seqID] # called[i].callback
    BY <1>3, <2>1, <2>3
  <2> QED BY <2>2, <2>3 DEF IInv, NotAgain
<1>12. Remembered'
  <2> SUFFICES ASSUME world.connects = 1, NEW k \in DOMAIN issued,
                      issued[k].wanted, OnItsWay(k), ~Called(k)
               PROVE  expected'[issued[k].seqID] = k
    BY <1>1 DEF Remembered, Called, OnItsWay
  <2>1. expected[issued[k].seqID] = k
    BY DEF IInv, Remembered
  <2>2. k \in Commands /\ issued[k].seqID \in 0..MaxIssues
    BY Types DEF IInv, Counted, Commands
  <2>3. issued[k].seqID # handling.seqID
    <3>1. PICK i \in DOMAIN called : called[i].callback = handling.callback
      BY <1>10 DEF Called
    <3>2. /\ called[i].callback = called[i].reply /\ called[i].reply \in Commands
          /\ Sent(called[i].reply)
      BY OneSeqID, Types DEF IInv, Sent
    <3>3. Sent(k) /\ k # handling.callback
      BY <1>10 DEF Sent
    <3> QED BY <1>10, <2>2, <3>1, <3>2, <3>3, OneSeqID
  <2> QED BY <1>3, <2>1, <2>2, <2>3
<1> QED BY <1>4, <1>5, <1>6, <1>7, <1>8, <1>9, <1>11, <1>12 DEF IInv

\* A reply finds the callback of the last command with its seqID.
LEMMA ReceiveKeeps ==
  ASSUME IInv, NEW c \in Conns, Receive(c)
  PROVE  IInv'
<1> DEFINE message == Head(incoming[c])
           r == message.to
           id == issued[r].seqID
           k == expected[id]
<1>1. /\ UNCHANGED <<world, connects, socket, nextSeqID, expected, issued, requests,
                     replied, posted>>
      /\ Idle /\ socket[c] = "open" /\ incoming[c] # << >>
      /\ incoming' = [incoming EXCEPT ![c] = Tail(@)]
      /\ \/ UNCHANGED <<handling, called>>
         \/ /\ k # 0
            /\ handling' = [callback |-> k, seqID |-> id]
            /\ called' = Append(called, [callback |-> k, reply |-> r])
  BY DEF Receive, serverVars
<1>2. /\ Tail(incoming[c]) \in Seq(Messages)
      /\ ToSet(Tail(incoming[c])) \subseteq ToSet(incoming[c])
      /\ message \in Messages /\ message \in ToSet(incoming[c]) /\ r \in Commands
  BY <1>1, Queues, ToSetTail DEF IInv
<1>3. /\ incoming' \in [Conns -> Seq(Messages)]
      /\ \A d \in Conns : ToSet(incoming'[d]) \subseteq ToSet(incoming[d])
  BY <1>1, <1>2 DEF IInv, TypeOK
<1> HIDE DEF message
<1>4. /\ OnItsWay(r) /\ Sent(r)
      /\ \A j \in Commands : OnItsWay(j)' => OnItsWay(j)
  BY <1>1, <1>2, <1>3 DEF OnItsWay, Sent
<1>5. CASE UNCHANGED <<handling, called>>
  <2>1. TypeOK'
    BY <1>1, <1>3, <1>5 DEF IInv, TypeOK
  <2> QED BY <1>1, <1>4, <1>5, <2>1, PassingKeeps
<1>6. CASE /\ k # 0
           /\ handling' = [callback |-> k, seqID |-> id]
           /\ called' = Append(called, [callback |-> k, reply |-> r])
  <2>1. /\ r \in DOMAIN issued /\ issued[r].conn > 0
        /\ \A j \in DOMAIN issued :
             j > r /\ issued[j].seqID = id => issued[j].conn > issued[r].conn
    BY <1>2, <1>4 DEF IInv, SentIsNumbered
  <2>2. id \in 0..MaxIssues /\ k \in 0..MaxIssues
    BY <2>1, Types DEF IInv
  <2>3. /\ k \in DOMAIN issued /\ issued[k].seqID = id /\ k \in Commands
        /\ \A j \in DOMAIN issued : j > k => issued[j].seqID # id
    BY <1>6, <2>2 DEF IInv, ExpectedIsLatest, Commands
  <2>4. k # r => issued[r].conn < issued[k].conn
    <3>1. k \in Nat /\ r \in Nat /\ issued[r].conn \in Nat /\ issued[k].conn \in Nat
      BY <2>1, <2>3, Types DEF IInv
    <3> QED BY <2>1, <2>3, <3>1
  <2>18. expected[issued[k].seqID] = k
    BY <2>3
  <2>19. handling.callback = 0 /\ \A i \in DOMAIN called :
           called[i].callback \in Commands /\ called[i].callback # 0
    BY <1>1, Types DEF IInv, Idle, None
  <2> HIDE DEF k, id, r
  <2> DEFINE call == [callback |-> k, reply |-> r]
  <2>5. /\ called' \in Seq([callback : Commands, reply : Commands])
        /\ \A i \in DOMAIN called' :
             \/ i \in DOMAIN called /\ called'[i] = called[i]
             \/ /\ called'[i].callback = k /\ called'[i].reply = r
                /\ \A j \in DOMAIN called' : j # i => j \in DOMAIN called
        /\ \A i \in DOMAIN called : i \in DOMAIN called' /\ called'[i] = called[i]
        /\ \E i \in DOMAIN called' : called'[i].callback = k
    <3>1. /\ call \in [callback : Commands, reply : Commands]
          /\ call.callback = k /\ call.reply = r
      BY <1>2, <2>3
    <3> HIDE DEF call
    <3>2. called \in Seq([callback : Commands, reply : Commands])
      BY DEF IInv, TypeOK
    <3>3. /\ Append(called, call) \in Seq([callback : Commands, reply : Commands])
          /\ DOMAIN called = 1..Len(called)
          /\ DOMAIN Append(called, call) = 1..(Len(called) + 1)
          /\ \A i \in 1..Len(called) : Append(called, call)[i] = called[i]
          /\ Append(called, call)[Len(called) + 1] = call
          /\ Len(called) \in Nat
      BY <3>1, <3>2, AppendProperties, LenProperties
    <3>4. called' = Append(called, call)
      BY <1>6 DEF call
    <3> QED BY <3>1, <3>3, <3>4
  <2>6. handling'.callback = k /\ handling'.seqID = id /\ handling' # None
        /\ handling' \in [callback : 0..MaxIssues, seqID : 0..MaxIssues]
    BY <1>6, <2>2 DEF None
  <2>7. TypeOK'
    BY <1>1, <1>3, <2>5, <2>6 DEF IInv, TypeOK
  <2>8. Counted' /\ ExpectedIsLatest'
    BY <1>1 DEF IInv, Counted, ExpectedIsLatest
  <2>9. \A j \in Commands : Sent(j)' => Sent(j)
    BY <1>4, <2>5 DEF Sent
  <2>10. SentIsNumbered'
    BY <1>1, <2>9 DEF IInv, SentIsNumbered
  <2>11. HandledIsCalled'
    BY <1>1, <1>6, <2>3, <2>5, <2>6 DEF HandledIsCalled, Called, Idle
  <2>12. CalledWereIssued'
    BY <1>1, <2>3, <2>5 DEF IInv, CalledWereIssued
  <2>13. OneConnection'
    <3>1. c \in Nat \ {0} /\ c <= connects /\ connects \in Nat /\ connects <= world.connects
      BY <1>1, Types DEF IInv, Counted, Conns
    <3> QED BY <1>1, <3>1 DEF OneConnection
  <2>14. OnlyReconnectConfuses'
    BY <1>1, <2>1, <2>3, <2>4, <2>5 DEF IInv, OnlyReconnectConfuses, id
  <2>20. ASSUME world.connects = 1, ~world.throws, NEW i \in DOMAIN called
         PROVE  expected[issued[called[i].callback].seqID] # called[i].callback
    BY <2>19, <2>20 DEF IInv, NotAgain
  <2>15. NotAgain'
    <3> SUFFICES ASSUME world.connects = 1, ~world.throws, NEW i \in DOMAIN called',
                        handling'.callback # called'[i].callback
                 PROVE  expected[issued[called'[i].callback].seqID] # called'[i].callback
      BY <1>1 DEF NotAgain
    <3>1. i \in DOMAIN called /\ called'[i] = called[i]
      BY <2>5, <2>6
    <3> QED BY <2>20, <3>1
  <2>16. RightCallbackOnce'
    <3> SUFFICES ASSUME world.connects = 1, ~world.throws, NEW i \in DOMAIN called'
                 PROVE  /\ called'[i].callback = called'[i].reply
                        /\ \A j \in DOMAIN called' :
                             called'[i].callback = called'[j].callback => i = j
      BY <1>1 DEF RightCallbackOnce
    <3>1. called'[i].callback = called'[i].reply
      <4>1. issued[k].conn \in Nat /\ issued[k].conn <= 1 /\ issued[r].conn \in Nat
        <5>1. connects \in Nat /\ connects <= 1 /\ issued[k].conn <= connects
          BY <2>3, Types DEF IInv, Counted
        <5> QED BY <2>1, <2>3, <5>1, Types DEF IInv
      <4>2. k = r
        BY <2>1, <2>4, <4>1
      <4> QED BY <2>5, <4>2, OneSeqID
    <3>2. ASSUME NEW j \in DOMAIN called', called'[i].callback = called'[j].callback, i # j
          PROVE  FALSE
      <4>1. CASE i \in DOMAIN called /\ j \in DOMAIN called
        BY <2>5, <3>2, <4>1 DEF IInv, RightCallbackOnce
      <4>2. ASSUME NEW n \in DOMAIN called, called[n].callback = k
            PROVE  FALSE
        BY <2>18, <2>20, <4>2
      <4>3. CASE i \notin DOMAIN called
        BY <2>5, <3>2, <4>2, <4>3
      <4>4. CASE j \notin DOMAIN called
        BY <2>5, <3>2, <4>2, <4>4
      <4> QED BY <4>1, <4>3, <4>4
    <3> QED BY <3>1, <3>2
  <2>17. Remembered'
    <3> SUFFICES ASSUME world.connects = 1, NEW j \in DOMAIN issued, issued[j].wanted,
                        OnItsWay(j)', ~Called(j)'
                 PROVE  expected[issued[j].seqID] = j
      BY <1>1 DEF Remembered
    <3>1. j \in Commands
      BY Types DEF IInv, Counted, Commands
    <3>2. OnItsWay(j) /\ ~Called(j)
      BY <1>4, <2>5, <3>1 DEF Called
    <3> QED BY <3>2 DEF IInv, Remembered
  <2> QED BY <2>7, <2>8, <2>10, <2>11, <2>12, <2>13, <2>14, <2>15, <2>16, <2>17 DEF IInv
<1> QED BY <1>1, <1>5, <1>6

\* A command is sent, if at all, under a seqID that this connection has not used.
LEMMA IssueKeeps ==
  ASSUME IInv, NEW wanted \in BOOLEAN, Issue(wanted)
  PROVE  IInv'
<1> DEFINE k == Len(issued) + 1
           call == [conn |-> connects, seqID |-> nextSeqID, wanted |-> wanted]
           throws == IF connects = 0 THEN TRUE ELSE socket[connects] = "connecting"
<1>1. /\ UNCHANGED <<world, connects, socket, replied, posted, incoming, called>>
      /\ k <= world.issues /\ issued' = Append(issued, call)
      /\ expected' = [expected EXCEPT ![nextSeqID] = IF wanted THEN k ELSE 0]
      /\ \/ /\ throws /\ handling' \in {handling, None}
            /\ UNCHANGED <<nextSeqID, requests>>
         \/ /\ ~throws /\ nextSeqID' = nextSeqID + 1 /\ UNCHANGED handling
            /\ requests' = [requests EXCEPT ![connects] =
                              IF socket[connects] = "open" THEN Append(@, k) ELSE @]
  BY DEF Issue
<1>2. /\ Len(issued) \in Nat /\ nextSeqID \in Nat /\ nextSeqID <= Len(issued)
      /\ connects \in Nat /\ connects <= MaxConnects
      /\ world.issues \in Nat /\ world.issues <= MaxIssues
  BY Types DEF IInv, Counted
<1>3. /\ k \in Nat \ {0} /\ k \in Commands /\ k \in 0..MaxIssues /\ k \notin DOMAIN issued
      /\ nextSeqID \in 0..MaxIssues /\ nextSeqID + 1 <= k
  BY <1>1, <1>2, Types DEF IInv, Commands
<1>4. /\ call \in [conn : 0..MaxConnects, seqID : 0..MaxIssues, wanted : BOOLEAN]
      /\ call.conn = connects /\ call.seqID = nextSeqID /\ call.wanted = wanted
  BY <1>2, <1>3
<1> HIDE DEF call, throws
<1>5. /\ issued' \in Seq([conn : 0..MaxConnects, seqID : 0..MaxIssues, wanted : BOOLEAN])
      /\ Len(issued') = k
      /\ DOMAIN issued = 1..Len(issued) /\ DOMAIN issued' = 1..k
      /\ \A j \in DOMAIN issued : j \in DOMAIN issued' /\ issued'[j] = issued[j]
      /\ issued'[k] = call /\ k \in DOMAIN issued'
      /\ \A j \in DOMAIN issued' : j \in DOMAIN issued \/ j = k
      /\ \A j \in DOMAIN issued : j \in Nat /\ j < k
  <2>1. issued \in Seq([conn : 0..MaxConnects, seqID : 0..MaxIssues, wanted : BOOLEAN])
    BY DEF IInv, TypeOK
  <2>2. /\ Append(issued, call) \in Seq([conn : 0..MaxConnects, seqID : 0..MaxIssues, wanted : BOOLEAN])
        /\ Len(Append(issued, call)) = k
        /\ DOMAIN issued = 1..Len(issued) /\ DOMAIN Append(issued, call) = 1..k
        /\ \A i \in 1..Len(issued) : Append(issued, call)[i] = issued[i]
        /\ Append(issued, call)[k] = call
    BY <1>4, <2>1, AppendProperties, LenProperties
  <2>3. issued' = Append(issued, call)
    BY <1>1
  <2> QED BY <1>2, <2>2, <2>3
<1> HIDE DEF k
<1>6. /\ expected' \in [0..MaxIssues -> 0..MaxIssues]
      /\ expected'[nextSeqID] = IF wanted THEN k ELSE 0
      /\ \A id \in 0..MaxIssues : id # nextSeqID => expected'[id] = expected[id]
  <2> DEFINE next == IF wanted THEN k ELSE 0
  <2>1. expected \in [0..MaxIssues -> 0..MaxIssues] /\ next \in 0..MaxIssues
    <3>1. expected \in [0..MaxIssues -> 0..MaxIssues]
      BY DEF IInv, TypeOK
    <3>2. k \in 0..MaxIssues /\ 0 \in 0..MaxIssues
      BY <1>3
    <3> QED BY <3>1, <3>2
  <2>2. expected' = [expected EXCEPT ![nextSeqID] = next]
    BY <1>1
  <2> HIDE DEF next
  <2>3. /\ expected' \in [0..MaxIssues -> 0..MaxIssues] /\ expected'[nextSeqID] = next
        /\ \A id \in 0..MaxIssues : id # nextSeqID => expected'[id] = expected[id]
    BY <1>3, <2>1, <2>2
  <2> QED BY <2>3 DEF next
<1>7. /\ requests' \in [Conns -> Seq(Commands)]
      /\ \A d \in Conns : \A j \in ToSet(requests'[d]) :
           j \in ToSet(requests[d]) \/ (j = k /\ ~throws)
  <2>1. requests \in [Conns -> Seq(Commands)]
    BY DEF IInv, TypeOK
  <2>2. CASE throws
    BY <1>1, <2>1, <2>2
  <2>3. CASE ~throws
    <3>1. connects \in Conns
      BY <1>2, <2>3 DEF throws, Conns
    <3>2. /\ Append(requests[connects], k) \in Seq(Commands)
          /\ ToSet(Append(requests[connects], k)) = ToSet(requests[connects]) \cup {k}
      BY <1>3, <2>1, <3>1, ToSetAppend
    <3>3. CASE socket[connects] = "open"
      <4>1. requests' = [requests EXCEPT ![connects] = Append(requests[connects], k)]
        BY <1>1, <2>3, <3>3
      <4> QED BY <2>1, <2>3, <3>1, <3>2, <4>1
    <3>4. CASE socket[connects] # "open"
      <4>1. requests' = [requests EXCEPT ![connects] = requests[connects]]
        BY <1>1, <2>3, <3>4
      <4> QED BY <2>1, <3>1, <4>1
    <3> QED BY <3>3, <3>4
  <2> QED BY <2>2, <2>3
<1>8. nextSeqID' \in 0..MaxIssues /\ nextSeqID' <= k /\ nextSeqID' >= nextSeqID
      /\ (~throws => nextSeqID' = nextSeqID + 1 /\ connects > 0)
  <2>1. k <= MaxIssues
    BY <1>3
  <2>2. ~throws => connects > 0
    BY <1>2 DEF throws
  <2> QED BY <1>1, <1>2, <1>3, <2>1, <2>2
<1>9. TypeOK'
  <2>1. handling' \in [callback : 0..MaxIssues, seqID : 0..MaxIssues]
    <3>1. None \in [callback : 0..MaxIssues, seqID : 0..MaxIssues]
      BY <1>3 DEF None
    <3>2. handling \in [callback : 0..MaxIssues, seqID : 0..MaxIssues]
      BY DEF IInv, TypeOK
    <3> QED BY <1>1, <3>1, <3>2
  <2> QED BY <1>1, <1>5, <1>6, <1>7, <1>8, <2>1 DEF IInv, TypeOK
<1>10. Counted'
  BY <1>1, <1>2, <1>3, <1>4, <1>5, <1>8 DEF IInv, Counted
<1>11. \A j \in Commands :
         /\ OnItsWay(j)' => OnItsWay(j) \/ (j = k /\ ~throws)
         /\ Sent(j)' => Sent(j) \/ (j = k /\ ~throws)
  BY <1>1, <1>7 DEF OnItsWay, Sent
<1>12. SentIsNumbered'
  <2> SUFFICES ASSUME NEW j \in Commands, Sent(j)'
               PROVE  /\ j \in DOMAIN issued' /\ issued'[j].conn > 0
                      /\ issued'[j].conn = connects => issued'[j].seqID < nextSeqID'
                      /\ \A i \in DOMAIN issued' :
                           i > j /\ issued'[i].seqID = issued'[j].seqID
                             => issued'[i].conn > issued'[j].conn
    BY <1>1 DEF SentIsNumbered
  <2>1. CASE j = k /\ ~throws
    BY <1>2, <1>3, <1>4, <1>5, <1>8, <2>1
  <2>2. CASE Sent(j)
    <3>1. /\ j \in DOMAIN issued /\ issued[j].conn > 0
          /\ issued[j].conn = connects => issued[j].seqID < nextSeqID
          /\ \A i \in DOMAIN issued :
               i > j /\ issued[i].seqID = issued[j].seqID => issued[i].conn > issued[j].conn
      BY <2>2 DEF IInv, SentIsNumbered
    <3>2. /\ issued[j].conn \in Nat /\ issued[j].seqID \in Nat /\ issued[j].conn <= connects
          /\ nextSeqID' \in Nat
      BY <1>8, <3>1, Types DEF IInv, Counted
    <3>3. /\ j \in DOMAIN issued' /\ issued'[j] = issued[j]
          /\ issued[j].conn = connects => issued[j].seqID < nextSeqID'
      BY <1>2, <1>5, <1>8, <3>1, <3>2
    <3>4. issued'[k].seqID = issued[j].seqID => issued'[k].conn > issued[j].conn
      BY <1>2, <1>4, <1>5, <3>1, <3>2
    <3> QED BY <1>5, <3>1, <3>3, <3>4
  <2> QED BY <1>11, <2>1, <2>2
<1>13. ExpectedIsLatest'
  <2> SUFFICES ASSUME NEW id \in 0..MaxIssues, expected'[id] # 0
               PROVE  /\ expected'[id] \in DOMAIN issued' /\ issued'[expected'[id]].seqID = id
                      /\ \A j \in DOMAIN issued' : j > expected'[id] => issued'[j].seqID # id
    BY DEF ExpectedIsLatest
  <2>1. CASE id = nextSeqID
    <3>1. expected'[id] = k
      BY <1>6, <2>1
    <3>2. \A j \in DOMAIN issued' : ~(j > k)
      BY <1>3, <1>5
    <3> QED BY <1>4, <1>5, <2>1, <3>1, <3>2
  <2>2. CASE id # nextSeqID
    <3>1. expected'[id] = expected[id]
      BY <1>6, <2>2
    <3>2. /\ expected[id] \in DOMAIN issued /\ issued[expected[id]].seqID = id
          /\ \A j \in DOMAIN issued : j > expected[id] => issued[j].seqID # id
      BY <3>1 DEF IInv, ExpectedIsLatest
    <3> QED BY <1>4, <1>5, <2>2, <3>1, <3>2
  <2> QED BY <2>1, <2>2
<1>14. HandledIsCalled'
  <2>1. \A n : Called(n)' <=> Called(n)
    BY <1>1 DEF Called
  <2>2. CASE handling' = handling
    BY <1>5, <2>1, <2>2 DEF IInv, HandledIsCalled, Idle
  <2>3. CASE handling' = None
    BY <2>3 DEF HandledIsCalled, Idle, None
  <2> QED BY <1>1, <2>2, <2>3
<1>15. \A i \in DOMAIN called :
         /\ called[i].callback \in DOMAIN issued /\ called[i].reply \in DOMAIN issued
         /\ called[i].callback # k
         /\ issued'[called[i].callback] = issued[called[i].callback]
         /\ issued'[called[i].reply] = issued[called[i].reply]
         /\ issued[called[i].callback].seqID \in 0..MaxIssues
  <2> SUFFICES ASSUME NEW i \in DOMAIN called
               PROVE  /\ called[i].callback \in DOMAIN issued
                      /\ called[i].reply \in DOMAIN issued
                      /\ called[i].callback # k
                      /\ issued'[called[i].callback] = issued[called[i].callback]
                      /\ issued'[called[i].reply] = issued[called[i].reply]
                      /\ issued[called[i].callback].seqID \in 0..MaxIssues
    OBVIOUS
  <2>1. called[i].reply \in Commands /\ Sent(called[i].reply)
    BY Types DEF IInv, Sent
  <2>2. called[i].reply \in DOMAIN issued /\ called[i].callback \in DOMAIN issued
    BY <2>1 DEF IInv, SentIsNumbered, CalledWereIssued
  <2> QED BY <1>3, <1>5, <2>2, Types DEF IInv
<1>16. CalledWereIssued'
  BY <1>1, <1>5, <1>15 DEF CalledWereIssued
<1>17. OneConnection'
  <2>1. ~Idle' => ~Idle
    BY <1>1 DEF Idle
  <2> QED BY <1>1, <2>1 DEF IInv, OneConnection
<1>18. world.connects = 1 /\ ~Idle => handling' = handling
  <2> SUFFICES ASSUME world.connects = 1, ~Idle PROVE ~throws
    BY <1>1
  <2> QED BY DEF IInv, OneConnection, throws
<1>19. NotAgain'
  <2> SUFFICES ASSUME world.connects = 1, ~world.throws, NEW i \in DOMAIN called,
                      handling'.callback # called[i].callback
               PROVE  expected'[issued'[called[i].callback].seqID] # called[i].callback
    BY <1>1 DEF NotAgain
  <2>1. called[i].callback # 0
    BY Types DEF IInv
  <2>2. handling.callback # called[i].callback
    BY <1>18, <2>1 DEF Idle, None
  <2>3. expected[issued[called[i].callback].seqID] # called[i].callback
    BY <2>2 DEF IInv, NotAgain
  <2> DEFINE id == issued[called[i].callback].seqID
  <2>4. id \in 0..MaxIssues /\ issued'[called[i].callback].seqID = id
    BY <1>15
  <2>5. called[i].callback # k
    BY <1>15
  <2> HIDE DEF id
  <2>6. CASE id = nextSeqID
    BY <1>6, <2>1, <2>4, <2>5, <2>6
  <2>7. CASE id # nextSeqID
    BY <1>6, <2>3, <2>4, <2>7 DEF id
  <2> QED BY <2>6, <2>7
<1>20. OnlyReconnectConfuses'
  BY <1>1, <1>15 DEF IInv, OnlyReconnectConfuses
<1>21. RightCallbackOnce'
  BY <1>1 DEF IInv, RightCallbackOnce
<1>22. Remembered'
  <2> SUFFICES ASSUME world.connects = 1, NEW j \in DOMAIN issued', issued'[j].wanted,
                      OnItsWay(j)', ~Called(j)
               PROVE  expected'[issued'[j].seqID] = j
    BY <1>1 DEF Remembered, Called
  <2>1. CASE j = k
    BY <1>4, <1>5, <1>6, <2>1
  <2>2. CASE j \in DOMAIN issued /\ j # k
    <3>1. j \in Commands /\ issued[j].seqID \in 0..MaxIssues /\ issued[j].conn \in Nat
      BY <2>2, Types DEF IInv, Counted, Commands
    <3>2. OnItsWay(j) /\ Sent(j)
      BY <1>11, <2>2, <3>1 DEF Sent
    <3>3. expected[issued[j].seqID] = j
      BY <1>5, <2>2, <3>2 DEF IInv, Remembered
    <3>4. issued[j].seqID < nextSeqID
      <4>1. /\ issued[j].conn > 0 /\ issued[j].conn <= connects /\ connects <= 1
            /\ issued[j].conn = connects => issued[j].seqID < nextSeqID
        BY <2>2, <3>1, <3>2 DEF IInv, SentIsNumbered, Counted
      <4> QED BY <1>2, <3>1, <4>1
    <3>5. issued[j].seqID # nextSeqID
      BY <1>2, <3>1, <3>4
    <3>6. expected'[issued[j].seqID] = j
      BY <1>6, <3>1, <3>3, <3>5
    <3> QED BY <1>5, <2>2, <3>6
  <2> QED BY <1>5, <2>1, <2>2
<1> QED BY <1>9, <1>10, <1>12, <1>13, <1>14, <1>16, <1>17, <1>19, <1>20, <1>21, <1>22 DEF IInv

LEMMA NextKeeps ==
  ASSUME IInv, [Next]_vars
  PROVE  IInv'
<1>1. CASE UNCHANGED vars
  <2>1. /\ UNCHANGED <<world, connects, socket, nextSeqID, expected, issued, requests,
                       replied, posted, incoming, handling, called>>
    BY <1>1 DEF vars
  <2>2. TypeOK' /\ \A k \in Commands : OnItsWay(k)' => OnItsWay(k)
    BY <2>1 DEF IInv, TypeOK, OnItsWay
  <2> QED BY <2>1, <2>2, PassingKeeps
<1>2. CASE Connect
  BY <1>2, ConnectKeeps
<1>3. CASE \E wanted \in BOOLEAN : Issue(wanted)
  BY <1>3, IssueKeeps
<1>4. CASE Return
  BY <1>4, ReturnPreserves
<1>5. CASE Throw
  BY <1>5, ThrowKeeps
<1>6. ASSUME NEW c \in Conns,
             Receive(c) \/ Open(c) \/ Close(c) \/ Post(c) \/ Done(c) \/ Lose(c) \/ Send(c)
      PROVE  IInv'
  BY <1>6, ReceiveKeeps, OpenKeeps, CloseKeeps, PostKeeps, DoneKeeps, LoseKeeps, SendKeeps
<1> QED BY <1>1, <1>2, <1>3, <1>4, <1>5, <1>6 DEF Next

-----------------------------------------------------------------------------
(* The theorems.                                                           *)

\* In every reachable state a seqID in use belongs to one command of the
\* connection, and the callback expected under it is the last command's.
THEOREM Invariance == Spec => []IInv
<1>1. Init => IInv
  BY InitIInv
<1>2. IInv /\ [Next]_vars => IInv'
  BY NextKeeps
<1> QED BY <1>1, <1>2, PTL DEF Spec

\* The seqIDs stay within the commands issued, and no callback is called that
\* was not registered.
THEOREM TypeCorrect == Spec => []TypeOK
<1>1. IInv => TypeOK
  BY DEF IInv
<1> QED BY <1>1, Invariance, PTL

\* replyhandler gives a reply to another command's callback only if the page has
\* connected again in between.
THEOREM ReconnectAlone == Spec => []OnlyReconnectConfuses
<1>1. IInv => OnlyReconnectConfuses
  BY DEF IInv
<1> QED BY <1>1, Invariance, PTL

\* On one connection a callback gets its own command's reply, and only one.
THEOREM OwnCallbackOnce == Spec => []RightCallbackOnce
<1>1. IInv => RightCallbackOnce
  BY DEF IInv
<1> QED BY <1>1, Invariance, PTL

\* On one connection a callback stays registered until its reply arrives.
THEOREM StaysRegistered == Spec => []Remembered
<1>1. IInv => Remembered
  BY DEF IInv
<1> QED BY <1>1, Invariance, PTL

-----------------------------------------------------------------------------
(***************************************************************************)
(* The round trip: Headcrab's server implements the one that JsClient      *)
(* assumes, for every page, every world and every size of the queues that  *)
(* Fits.  The page's variables are the ones above.                         *)
(***************************************************************************)

CONSTANTS InCapacity, OutCapacity

VARIABLES up, inq, cur, posts, outq, held, status

Round == INSTANCE Headcrab

\* From here on it is cited where it is needed.
HIDE JsClientAssumption

-----------------------------------------------------------------------------
(* Counting up.                                                            *)

\* Induction up to n, over a set: a finite set that a shift by one maps into
\* itself has no least element to spare.
LEMMA Climb ==
  ASSUME NEW n \in Nat, NEW S, 0 \in S, \A k \in 0..(n - 1) : k \in S => k + 1 \in S
  PROVE  0..n \subseteq S
<1> DEFINE T == {k \in 0..n : k \notin S}
<1> SUFFICES ASSUME T # {} PROVE FALSE
  OBVIOUS
<1>1. IsFiniteSet(T) /\ IsFiniteSet(0..n)
  <2>1. IsFiniteSet(0..n)
    BY FS_Interval
  <2> QED BY <2>1, FS_Subset
<1>2. \A k \in T : k \in 1..n /\ k - 1 \in T
  <2> TAKE k \in T
  <2>1. k \in 0..n /\ k # 0
    OBVIOUS
  <2>2. k - 1 \in 0..(n - 1) /\ (k - 1) + 1 = k
    BY <2>1
  <2> QED BY <2>1, <2>2
<1>3. \A k \in T : k + 1 \in T
  <2> DEFINE down == [k \in T |-> k - 1]
  <2>1. down \in Injection(T, T)
    <3>1. \A i, j \in T : i - 1 = j - 1 => i = j
      BY <1>2
    <3> QED BY <1>2, <3>1 DEF Injection, IsInjective
  <2>2. down \in Surjection(T, T)
    BY <1>1, <2>1, FS_Injection
  <2>3. \A k \in T : \E j \in T : k = j - 1
    BY <2>2 DEF Surjection
  <2> QED BY <1>2, <2>3
<1> DEFINE D == {k \in 0..n : \E t \in T : k <= t}
           next == [k \in D |-> k + 1]
<1>4. \A k \in D : k + 1 \in D
  <2> SUFFICES ASSUME NEW k \in D PROVE k + 1 \in D
    OBVIOUS
  <2>1. PICK t \in T : k <= t
    OBVIOUS
  <2>2. t + 1 \in T /\ k + 1 <= t + 1
    BY <1>2, <1>3, <2>1
  <2> QED BY <1>2, <2>2
<1>5. 0 \in D
  BY <1>2
<1>6. IsFiniteSet(D)
  BY <1>1, FS_Subset
<1>7. next \in Injection(D, D)
  BY <1>4 DEF Injection, IsInjective
<1>8. next \in Surjection(D, D)
  BY <1>6, <1>7, FS_Injection
<1>9. \E k \in D : k + 1 = 0
  BY <1>5, <1>8 DEF Surjection
<1> QED BY <1>9

-----------------------------------------------------------------------------
(* Recursive functions up to n, as the operators on sequences are written. *)

Iterates(g, n, b, f) == g[0] = b /\ \A k \in 1..n : g[k] = f[k][g[k - 1]]

\* A function that takes each value to the next has one run from any first value.
LEMMA Recursion ==
  ASSUME NEW S, NEW b \in S, NEW n \in Nat, NEW f \in [1..n -> [S -> S]]
  PROVE  \E g \in [0..n -> S] : Iterates(g, n, b, f)
<1> DEFINE IsRunTo(g, m) ==
             g \in [0..m -> S] /\ g[0] = b /\ \A k \in 1..m : g[k] = f[k][g[k - 1]]
           T == {m \in 0..n : \E g : IsRunTo(g, m)}
<1>1. 0 \in T
  <2> DEFINE g == [k \in 0..0 |-> b]
  <2>1. IsRunTo(g, 0)
    OBVIOUS
  <2> HIDE DEF g
  <2>2. 0 \in 0..n /\ \E h : IsRunTo(h, 0)
    BY <2>1
  <2> QED BY <2>2
<1>2. ASSUME NEW m \in 0..(n - 1), m \in T
      PROVE  m + 1 \in T
  <2>1. PICK g : IsRunTo(g, m)
    BY <1>2
  <2> DEFINE h == [k \in 0..(m + 1) |-> IF k = m + 1 THEN f[m + 1][g[m]] ELSE g[k]]
  <2>2. m \in Nat /\ m + 1 \in 0..n /\ m + 1 \in 1..n /\ g[m] \in S
    BY <2>1
  <2>3. f[m + 1][g[m]] \in S
    BY <2>2
  <2>4. h \in [0..(m + 1) -> S] /\ h[0] = b
    BY <2>1, <2>2, <2>3
  <2>5. ASSUME NEW k \in 1..(m + 1)
        PROVE  h[k] = f[k][h[k - 1]]
    <3>1. CASE k = m + 1
      <4>1. h[k - 1] = g[m] /\ h[k] = f[m + 1][g[m]]
        BY <2>2, <3>1
      <4> HIDE DEF h
      <4> QED BY <3>1, <4>1
    <3>2. CASE k # m + 1
      <4>1. k \in 1..m /\ h[k] = g[k] /\ h[k - 1] = g[k - 1]
        BY <2>2, <3>2
      <4>2. g[k] = f[k][g[k - 1]]
        BY <2>1, <4>1
      <4> HIDE DEF h
      <4> QED BY <4>1, <4>2
    <3> QED BY <3>1, <3>2
  <2> HIDE DEF h
  <2>6. IsRunTo(h, m + 1)
    BY <2>4, <2>5
  <2> QED BY <2>2, <2>6
<1> HIDE DEF T
<1>3. n \in T
  <2>1. 0..n \subseteq T
    BY <1>1, <1>2, Climb
  <2> QED BY <2>1
<1> QED BY <1>3 DEF T, Iterates

-----------------------------------------------------------------------------
(* Filtering by connection.                                                *)

\* A command more: it is kept if it was issued on connection c.
Keep(log, c, kept, k) == IF log[k].conn = c THEN Append(kept, k) ELSE kept

IsFilter(g, log, c, s) ==
  g = [k \in 0..Len(s) |-> IF k = 0 THEN << >>
                           ELSE IF log[s[k]].conn = c THEN Append(g[k - 1], s[k])
                           ELSE g[k - 1]]

Filters(g, log, c, s, n) ==
  g[0] = << >> /\ \A k \in 1..n : g[k] = Keep(log, c, g[k - 1], s[k])

\* Of adds its commands one by one.
LEMMA OfFold ==
  ASSUME NEW S, NEW s \in Seq(S), NEW log, NEW c
  PROVE  \E g \in [0..Len(s) -> Seq(S)] :
           Round!Of(log, c, s) = g[Len(s)] /\ Filters(g, log, c, s, Len(s))
<1> DEFINE n == Len(s)
           A == Seq(S)
           f == [k \in 1..n |-> [v \in A |-> Keep(log, c, v, s[k])]]
           g == CHOOSE g : IsFilter(g, log, c, s)
<1>1. n \in Nat /\ << >> \in A
  BY LenProperties, EmptySeq
<1>2. ASSUME NEW k \in 1..n, NEW v \in A
      PROVE  Keep(log, c, v, s[k]) \in A
  <2>1. s[k] \in S
    BY ElementOfSeq
  <2>2. Append(v, s[k]) \in A
    BY <2>1, AppendProperties
  <2> QED BY <2>2 DEF Keep
<1>3. \E h : IsFilter(h, log, c, s)
  <2>1. \A k \in 1..n, v \in A : f[k][v] = Keep(log, c, v, s[k])
    OBVIOUS
  <2>2. f \in [1..n -> [A -> A]]
    BY <1>2
  <2> HIDE DEF f, A
  <2>3. PICK h \in [0..n -> A] : h[0] = << >> /\ \A k \in 1..n : h[k] = f[k][h[k - 1]]
    <3> HIDE DEF n
    <3>1. \E h \in [0..n -> A] : Iterates(h, n, << >>, f)
      BY <1>1, <2>2, Recursion
    <3> QED BY <3>1 DEF Iterates
  <2>4. \A k \in 0..n : k # 0 => k \in 1..n /\ h[k - 1] \in A
    BY <1>1
  <2>5. \A k \in 0..n : h[k] = IF k = 0 THEN << >> ELSE Keep(log, c, h[k - 1], s[k])
    BY <2>1, <2>3, <2>4
  <2> HIDE DEF n
  <2>6. h = [k \in 0..n |-> IF k = 0 THEN << >> ELSE Keep(log, c, h[k - 1], s[k])]
    BY <2>5
  <2> QED BY <2>6 DEF IsFilter, Keep, n
<1>4. IsFilter(g, log, c, s)
  BY <1>3
<1>5. Round!Of(log, c, s) = g[n]
  BY DEF Round!Of, IsFilter
<1> HIDE DEF g
<1>6. g = [k \in 0..n |-> IF k = 0 THEN << >> ELSE Keep(log, c, g[k - 1], s[k])]
  BY <1>4 DEF IsFilter, Keep
<1> HIDE DEF n, A
<1>7. /\ DOMAIN g = 0..n /\ g[0] = << >>
      /\ \A k \in 1..n : g[k] = Keep(log, c, g[k - 1], s[k])
      /\ g = [k \in 0..n |-> g[k]]
  <2> DEFINE v == [k \in 0..n |-> IF k = 0 THEN << >> ELSE Keep(log, c, g[k - 1], s[k])]
  <2>1. DOMAIN v = 0..n /\ v = [k \in 0..n |-> v[k]]
    OBVIOUS
  <2>2. v[0] = << >>
    BY <1>1
  <2>3. ASSUME NEW k \in 1..n PROVE v[k] = Keep(log, c, g[k - 1], s[k])
    <3>1. k \in 0..n /\ k # 0
      BY <1>1
    <3> QED BY <3>1
  <2> HIDE DEF v
  <2>4. g = v
    BY <1>6 DEF v
  <2> QED BY <2>1, <2>2, <2>3, <2>4
<1> DEFINE T == {k \in 0..n : g[k] \in A}
<1>8. 0..n \subseteq T
  <2>1. 0 \in T
    BY <1>1, <1>7
  <2>2. ASSUME NEW k \in 0..(n - 1), k \in T PROVE k + 1 \in T
    <3>1. k + 1 \in 1..n /\ k + 1 \in 0..n /\ (k + 1) - 1 = k /\ g[k] \in A
      BY <1>1, <2>2
    <3>2. g[k + 1] = Keep(log, c, g[k], s[k + 1])
      BY <1>7, <3>1
    <3>3. Keep(log, c, g[k], s[k + 1]) \in A
      BY <1>2, <3>1
    <3> QED BY <3>1, <3>2, <3>3
  <2> HIDE DEF T
  <2> QED BY <1>1, <2>1, <2>2, Climb
<1>9. g \in [0..n -> A]
  BY <1>7, <1>8
<1>10. Filters(g, log, c, s, n)
  BY <1>7 DEF Filters
<1> QED BY <1>5, <1>9, <1>10 DEF n, A

\* Two filterings that agree on the elements agree.
Alike(s, t, log, log2, c, n) ==
  \A k \in 1..n : s[k] = t[k] /\ (log[s[k]].conn = c <=> log2[s[k]].conn = c)

LEMMA SameFilter ==
  ASSUME NEW n \in Nat, NEW log, NEW log2, NEW c, NEW s, NEW t, NEW g, NEW h,
         Alike(s, t, log, log2, c, n),
         Filters(g, log, c, s, n), Filters(h, log2, c, t, n)
  PROVE  g[n] = h[n]
<1> DEFINE T == {k \in 0..n : g[k] = h[k]}
<1>1. 0 \in T
  BY DEF Filters
<1>2. ASSUME NEW k \in 0..(n - 1), k \in T PROVE k + 1 \in T
  <2>1. k + 1 \in 1..n /\ (k + 1) - 1 = k /\ k + 1 \in 0..n /\ g[k] = h[k]
    BY <1>2
  <2>2. g[k + 1] = Keep(log, c, g[k], s[k + 1]) /\ h[k + 1] = Keep(log2, c, h[k], t[k + 1])
    BY <2>1 DEF Filters
  <2>3. Keep(log, c, g[k], s[k + 1]) = Keep(log2, c, h[k], t[k + 1])
    BY <2>1 DEF Keep, Alike
  <2> QED BY <2>1, <2>2, <2>3
<1> HIDE DEF T
<1>3. 0..n \subseteq T
  BY <1>1, <1>2, Climb
<1> QED BY <1>3 DEF T

\* What is left is of the same type, and nothing is left of nothing.
LEMMA OfType ==
  ASSUME NEW S, NEW s \in Seq(S), NEW log, NEW c
  PROVE  Round!Of(log, c, s) \in Seq(S) /\ (s = << >> => Round!Of(log, c, s) = << >>)
<1>1. PICK g \in [0..Len(s) -> Seq(S)] :
               Round!Of(log, c, s) = g[Len(s)] /\ Filters(g, log, c, s, Len(s))
  BY OfFold
<1>2. Len(s) \in 0..Len(s) /\ (s = << >> => Len(s) = 0)
  BY LenProperties, EmptySeq
<1> QED BY <1>1, <1>2 DEF Filters

\* Only where the elements were issued matters.
LEMMA OfSame ==
  ASSUME NEW S, NEW s \in Seq(S), NEW log, NEW log2, NEW c,
         \A k \in 1..Len(s) : log[s[k]].conn = c <=> log2[s[k]].conn = c
  PROVE  Round!Of(log, c, s) = Round!Of(log2, c, s)
<1> DEFINE n == Len(s)
<1>1. PICK g : Round!Of(log, c, s) = g[n] /\ Filters(g, log, c, s, n)
  BY OfFold
<1>2. PICK h : Round!Of(log2, c, s) = h[n] /\ Filters(h, log2, c, s, n)
  BY OfFold
<1>3. n \in Nat /\ Alike(s, s, log, log2, c, n)
  BY LenProperties DEF Alike
<1> HIDE DEF n
<1>4. g[n] = h[n]
  BY <1>1, <1>2, <1>3, SameFilter
<1> QED BY <1>1, <1>2, <1>4

\* An element more.
LEMMA OfAppend ==
  ASSUME NEW S, NEW s \in Seq(S), NEW x \in S, NEW log, NEW c
  PROVE  Round!Of(log, c, Append(s, x)) = Keep(log, c, Round!Of(log, c, s), x)
<1> DEFINE n == Len(s)
           t == Append(s, x)
<1>1. /\ t \in Seq(S) /\ Len(t) = n + 1 /\ n \in Nat
      /\ \A k \in 1..n : t[k] = s[k]
      /\ t[n + 1] = x
  BY AppendProperties, LenProperties
<1>2. PICK g : Round!Of(log, c, s) = g[n] /\ Filters(g, log, c, s, n)
  BY OfFold
<1> HIDE DEF n, t
<1>3. PICK h : Round!Of(log, c, t) = h[n + 1] /\ Filters(h, log, c, t, n + 1)
  <2>1. \E h : Round!Of(log, c, t) = h[Len(t)] /\ Filters(h, log, c, t, Len(t))
    <3>1. t \in Seq(S)
      BY <1>1
    <3> QED BY <3>1, OfFold
  <2> QED BY <1>1, <2>1
<1>4. g[n] = h[n]
  <2>1. Filters(h, log, c, t, n)
    BY <1>1, <1>3 DEF Filters
  <2>2. Alike(s, t, log, log, c, n)
    BY <1>1 DEF Alike
  <2> QED BY <1>1, <1>2, <2>1, <2>2, SameFilter
<1>5. h[n + 1] = Keep(log, c, h[n], x)
  <2>1. n + 1 \in 1..(n + 1) /\ (n + 1) - 1 = n
    BY <1>1
  <2> QED BY <1>1, <1>3, <2>1 DEF Filters
<1> QED BY <1>2, <1>3, <1>4, <1>5 DEF t

\* One element.
LEMMA OfOne ==
  ASSUME NEW S, NEW x \in S, NEW log, NEW c
  PROVE  Round!Of(log, c, << x >>) = IF log[x].conn = c THEN << x >> ELSE << >>
<1> DEFINE none == << >>
<1>1. none \in Seq(S) /\ Append(none, x) = << x >> /\ none = << >>
  BY EmptySeq
<1> HIDE DEF none
<1>2. Round!Of(log, c, none) = none
  BY <1>1, OfType
<1>3. Round!Of(log, c, Append(none, x)) = Keep(log, c, none, x)
  <2>1. none \in Seq(S)
    BY <1>1
  <2>2. Round!Of(log, c, Append(none, x)) = Keep(log, c, Round!Of(log, c, none), x)
    BY <2>1, OfAppend
  <2> QED BY <1>2, <2>2
<1> QED BY <1>1, <1>3 DEF Keep

\* The first element, and the others.
LEMMA OfHead ==
  ASSUME NEW S, NEW s \in Seq(S), s # << >>, NEW log, NEW c
  PROVE  Round!Of(log, c, s) =
           Round!Of(log, c, << Head(s) >>) \o Round!Of(log, c, Tail(s))
<1> DEFINE n == Len(s) - 1
           t == Tail(s)
           first == Round!Of(log, c, << Head(s) >>)
<1>1. /\ Len(s) = n + 1 /\ n \in Nat /\ s[1] = Head(s) /\ s[1] \in S
      /\ t \in Seq(S) /\ Len(t) = n
      /\ \A k \in 1..n : t[k] = s[k + 1]
  BY HeadTailProperties, LenProperties, EmptySeq
<1>2. \A k \in 1..n : t[k] \in S
  <2> HIDE DEF n, t
  <2> QED BY <1>1, ElementOfSeq
<1> HIDE DEF n, t
<1>3. PICK g : Round!Of(log, c, s) = g[n + 1] /\ Filters(g, log, c, s, n + 1)
  <2>1. \E g : Round!Of(log, c, s) = g[Len(s)] /\ Filters(g, log, c, s, Len(s))
    BY OfFold
  <2> QED BY <1>1, <2>1
<1>4. PICK h \in [0..n -> Seq(S)] : Round!Of(log, c, t) = h[n] /\ Filters(h, log, c, t, n)
  <2>1. \E h \in [0..Len(t) -> Seq(S)] :
          Round!Of(log, c, t) = h[Len(t)] /\ Filters(h, log, c, t, Len(t))
    <3>1. t \in Seq(S)
      BY <1>1
    <3> QED BY <3>1, OfFold
  <2> QED BY <1>1, <2>1
<1>5. first = Keep(log, c, << >>, s[1]) /\ first \in Seq(S)
  <2> DEFINE x == Head(s)
  <2>1. x \in S /\ s[1] = x
    BY <1>1
  <2>2. << >> \in Seq(S) /\ Append(<< >>, x) = << x >> /\ << x >> \in Seq(S)
    BY <2>1, EmptySeq
  <2> HIDE DEF x
  <2>3. Round!Of(log, c, << x >>) = IF log[x].conn = c THEN << x >> ELSE << >>
    BY <2>1, OfOne
  <2>4. first = Round!Of(log, c, << x >>)
    BY DEF x
  <2> QED BY <2>1, <2>2, <2>3, <2>4 DEF Keep
<1> HIDE DEF first
<1> DEFINE T == {k \in 0..n : g[k + 1] = first \o h[k]}
<1>6. 0 \in T
  <2>1. 1 \in 1..(n + 1) /\ 1 - 1 = 0 /\ 0 + 1 = 1 /\ 0 \in 0..n
    BY <1>1
  <2>2. g[1] = Keep(log, c, << >>, s[1]) /\ h[0] = << >>
    BY <1>3, <1>4, <2>1 DEF Filters
  <2>3. first \o << >> = first
    BY <1>5, ConcatEmptySeq
  <2> QED BY <1>5, <2>1, <2>2, <2>3
<1>7. ASSUME NEW k \in 0..(n - 1), k \in T PROVE k + 1 \in T
  <2>1. /\ k + 1 \in 0..n /\ k + 1 \in 1..n /\ (k + 1) - 1 = k
        /\ (k + 1) + 1 \in 1..(n + 1) /\ ((k + 1) + 1) - 1 = k + 1 /\ k \in 0..n
        /\ g[k + 1] = first \o h[k]
    BY <1>1, <1>7
  <2> DEFINE x == t[k + 1]
  <2>2. x = s[(k + 1) + 1] /\ x \in S
    BY <1>1, <1>2, <2>1
  <2>3. h[k] \in Seq(S)
    BY <1>4, <2>1
  <2>4. h[k + 1] = Keep(log, c, h[k], x)
    BY <1>4, <2>1 DEF Filters
  <2> HIDE DEF x
  <2>5. g[(k + 1) + 1] = Keep(log, c, first \o h[k], x)
    BY <1>3, <2>1, <2>2 DEF Filters
  <2>6. Append(first \o h[k], x) = first \o Append(h[k], x)
    <3>1. first \o h[k] \in Seq(S) /\ << x >> \in Seq(S)
      BY <1>5, <2>2, <2>3, ConcatProperties
    <3>2. /\ Append(first \o h[k], x) = (first \o h[k]) \o << x >>
          /\ Append(h[k], x) = h[k] \o << x >>
      BY <2>2, <2>3, <3>1, AppendIsConcat
    <3>3. (first \o h[k]) \o << x >> = first \o (h[k] \o << x >>)
      <4> DEFINE one == << x >>
                 kept == h[k]
      <4>1. first \in Seq(S) /\ kept \in Seq(S) /\ one \in Seq(S)
        BY <1>5, <2>3, <3>1
      <4> HIDE DEF one, kept
      <4>2. (first \o kept) \o one = first \o (kept \o one)
        BY <4>1
      <4> QED BY <4>2 DEF one, kept
    <3> QED BY <3>2, <3>3
  <2>7. Keep(log, c, first \o h[k], x) = first \o Keep(log, c, h[k], x)
    BY <2>6 DEF Keep
  <2> QED BY <2>1, <2>4, <2>5, <2>7
<1> HIDE DEF T
<1>8. 0..n \subseteq T
  BY <1>1, <1>6, <1>7, Climb
<1>9. g[n + 1] = first \o h[n]
  BY <1>1, <1>8 DEF T
<1> QED BY <1>3, <1>4, <1>9 DEF first, t


-----------------------------------------------------------------------------
(* Two queues end to end.                                                  *)

\* The first of the second queue, moved to the end of the first.
LEMMA MoveAcross ==
  ASSUME NEW S, NEW s \in Seq(S), NEW t \in Seq(S), t # << >>
  PROVE  Append(s, Head(t)) \o Tail(t) = s \o t
<1> DEFINE one == << Head(t) >>
           rest == Tail(t)
<1>1. /\ one \in Seq(S) /\ rest \in Seq(S) /\ Len(one) = 1 /\ one[1] = t[1]
      /\ Len(t) \in Nat \ {0} /\ Len(rest) = Len(t) - 1
      /\ \A i \in 1..(Len(t) - 1) : rest[i] = t[i + 1]
      /\ Append(s, Head(t)) = s \o one
  <2>1. Head(t) \in S /\ Head(t) = t[1]
    BY HeadTailProperties
  <2>2. Append(s, Head(t)) = s \o one
    BY <2>1, AppendIsConcat
  <2> QED BY <2>1, <2>2, HeadTailProperties, EmptySeq
<1> HIDE DEF one, rest
<1>2. one \o rest = t
  <2>1. /\ one \o rest \in Seq(S) /\ Len(one \o rest) = Len(t)
        /\ \A i \in 1..Len(t) : (one \o rest)[i] = IF i <= 1 THEN one[i] ELSE rest[i - 1]
    BY <1>1, ConcatProperties
  <2>2. \A i \in 1..Len(t) : i = 1 \/ i - 1 \in 1..(Len(t) - 1)
    BY <1>1
  <2>3. \A i \in 1..Len(t) : (one \o rest)[i] = t[i]
    BY <1>1, <2>1, <2>2
  <2> QED BY <2>1, <2>3, SeqEqual
<1>3. (s \o one) \o rest = s \o (one \o rest)
  BY <1>1
<1> QED BY <1>1, <1>2, <1>3 DEF rest

\* The first of the second queue is removed.
LEMMA RemoveNext ==
  ASSUME NEW S, NEW s \in Seq(S), NEW t \in Seq(S), t # << >>
  PROVE  /\ Len(s) + 1 \in DOMAIN (s \o t)
         /\ RemoveAt(s \o t, Len(s) + 1) = s \o Tail(t)
<1> DEFINE n == Len(s)
           m == Len(t)
           a == s \o t
           u == Tail(t)
           b == s \o u
           r == RemoveAt(a, n + 1)
<1>1. /\ n \in Nat /\ m \in Nat \ {0} /\ u \in Seq(S) /\ Len(u) = m - 1
      /\ \A i \in 1..(m - 1) : u[i] = t[i + 1]
  BY LenProperties, HeadTailProperties, EmptySeq
<1>2. /\ a \in Seq(S) /\ Len(a) = n + m
      /\ \A i \in 1..(n + m) : a[i] = IF i <= n THEN s[i] ELSE t[i - n]
  BY ConcatProperties
<1>3. /\ b \in Seq(S) /\ Len(b) = n + (m - 1)
      /\ \A i \in 1..(n + (m - 1)) : b[i] = IF i <= n THEN s[i] ELSE u[i - n]
  BY <1>1, ConcatProperties
<1> HIDE DEF n, m, a, b, u
<1>4. n + 1 \in DOMAIN a
  BY <1>1, <1>2, LenProperties
<1>5. /\ r \in Seq(S) /\ Len(r) = Len(a) - 1
      /\ \A j \in 1..(Len(a) - 1) : r[j] = a[IF j < n + 1 THEN j ELSE j + 1]
  BY <1>2, <1>4, RemoveAtFacts
<1> HIDE DEF r
<1>6. Len(r) = Len(b) /\ Len(r) = n + (m - 1)
  BY <1>1, <1>2, <1>3, <1>5
<1>7. ASSUME NEW j \in 1..Len(r) PROVE r[j] = b[j]
  <2>1. r[j] = a[IF j < n + 1 THEN j ELSE j + 1] /\ j \in 1..(n + (m - 1))
    BY <1>1, <1>2, <1>5, <1>6
  <2>2. CASE j <= n
    <3>1. j < n + 1 /\ j \in 1..(n + m)
      BY <1>1, <2>1, <2>2
    <3> QED BY <1>2, <1>3, <2>1, <2>2, <3>1
  <2>3. CASE ~(j <= n)
    <3>1. /\ ~(j < n + 1) /\ j + 1 \in 1..(n + m) /\ ~(j + 1 <= n)
          /\ (j + 1) - n = (j - n) + 1 /\ j - n \in 1..(m - 1)
      BY <1>1, <2>1, <2>3
    <3>2. r[j] = t[(j + 1) - n]
      BY <1>2, <2>1, <3>1
    <3>3. b[j] = t[(j - n) + 1]
      BY <1>1, <1>3, <2>1, <2>3, <3>1
    <3> QED BY <3>1, <3>2, <3>3
  <2> QED BY <2>2, <2>3
<1>8. r = b
  BY <1>3, <1>5, <1>6, <1>7, SeqEqual
<1>9. Len(s) + 1 \in DOMAIN (s \o t)
  BY <1>4 DEF n, a
<1>10. RemoveAt(s \o t, Len(s) + 1) = s \o Tail(t)
  BY <1>8 DEF n, a, b, u, r
<1> QED BY <1>9, <1>10

\* One of the first queue is removed.
LEMMA RemoveEarly ==
  ASSUME NEW S, NEW s \in Seq(S), NEW t \in Seq(S), NEW i \in DOMAIN s
  PROVE  /\ i \in DOMAIN (s \o t) /\ (s \o t)[i] = s[i]
         /\ RemoveAt(s \o t, i) = RemoveAt(s, i) \o t
<1> DEFINE n == Len(s)
           m == Len(t)
           a == s \o t
           c == RemoveAt(s, i)
           b == c \o t
           r == RemoveAt(a, i)
<1>1. /\ n \in Nat \ {0} /\ m \in Nat /\ i \in 1..n
      /\ c \in Seq(S) /\ Len(c) = n - 1
      /\ \A j \in 1..(n - 1) : c[j] = s[IF j < i THEN j ELSE j + 1]
  BY LenProperties, RemoveAtFacts
<1>2. /\ a \in Seq(S) /\ Len(a) = n + m
      /\ \A j \in 1..(n + m) : a[j] = IF j <= n THEN s[j] ELSE t[j - n]
  BY ConcatProperties
<1> HIDE DEF n, m, a, c
<1>3. /\ b \in Seq(S) /\ Len(b) = (n - 1) + m
      /\ \A j \in 1..((n - 1) + m) : b[j] = IF j <= n - 1 THEN c[j] ELSE t[j - (n - 1)]
  <2>1. /\ b \in Seq(S) /\ Len(b) = Len(c) + m
        /\ \A j \in 1..(Len(c) + m) : b[j] = IF j <= Len(c) THEN c[j] ELSE t[j - Len(c)]
    BY <1>1, ConcatProperties DEF m
  <2> QED BY <1>1, <2>1
<1>4. i \in DOMAIN a /\ a[i] = s[i]
  <2>1. i \in 1..(n + m) /\ i <= n
    BY <1>1
  <2> QED BY <1>2, <2>1, LenProperties
<1>5. /\ r \in Seq(S) /\ Len(r) = Len(a) - 1
      /\ \A j \in 1..(Len(a) - 1) : r[j] = a[IF j < i THEN j ELSE j + 1]
  BY <1>2, <1>4, RemoveAtFacts
<1> HIDE DEF r, b
<1>6. Len(r) = Len(b) /\ Len(r) = (n - 1) + m
  BY <1>1, <1>2, <1>3, <1>5
<1>7. ASSUME NEW j \in 1..Len(r) PROVE r[j] = b[j]
  <2>1. r[j] = a[IF j < i THEN j ELSE j + 1] /\ j \in 1..((n - 1) + m)
    BY <1>1, <1>2, <1>5, <1>6
  <2>2. CASE j <= n - 1
    <3>1. /\ j \in 1..(n - 1) /\ j \in 1..(n + m) /\ j + 1 \in 1..(n + m)
          /\ j <= n /\ j + 1 <= n
      BY <1>1, <2>1, <2>2
    <3>2. a[j] = s[j] /\ a[j + 1] = s[j + 1]
      BY <1>2, <3>1
    <3>3. b[j] = c[j] /\ c[j] = s[IF j < i THEN j ELSE j + 1]
      BY <1>1, <1>3, <2>1, <2>2, <3>1
    <3> QED BY <2>1, <3>2, <3>3
  <2>3. CASE ~(j <= n - 1)
    <3>1. /\ ~(j < i) /\ j + 1 \in 1..(n + m) /\ ~(j + 1 <= n)
          /\ (j + 1) - n = j - (n - 1)
      BY <1>1, <2>1, <2>3
    <3>2. r[j] = t[(j + 1) - n]
      BY <1>2, <2>1, <3>1
    <3>3. b[j] = t[j - (n - 1)]
      BY <1>3, <2>1, <2>3
    <3> QED BY <3>1, <3>2, <3>3
  <2> QED BY <2>2, <2>3
<1>8. r = b
  BY <1>3, <1>5, <1>6, <1>7, SeqEqual
<1> QED BY <1>4, <1>8 DEF a, b, c, r
-----------------------------------------------------------------------------
(* What Headcrab's server has, and the invariant of the round trip.        *)

Distinct(s) == \A i, j \in DOMAIN s : s[i] = s[j] => i = j

\* The commands that were sent and not dispatched.
Waiting == ToSet(inq) \cup UNION {ToSet(up[c]) : c \in Conns}

PageTyped ==
  /\ world \in Worlds
  /\ connects \in Nat /\ connects <= world.connects
  /\ socket \in [Conns -> {"none", "connecting", "open", "closed"}]
  /\ nextSeqID \in Nat /\ nextSeqID <= Len(issued) /\ Len(issued) <= world.issues
  /\ expected \in [0..MaxIssues -> 0..MaxIssues]
  /\ issued \in Seq([conn : 0..MaxConnects, seqID : 0..MaxIssues, wanted : BOOLEAN])
  /\ handling \in [callback : 0..MaxIssues, seqID : 0..MaxIssues]
  /\ called \in Seq([callback : Commands, reply : Commands])
  /\ incoming \in [Conns -> Seq(Messages)]
  /\ ~world.lossy => \A c \in Conns : socket[c] # "closed"

Holding == [by : {"app", "svc"}, message : Messages]

ServerTyped ==
  /\ up \in [Conns -> Seq(Commands)] /\ inq \in Seq(Commands)
  /\ cur \in 0..MaxIssues /\ posts \in Nat /\ posts <= world.replies
  /\ outq \in Seq(Messages) /\ held \in Seq(Holding)

\* What is on its way is a command issued on its connection, or answers one.
AreIssued ==
  /\ \A c \in Conns : \A k \in ToSet(up[c]) : k \in DOMAIN issued /\ issued[k].conn = c
  /\ \A k \in ToSet(inq) : k \in DOMAIN issued /\ issued[k].conn \in Conns
  /\ cur # 0 => cur \in DOMAIN issued /\ issued[cur].conn \in Conns
  /\ \A m \in ToSet(outq) : m.to \in DOMAIN issued
  /\ \A h \in ToSet(held) : h.message.to \in DOMAIN issued
  /\ \A c \in Conns : \A m \in ToSet(incoming[c]) : m.to \in DOMAIN issued

\* A command waits in one place, and a thread holds one message.
AreOnce ==
  /\ Distinct(inq)
  /\ \A c \in Conns : Distinct(up[c]) /\ ToSet(up[c]) \cap ToSet(inq) = {}
  /\ \A i, j \in DOMAIN held : held[i].by = held[j].by => i = j

\* The messages that are queued, or may be for what waits, are no more than
\* those that all commands issued may have.
Owed ==
  Len(outq) + world.replies * Cardinality(Waiting)
    + (IF cur = 0 THEN 0 ELSE world.replies - posts)

NoneTooMany == Owed <= world.replies * Len(issued)

TripInv == PageTyped /\ ServerTyped /\ AreIssued /\ AreOnce /\ NoneTooMany

\* The names of the instances are this module's.
LEMMA SameNames ==
  /\ Round!Conns = Conns /\ Round!Client!Conns = Conns
  /\ Round!Client!Commands = Commands /\ Round!Client!Messages = Messages
  /\ Round!Client!None = None /\ Round!Threads = {"app", "svc"}
BY DEF Round!Conns, Round!Client!Conns, Conns, Round!Client!Commands, Commands,
       Round!Client!Messages, Messages, Round!Client!None, None, Round!Threads

\* A world's numbers.
LEMMA WorldTypes ==
  ASSUME NEW w \in Worlds
  PROVE  /\ w.connects \in Nat /\ w.issues \in Nat /\ w.replies \in Nat
         /\ w.connects <= MaxConnects /\ w.issues <= MaxIssues /\ w.lossy \in BOOLEAN
         /\ MaxConnects \in Nat /\ MaxIssues \in Nat
<1>1. w \in [connects : 0..MaxConnects, issues : 0..MaxIssues, replies : Nat,
             lossy : BOOLEAN, throws : BOOLEAN]
  BY JsClientAssumption
<1> QED BY <1>1, JsClientAssumption

\* What was issued.
LEMMA IssuedTypes ==
  ASSUME PageTyped
  PROVE  /\ Len(issued) \in Nat /\ DOMAIN issued = 1..Len(issued)
         /\ Len(issued) <= MaxIssues /\ MaxIssues \in Nat /\ DOMAIN issued \subseteq Commands
         /\ \A k \in DOMAIN issued :
              issued[k].conn \in 0..MaxConnects /\ issued[k].seqID \in 0..MaxIssues
<1> DEFINE R == [conn : 0..MaxConnects, seqID : 0..MaxIssues, wanted : BOOLEAN]
<1>1. issued \in Seq(R) /\ Len(issued) <= world.issues /\ world \in Worlds
  BY DEF PageTyped
<1>2. world.issues \in Nat /\ world.issues <= MaxIssues /\ MaxIssues \in Nat
  BY <1>1, WorldTypes
<1> HIDE DEF R
<1>3. /\ Len(issued) \in Nat /\ DOMAIN issued = 1..Len(issued)
      /\ \A k \in DOMAIN issued : issued[k] \in R
  BY <1>1, LenProperties, ElementOfSeq
<1>4. Len(issued) <= MaxIssues
  BY <1>1, <1>2, <1>3
<1> QED BY <1>2, <1>3, <1>4 DEF Commands, R

\* What a step leaves alone.
LEMMA ServerSame ==
  ASSUME TripInv, UNCHANGED <<world, issued, up, inq, cur, posts, outq, held>>,
         PageTyped',
         \A c \in Conns : ToSet(incoming'[c]) \subseteq ToSet(incoming[c])
  PROVE  TripInv'
<1>1. ServerTyped' /\ AreOnce'
  BY DEF TripInv, ServerTyped, AreOnce, Distinct
<1>2. AreIssued'
  BY DEF TripInv, AreIssued
<1>3. NoneTooMany'
  BY DEF TripInv, NoneTooMany, Owed, Waiting
<1> QED BY <1>1, <1>2, <1>3 DEF TripInv

-----------------------------------------------------------------------------
(* The steps of the page.                                                  *)

\* connect.
LEMMA TripConnect ==
  ASSUME TripInv, Round!ByItself, Round!Client!Connect
  PROVE  TripInv'
<1>1. /\ UNCHANGED <<inq, cur, posts, outq, held, up, issued>>
      /\ connects < world.connects /\ connects' = connects + 1 /\ nextSeqID' = 0
      /\ socket' = [socket EXCEPT ![connects'] = "connecting"]
      /\ UNCHANGED <<world, expected, issued, incoming, handling, called>>
  BY DEF Round!ByItself, Round!serverVars, Round!Client!Connect
<1>2. world.connects \in Nat /\ Len(issued) \in Nat
  BY WorldTypes, IssuedTypes DEF TripInv, PageTyped
<1>3. /\ socket' \in [Conns -> {"none", "connecting", "open", "closed"}]
      /\ \A c \in Conns : socket'[c] \in {socket[c], "connecting"}
  <2>1. socket \in [Conns -> {"none", "connecting", "open", "closed"}]
    BY DEF TripInv, PageTyped
  <2> DEFINE n == connects'
  <2>2. socket' = [socket EXCEPT ![n] = "connecting"]
    BY <1>1
  <2> HIDE DEF n
  <2> QED BY <2>1, <2>2
<1>4. connects' \in Nat /\ connects' <= world.connects
  BY <1>1, <1>2 DEF TripInv, PageTyped
<1>5. PageTyped'
  BY <1>1, <1>2, <1>3, <1>4 DEF TripInv, PageTyped
<1> QED BY <1>1, <1>5, ServerSame

\* A callback returns or throws.
LEMMA TripReturn ==
  ASSUME TripInv, Round!ByItself, Round!Client!Return \/ Round!Client!Throw
  PROVE  TripInv'
<1>1. /\ UNCHANGED <<inq, cur, posts, outq, held, up, issued>>
      /\ expected' = [expected EXCEPT ![handling.seqID] = 0] \/ expected' = expected
      /\ handling' = None
      /\ UNCHANGED <<world, connects, socket, nextSeqID, issued, incoming, called>>
  BY SameNames DEF Round!ByItself, Round!serverVars, Round!Client!Return, Round!Client!Throw
<1>2. handling.seqID \in 0..MaxIssues /\ 0 \in 0..MaxIssues
  BY JsClientAssumption DEF TripInv, PageTyped
<1>3. expected' \in [0..MaxIssues -> 0..MaxIssues]
  BY <1>1, <1>2 DEF TripInv, PageTyped
<1>4. handling' \in [callback : 0..MaxIssues, seqID : 0..MaxIssues]
  BY <1>1, <1>2 DEF None
<1>5. PageTyped'
  BY <1>1, <1>3, <1>4 DEF TripInv, PageTyped
<1> QED BY <1>1, <1>5, ServerSame

\* A connection opens or closes.
LEMMA TripSocket ==
  ASSUME TripInv, Round!ByItself, NEW c \in Conns,
         Round!Client!Open(c) \/ Round!Client!Close(c)
  PROVE  TripInv'
<1>1. /\ UNCHANGED <<inq, cur, posts, outq, held, up, issued>>
      /\ UNCHANGED <<world, connects, nextSeqID, expected, issued, incoming, handling, called>>
      /\ \/ socket' = [socket EXCEPT ![c] = "open"]
         \/ world.lossy /\ socket' = [socket EXCEPT ![c] = "closed"]
  BY DEF Round!ByItself, Round!serverVars, Round!Client!Open, Round!Client!Close
<1>2. PageTyped'
  <2>1. socket \in [Conns -> {"none", "connecting", "open", "closed"}]
    BY DEF TripInv, PageTyped
  <2>2. CASE socket' = [socket EXCEPT ![c] = "open"]
    BY <1>1, <2>1, <2>2 DEF TripInv, PageTyped
  <2>3. CASE world.lossy /\ socket' = [socket EXCEPT ![c] = "closed"]
    BY <1>1, <2>1, <2>3 DEF TripInv, PageTyped
  <2> QED BY <1>1, <2>2, <2>3
<1> QED BY <1>1, <1>2, ServerSame

\* onmessage and replyhandler take a message from its connection.
LEMMA TripDelivers ==
  ASSUME TripInv, Round!ByItself, NEW c \in Conns, Round!Client!Receive(c)
  PROVE  TripInv'
<1> DEFINE m == Head(incoming[c])
           id == issued[m.to].seqID
<1>1. /\ UNCHANGED <<inq, cur, posts, outq, held, up, issued>>
      /\ UNCHANGED <<world, connects, socket, nextSeqID, expected, issued>>
      /\ incoming[c] # << >> /\ incoming' = [incoming EXCEPT ![c] = Tail(@)]
      /\ \/ /\ expected[id] # 0
            /\ handling' = [callback |-> expected[id], seqID |-> id]
            /\ called' = Append(called, [callback |-> expected[id], reply |-> m.to])
         \/ UNCHANGED <<handling, called>>
  BY DEF Round!ByItself, Round!serverVars, Round!Client!Receive
<1>2. incoming \in [Conns -> Seq(Messages)] /\ incoming[c] \in Seq(Messages)
  BY DEF TripInv, PageTyped
<1>3. /\ Tail(incoming[c]) \in Seq(Messages) /\ m \in ToSet(incoming[c]) /\ m \in Messages
      /\ ToSet(Tail(incoming[c])) \subseteq ToSet(incoming[c])
  BY <1>1, <1>2, ToSetTail
<1>4. m.to \in DOMAIN issued /\ m.to \in Commands
  BY <1>3 DEF TripInv, AreIssued, Messages
<1>5. id \in 0..MaxIssues /\ expected[id] \in 0..MaxIssues
  BY <1>4, IssuedTypes DEF TripInv, PageTyped
<1> HIDE DEF m, id
<1>6. handling' \in [callback : 0..MaxIssues, seqID : 0..MaxIssues]
  BY <1>1, <1>5 DEF TripInv, PageTyped
<1>7. called' \in Seq([callback : Commands, reply : Commands])
  <2> DEFINE C == [callback : Commands, reply : Commands]
             e == [callback |-> expected[id], reply |-> m.to]
  <2>1. called \in Seq(C)
    BY DEF TripInv, PageTyped
  <2>2. expected[id] # 0 => e \in C
    BY <1>4, <1>5 DEF Commands
  <2> HIDE DEF C
  <2>3. expected[id] # 0 => Append(called, e) \in Seq(C)
    <3> HIDE DEF e
    <3> QED BY <2>1, <2>2, AppendProperties
  <2> QED BY <1>1, <2>1, <2>3 DEF C
<1>8. incoming' \in [Conns -> Seq(Messages)]
      /\ \A d \in Conns : ToSet(incoming'[d]) \subseteq ToSet(incoming[d])
  BY <1>1, <1>2, <1>3
<1>9. PageTyped'
  BY <1>1, <1>6, <1>7, <1>8 DEF TripInv, PageTyped
<1> QED BY <1>1, <1>8, <1>9, ServerSame

-----------------------------------------------------------------------------
(* Counting.                                                               *)

\* Without its head a sequence that repeats nothing has no such element.
LEMMA DistinctTail ==
  ASSUME NEW S, NEW s \in Seq(S), s # << >>, Distinct(s)
  PROVE  Distinct(Tail(s)) /\ Head(s) \notin ToSet(Tail(s))
<1>1. /\ Len(s) \in Nat \ {0} /\ DOMAIN s = 1..Len(s)
      /\ DOMAIN Tail(s) = 1..(Len(s) - 1)
      /\ \A i \in 1..(Len(s) - 1) : Tail(s)[i] = s[i + 1]
      /\ Head(s) = s[1]
  BY HeadTailProperties, LenProperties, EmptySeq
<1> DEFINE t == Tail(s)
<1> HIDE DEF t
<1>2. \A i \in DOMAIN t : t[i] = s[i + 1] /\ i + 1 \in DOMAIN s /\ i + 1 # 1
  BY <1>1 DEF t
<1>3. Distinct(t)
  <2>1. \A i, j \in DOMAIN t : i + 1 = j + 1 => i = j
    BY <1>1 DEF t
  <2> QED BY <1>2, <2>1 DEF Distinct
<1>4. \A i \in DOMAIN t : t[i] # Head(s)
  <2>1. 1 \in DOMAIN s
    BY <1>1
  <2> QED BY <1>1, <1>2, <2>1 DEF Distinct
<1> QED BY <1>3, <1>4 DEF ToSet, t

\* Nor does one repeat anything to which a new element is added.
LEMMA DistinctAppend ==
  ASSUME NEW S, NEW s \in Seq(S), NEW x \in S, Distinct(s), x \notin ToSet(s)
  PROVE  Distinct(Append(s, x))
<1> DEFINE t == Append(s, x)
<1>1. /\ DOMAIN t = 1..(Len(s) + 1) /\ DOMAIN s = 1..Len(s) /\ Len(s) \in Nat
      /\ \A i \in 1..Len(s) : t[i] = s[i]
      /\ t[Len(s) + 1] = x
  BY AppendProperties, LenProperties
<1> HIDE DEF t
<1>2. \A i \in 1..Len(s) : s[i] # x
  BY <1>1 DEF ToSet
<1>3. \A i \in 1..(Len(s) + 1) : i \in 1..Len(s) \/ i = Len(s) + 1
  BY <1>1
<1> QED BY <1>1, <1>2, <1>3 DEF Distinct, t

\* A sequence without repetition is no longer than a set it is from.
LEMMA DistinctFits ==
  ASSUME NEW S, IsFiniteSet(S), NEW s \in Seq(S), Distinct(s)
  PROVE  Len(s) \in Nat /\ Len(s) <= Cardinality(S)
<1>1. Len(s) \in Nat /\ DOMAIN s = 1..Len(s) /\ s \in [1..Len(s) -> S]
  BY LenProperties
<1>2. s \in Injection(1..Len(s), S)
  BY <1>1 DEF Distinct, Injection, IsInjective
<1>3. Cardinality(1..Len(s)) <= Cardinality(S)
  BY <1>2, FS_Injection
<1>4. Cardinality(1..Len(s)) = Len(s)
  BY <1>1, FS_Interval
<1> QED BY <1>1, <1>3, <1>4

\* Multiplication preserves the order.
LEMMA Times ==
  ASSUME NEW r \in Nat, NEW a \in Nat, NEW b \in Nat, a <= b
  PROVE  r * a <= r * b /\ r * a \in Nat /\ r * b \in Nat /\ r * (b + 1) = r * b + r
<1>1. r * a \in Nat /\ r * b \in Nat /\ r * (b - a) \in Nat
  OBVIOUS
<1>2. r * b = r * a + r * (b - a)
  OBVIOUS
<1>3. r * (b + 1) = r * b + r
  OBVIOUS
<1> QED BY <1>1, <1>2, <1>3

\* What waits was issued.
LEMMA WaitingTypes ==
  ASSUME TripInv
  PROVE  /\ Waiting \subseteq 1..Len(issued) /\ IsFiniteSet(Waiting)
         /\ Cardinality(Waiting) \in Nat /\ Cardinality(Waiting) <= Len(issued)
<1>1. Waiting \subseteq 1..Len(issued) /\ Len(issued) \in Nat
  BY IssuedTypes DEF TripInv, AreIssued, Waiting
<1>2. IsFiniteSet(1..Len(issued)) /\ Cardinality(1..Len(issued)) = Len(issued)
  BY <1>1, FS_Interval
<1> QED BY <1>1, <1>2, FS_Subset, FS_CardinalityType

\* The numbers that are counted with.
LEMMA CountTypes ==
  ASSUME TripInv
  PROVE  /\ world.replies \in Nat /\ Len(issued) \in Nat /\ Len(outq) \in Nat
         /\ posts \in Nat /\ posts <= world.replies
         /\ Len(inq) \in Nat
<1>1. world.replies \in Nat /\ Len(issued) \in Nat
  BY WorldTypes, IssuedTypes DEF TripInv, PageTyped
<1>2. Len(outq) \in Nat /\ Len(inq) \in Nat
  BY LenProperties DEF TripInv, ServerTyped
<1> QED BY <1>1, <1>2 DEF TripInv, ServerTyped

-----------------------------------------------------------------------------
(* issue.                                                                  *)

\* A command that is issued waits at most once, and owes its messages.
LEMMA TripIssue ==
  ASSUME TripInv, NEW wanted \in BOOLEAN, Round!Issue(wanted)
  PROVE  TripInv'
<1> DEFINE n == Len(issued)
           k == n + 1
           R == [conn : 0..MaxConnects, seqID : 0..MaxIssues, wanted : BOOLEAN]
           e == [conn |-> connects, seqID |-> nextSeqID, wanted |-> wanted]
<1>1. /\ UNCHANGED <<inq, cur, posts, outq, held>>
      /\ issued' = Append(issued, e)
      /\ \/ up' = up
         \/ connects > 0 /\ up' = [up EXCEPT ![connects] = Append(@, Len(issued'))]
      /\ k <= world.issues
      /\ expected' = [expected EXCEPT ![nextSeqID] = IF wanted THEN k ELSE 0]
      /\ handling' \in {handling, None} /\ nextSeqID' \in {nextSeqID, nextSeqID + 1}
      /\ UNCHANGED <<world, connects, socket, incoming, called>>
  BY SameNames DEF Round!Issue, Round!serverVars, Round!Client!Issue
<1>2. /\ n \in Nat /\ DOMAIN issued = 1..n /\ n <= MaxIssues /\ MaxIssues \in Nat
      /\ \A j \in DOMAIN issued : issued[j].conn \in 0..MaxConnects
  BY IssuedTypes DEF TripInv
<1>3. /\ world \in Worlds /\ world.connects \in Nat /\ world.issues \in Nat
      /\ world.connects <= MaxConnects /\ world.issues <= MaxIssues /\ MaxConnects \in Nat
  BY WorldTypes DEF TripInv, PageTyped
<1>4. /\ connects \in 0..MaxConnects /\ nextSeqID \in 0..MaxIssues /\ nextSeqID <= n
      /\ k \in Commands
  <2>1. /\ connects \in Nat /\ connects <= world.connects
        /\ nextSeqID \in Nat /\ nextSeqID <= n
    BY DEF TripInv, PageTyped
  <2>2. k \in Nat \ {0} /\ k <= world.issues
    BY <1>1, <1>2
  <2> HIDE DEF k, n
  <2> QED BY <1>2, <1>3, <2>1, <2>2 DEF Commands
<1>5. /\ issued' \in Seq(R) /\ Len(issued') = k /\ DOMAIN issued' = 1..k
      /\ issued'[k] = e /\ \A j \in 1..n : issued'[j] = issued[j]
  <2>1. issued \in Seq(R) /\ e \in R
    BY <1>4 DEF TripInv, PageTyped
  <2> HIDE DEF R, e
  <2> QED BY <1>1, <2>1, AppendProperties, LenProperties
<1>6. handling' \in [callback : 0..MaxIssues, seqID : 0..MaxIssues]
  <2>1. handling \in [callback : 0..MaxIssues, seqID : 0..MaxIssues]
    BY DEF TripInv, PageTyped
  <2>2. None \in [callback : 0..MaxIssues, seqID : 0..MaxIssues]
    BY <1>2 DEF None
  <2> QED BY <1>1, <2>1, <2>2
<1>7. PageTyped'
  <2>1. expected' \in [0..MaxIssues -> 0..MaxIssues]
    <3>1. (IF wanted THEN k ELSE 0) \in 0..MaxIssues
      BY <1>4, <1>2 DEF Commands
    <3> QED BY <1>1, <1>4, <3>1 DEF TripInv, PageTyped
  <2>2. nextSeqID' \in Nat /\ nextSeqID' <= Len(issued') /\ Len(issued') <= world.issues
    BY <1>1, <1>2, <1>4, <1>5
  <2> QED BY <1>1, <1>5, <1>6, <2>1, <2>2 DEF TripInv, PageTyped
<1> HIDE DEF k, e
<1>8. /\ up' \in [Conns -> Seq(Commands)]
      /\ \A c \in Conns : \/ up'[c] = up[c]
                          \/ c = connects /\ up'[c] = Append(up[c], k)
  <2>1. up \in [Conns -> Seq(Commands)]
    BY DEF TripInv, ServerTyped
  <2>2. \A c \in Conns : Append(up[c], k) \in Seq(Commands)
    BY <1>4, <2>1, AppendProperties
  <2>3. up' = up \/ up' = [up EXCEPT ![connects] = Append(@, k)]
    BY <1>1, <1>5
  <2>4. CASE up' = up
    BY <2>1, <2>4
  <2>5. CASE up' = [up EXCEPT ![connects] = Append(@, k)]
    BY <2>1, <2>2, <2>5
  <2> QED BY <2>3, <2>4, <2>5
<1>9. \A c \in Conns : /\ ToSet(up'[c]) \subseteq ToSet(up[c]) \cup {k}
                       /\ c # connects => up'[c] = up[c]
  <2> SUFFICES ASSUME NEW c \in Conns
               PROVE  /\ ToSet(up'[c]) \subseteq ToSet(up[c]) \cup {k}
                      /\ c # connects => up'[c] = up[c]
    OBVIOUS
  <2>1. up[c] \in Seq(Commands)
    BY DEF TripInv, ServerTyped
  <2>2. ToSet(Append(up[c], k)) = ToSet(up[c]) \cup {k}
    BY <1>4, <2>1, ToSetAppend
  <2> QED BY <1>8, <2>2
<1>10. ServerTyped'
  BY <1>1, <1>8 DEF TripInv, ServerTyped
<1>11. k = n + 1 /\ issued'[k].conn = connects
  BY <1>5 DEF k, e
<1>12. \A j \in DOMAIN issued : j \in DOMAIN issued' /\ issued'[j] = issued[j]
  BY <1>2, <1>5, <1>11
<1>13. AreIssued'
  <2>1. \A c \in Conns : \A j \in ToSet(up'[c]) :
          j \in DOMAIN issued' /\ issued'[j].conn = c
    <3> SUFFICES ASSUME NEW c \in Conns, NEW j \in ToSet(up'[c])
                 PROVE  j \in DOMAIN issued' /\ issued'[j].conn = c
      OBVIOUS
    <3>1. CASE j \in ToSet(up[c])
      BY <1>12, <3>1 DEF TripInv, AreIssued
    <3>2. CASE j \notin ToSet(up[c])
      <4>1. j = k /\ c = connects
        BY <1>9, <3>2
      <4> QED BY <1>2, <1>5, <1>11, <4>1
    <3> QED BY <3>1, <3>2
  <2> QED BY <1>1, <1>12, <2>1 DEF TripInv, AreIssued
<1>14. k \notin DOMAIN issued
  BY <1>2, <1>11
<1>15. AreOnce'
  <2>1. \A c \in Conns : Distinct(up'[c])
    <3> SUFFICES ASSUME NEW c \in Conns PROVE Distinct(up'[c])
      OBVIOUS
    <3>1. up[c] \in Seq(Commands) /\ Distinct(up[c]) /\ k \notin ToSet(up[c])
      BY <1>14 DEF TripInv, ServerTyped, AreOnce, AreIssued
    <3>2. Distinct(Append(up[c], k))
      BY <1>4, <3>1, DistinctAppend
    <3> QED BY <1>8, <3>1, <3>2
  <2>2. \A c \in Conns : ToSet(up'[c]) \cap ToSet(inq) = {}
    <3>1. k \notin ToSet(inq)
      BY <1>14 DEF TripInv, AreIssued
    <3> QED BY <1>9, <3>1 DEF TripInv, AreOnce
  <2> QED BY <1>1, <2>1, <2>2 DEF TripInv, AreOnce, Distinct
<1>16. NoneTooMany'
  <2> DEFINE r == world.replies
             w == Cardinality(Waiting)
             v == Cardinality(Waiting')
  <2>1. /\ r \in Nat /\ Len(outq) \in Nat /\ posts \in Nat
        /\ IsFiniteSet(Waiting) /\ w \in Nat
    BY CountTypes, WaitingTypes
  <2>2. Waiting' \subseteq Waiting \cup {k}
    BY <1>1, <1>9 DEF Waiting
  <2>3. /\ IsFiniteSet(Waiting \cup {k}) /\ Cardinality(Waiting \cup {k}) <= w + 1
    <3>1. /\ IsFiniteSet(Waiting \cup {k})
          /\ Cardinality(Waiting \cup {k}) = IF k \in Waiting THEN w ELSE w + 1
      BY <2>1, FS_AddElement
    <3> HIDE DEF w
    <3> QED BY <2>1, <3>1
  <2>4. v \in Nat /\ v <= w + 1
    BY <2>1, <2>2, <2>3, FS_Subset, FS_CardinalityType
  <2>5. r * v <= r * (w + 1) /\ r * v \in Nat
    BY <2>1, <2>4, Times
  <2>6. r * (w + 1) = r * w + r /\ r * w \in Nat
    BY <2>1, Times
  <2>7. r * (n + 1) = r * n + r /\ r * n \in Nat
    BY <1>2, <2>1, Times
  <2> DEFINE rest == IF cur = 0 THEN 0 ELSE r - posts
             a == r * w
             b == r * n
             d == r * v
  <2>8. Len(outq) + a + rest <= b
    BY DEF TripInv, NoneTooMany, Owed
  <2>9. rest \in Int
    BY <2>1
  <2> HIDE DEF r, w, v, n
  <2>10. a \in Nat /\ b \in Nat /\ d \in Nat /\ d <= a + r /\ r * (n + 1) = b + r
    BY <2>5, <2>6, <2>7
  <2> HIDE DEF a, b, d, rest
  <2>11. Len(outq) + d + rest <= b + r
    BY <2>1, <2>8, <2>9, <2>10
  <2>12. Len(outq) + d + rest <= r * (n + 1)
    BY <2>10, <2>11
  <2>13. Owed' = Len(outq) + d + rest
    BY <1>1 DEF Owed, d, rest, r, v
  <2>14. (world.replies * Len(issued))' = r * (n + 1)
    BY <1>1, <1>5, <1>11 DEF r
  <2> QED BY <2>12, <2>13, <2>14 DEF NoneTooMany
<1> QED BY <1>7, <1>10, <1>13, <1>15, <1>16 DEF TripInv


-----------------------------------------------------------------------------
(* The steps of the server.                                                *)

\* A set of commands that wait counts for no more than all that do; without one
\* of them for a command less.
LEMMA FewerWait ==
  ASSUME TripInv, NEW W, W \subseteq Waiting
  PROVE  /\ world.replies * Cardinality(W) \in Nat
         /\ world.replies * Cardinality(Waiting) \in Nat
         /\ world.replies * Cardinality(W) <= world.replies * Cardinality(Waiting)
         /\ \A x \in Waiting \ W :
              world.replies * Cardinality(W) + world.replies
                <= world.replies * Cardinality(Waiting)
<1> DEFINE r == world.replies
           a == Cardinality(W)
           b == Cardinality(Waiting)
<1>1. r \in Nat /\ b \in Nat /\ IsFiniteSet(Waiting)
  BY CountTypes, WaitingTypes
<1>2. a \in Nat /\ a <= b /\ IsFiniteSet(W)
  BY <1>1, FS_Subset, FS_CardinalityType
<1>3. r * a <= r * b /\ r * a \in Nat /\ r * b \in Nat
  <2> HIDE DEF r, a, b
  <2> QED BY <1>1, <1>2, Times
<1>4. ASSUME NEW x \in Waiting \ W PROVE r * a + r <= r * b
  <2>1. Cardinality(W \cup {x}) = a + 1
    BY <1>2, FS_AddElement
  <2>2. W \cup {x} \subseteq Waiting
    BY <1>4
  <2>3. a + 1 <= b
    BY <1>1, <2>1, <2>2, FS_Subset
  <2> HIDE DEF r, a, b
  <2>4. r * (a + 1) <= r * b /\ r * (a + 1) = r * a + r
    <3>1. a + 1 \in Nat
      BY <1>2
    <3>2. r * (a + 1) <= r * b
      BY <1>1, <2>3, <3>1, Times
    <3>3. r * (a + 1) = r * a + r
      BY <1>1, <1>2, Times
    <3> QED BY <3>2, <3>3
  <2>5. r * a \in Nat /\ r * b \in Nat
    BY <1>3
  <2> QED BY <1>1, <2>4, <2>5
<1> QED BY <1>3, <1>4

\* What is dispatched waits no more; its messages are owed still.
LEMMA TripDispatch ==
  ASSUME TripInv, Round!Dispatch
  PROVE  TripInv'
<1>1. /\ cur = 0 /\ inq # << >> /\ cur' = Head(inq) /\ inq' = Tail(inq) /\ posts' = 0
      /\ UNCHANGED <<world, connects, socket, nextSeqID, expected, issued, handling,
                     called, incoming, up, outq, held>>
  BY DEF Round!Dispatch, Round!pageVars
<1>2. /\ inq \in Seq(Commands) /\ Distinct(inq)
      /\ Tail(inq) \in Seq(Commands) /\ ToSet(Tail(inq)) \subseteq ToSet(inq)
      /\ Head(inq) \in Commands /\ Head(inq) \in ToSet(inq)
      /\ Distinct(Tail(inq)) /\ Head(inq) \notin ToSet(Tail(inq))
  <2>1. inq \in Seq(Commands) /\ Distinct(inq)
    BY DEF TripInv, ServerTyped, AreOnce
  <2> QED BY <1>1, <2>1, ToSetTail, DistinctTail
<1>3. PageTyped'
  BY <1>1 DEF TripInv, PageTyped
<1>4. ServerTyped'
  <2>1. cur' \in 0..MaxIssues
    BY <1>1, <1>2, JsClientAssumption DEF Commands
  <2>2. posts' \in Nat /\ posts' <= world.replies
    BY <1>1, CountTypes
  <2> QED BY <1>1, <1>2, <2>1, <2>2 DEF TripInv, ServerTyped
<1>5. AreIssued'
  BY <1>1, <1>2 DEF TripInv, AreIssued
<1>6. AreOnce'
  BY <1>1, <1>2 DEF TripInv, AreOnce, Distinct
<1>7. NoneTooMany'
  <2>1. Head(inq) \in Waiting
    BY <1>2 DEF Waiting
  <2>2. Waiting' \subseteq Waiting /\ Head(inq) \notin Waiting'
    BY <1>1, <1>2 DEF Waiting, TripInv, AreOnce
  <2> DEFINE r == world.replies
             a == r * Cardinality(Waiting')
             b == r * Cardinality(Waiting)
             most == r * Len(issued)
  <2>3. a \in Nat /\ b \in Nat /\ a + r <= b
    BY <2>1, <2>2, FewerWait
  <2>4. r \in Nat /\ Len(outq) \in Nat /\ Head(inq) # 0
    BY <1>2, CountTypes DEF Commands
  <2>5. most \in Nat
    BY CountTypes
  <2>6. Len(outq) + b + 0 <= most
    BY <1>1 DEF TripInv, NoneTooMany, Owed
  <2>7. Owed' = Len(outq) + a + (r - 0)
    BY <1>1, <2>4 DEF Owed
  <2>8. most' = most
    BY <1>1
  <2> HIDE DEF r, a, b, most
  <2>9. Owed' <= most
    BY <2>3, <2>4, <2>5, <2>6, <2>7
  <2> QED BY <2>8, <2>9 DEF NoneTooMany, most, r
<1> QED BY <1>3, <1>4, <1>5, <1>6, <1>7 DEF TripInv

\* A message that is posted is not owed again.
LEMMA TripPost ==
  ASSUME TripInv, Round!Post
  PROVE  TripInv'
<1>1. /\ cur # 0 /\ posts < world.replies /\ posts' = posts + 1
      /\ UNCHANGED <<world, connects, socket, nextSeqID, expected, issued, handling,
                     called, incoming, up, inq, cur, held>>
  BY DEF Round!Post, Round!pageVars
<1>2. PICK type \in {"response", "other"} :
        outq' = Append(outq, [to |-> cur, type |-> type]) \/ outq' = outq
  <2>1. \E type \in (IF world.lossy THEN {"response", "other"} ELSE {"response"}) :
          outq' = IF Len(outq) < OutCapacity
                    THEN Append(outq, [to |-> cur, type |-> type]) ELSE outq
    BY DEF Round!Post
  <2> QED BY <2>1
<1> DEFINE m == [to |-> cur, type |-> type]
<1>3. m \in Messages /\ m.to \in DOMAIN issued
  BY <1>1 DEF TripInv, ServerTyped, AreIssued, Messages, Commands
<1>4. /\ outq' \in Seq(Messages) /\ ToSet(outq') \subseteq ToSet(outq) \cup {m}
      /\ Len(outq') \in Nat /\ Len(outq') <= Len(outq) + 1
  <2>1. outq \in Seq(Messages) /\ Len(outq) \in Nat
    BY CountTypes DEF TripInv, ServerTyped
  <2> HIDE DEF m
  <2>2. /\ Append(outq, m) \in Seq(Messages) /\ ToSet(Append(outq, m)) = ToSet(outq) \cup {m}
        /\ Len(Append(outq, m)) = Len(outq) + 1
    BY <1>3, <2>1, ToSetAppend, AppendProperties
  <2>3. CASE outq' = Append(outq, m)
    <3>1. Len(outq) + 1 \in Nat
      BY <2>1
    <3> QED BY <2>2, <2>3, <3>1
  <2>4. CASE outq' = outq
    BY <2>1, <2>4
  <2> QED BY <1>2, <2>3, <2>4 DEF m
<1> HIDE DEF m
<1>5. PageTyped'
  BY <1>1 DEF TripInv, PageTyped
<1>6. ServerTyped'
  <2>1. posts' \in Nat /\ posts' <= world.replies
    BY <1>1, CountTypes
  <2> QED BY <1>1, <1>4, <2>1 DEF TripInv, ServerTyped
<1>7. AreIssued'
  BY <1>1, <1>3, <1>4 DEF TripInv, AreIssued
<1>8. AreOnce'
  BY <1>1 DEF TripInv, AreOnce, Distinct
<1>9. NoneTooMany'
  <2> DEFINE r == world.replies
             a == r * Cardinality(Waiting)
             most == r * Len(issued)
  <2>1. a \in Nat
    BY FewerWait
  <2>2. r \in Nat /\ Len(outq) \in Nat /\ posts \in Nat /\ most \in Nat
    BY CountTypes
  <2>3. Len(outq) + a + (r - posts) <= most
    BY <1>1 DEF TripInv, NoneTooMany, Owed
  <2>4. Owed' = Len(outq') + a + (r - (posts + 1)) /\ most' = most
    BY <1>1 DEF Owed, Waiting
  <2> HIDE DEF r, a, most
  <2>5. Owed' <= most
    BY <1>4, <2>1, <2>2, <2>3, <2>4
  <2> QED BY <2>4, <2>5 DEF NoneTooMany, most, r
<1> QED BY <1>5, <1>6, <1>7, <1>8, <1>9 DEF TripInv

\* A command that is done owes nothing.
LEMMA TripDone ==
  ASSUME TripInv, Round!Done
  PROVE  TripInv'
<1>1. /\ cur # 0 /\ cur' = 0 /\ posts' = 0
      /\ UNCHANGED <<world, connects, socket, nextSeqID, expected, issued, handling,
                     called, incoming, up, inq, outq, held>>
  BY DEF Round!Done, Round!pageVars
<1>2. PageTyped'
  BY <1>1 DEF TripInv, PageTyped
<1>3. ServerTyped'
  BY <1>1, CountTypes, JsClientAssumption DEF TripInv, ServerTyped
<1>4. AreIssued' /\ AreOnce'
  BY <1>1 DEF TripInv, AreIssued, AreOnce, Distinct
<1>5. NoneTooMany'
  <2> DEFINE r == world.replies
             a == r * Cardinality(Waiting)
             most == r * Len(issued)
  <2>1. a \in Nat
    BY FewerWait
  <2>2. r \in Nat /\ Len(outq) \in Nat /\ posts \in Nat /\ posts <= r /\ most \in Nat
    BY CountTypes
  <2>3. Len(outq) + a + (r - posts) <= most
    BY <1>1 DEF TripInv, NoneTooMany, Owed
  <2>4. Owed' = Len(outq) + a + 0 /\ most' = most
    BY <1>1 DEF Owed, Waiting
  <2> HIDE DEF r, a, most
  <2>5. Owed' <= most
    BY <2>1, <2>2, <2>3, <2>4
  <2> QED BY <2>4, <2>5 DEF NoneTooMany, most, r
<1> QED BY <1>2, <1>3, <1>4, <1>5 DEF TripInv

\* A command moves from its connection to `in', or nowhere.
LEMMA TripReceive ==
  ASSUME TripInv, NEW c \in Conns, Round!Receive(c)
  PROVE  TripInv'
<1> DEFINE x == Head(up[c])
<1>1. /\ up[c] # << >> /\ up' = [up EXCEPT ![c] = Tail(@)]
      /\ inq' = Append(inq, x) \/ inq' = inq
      /\ UNCHANGED <<world, connects, socket, nextSeqID, expected, issued, handling,
                     called, incoming, cur, posts, outq, held>>
  BY DEF Round!Receive, Round!pageVars
<1>2. /\ up \in [Conns -> Seq(Commands)] /\ up[c] \in Seq(Commands) /\ Distinct(up[c])
      /\ inq \in Seq(Commands) /\ Distinct(inq)
  BY DEF TripInv, ServerTyped, AreOnce
<1>3. /\ Tail(up[c]) \in Seq(Commands) /\ ToSet(Tail(up[c])) \subseteq ToSet(up[c])
      /\ x \in Commands /\ x \in ToSet(up[c])
      /\ Distinct(Tail(up[c])) /\ x \notin ToSet(Tail(up[c]))
  BY <1>1, <1>2, ToSetTail, DistinctTail
<1>4. x \in DOMAIN issued /\ issued[x].conn = c /\ x \notin ToSet(inq)
  BY <1>3 DEF TripInv, AreIssued, AreOnce
<1> HIDE DEF x
<1>5. /\ inq' \in Seq(Commands) /\ Distinct(inq')
      /\ ToSet(inq') \subseteq ToSet(inq) \cup {x}
  <2>1. /\ Append(inq, x) \in Seq(Commands) /\ Distinct(Append(inq, x))
        /\ ToSet(Append(inq, x)) = ToSet(inq) \cup {x}
    BY <1>2, <1>3, <1>4, ToSetAppend, DistinctAppend
  <2> QED BY <1>1, <1>2, <2>1
<1>6. /\ up' \in [Conns -> Seq(Commands)] /\ up'[c] = Tail(up[c])
      /\ \A d \in Conns : d # c => up'[d] = up[d]
  BY <1>1, <1>2, <1>3
<1>7. PageTyped'
  BY <1>1 DEF TripInv, PageTyped
<1>8. ServerTyped'
  BY <1>1, <1>5, <1>6 DEF TripInv, ServerTyped
<1>9. \A d \in Conns : ToSet(up'[d]) \subseteq ToSet(up[d]) /\ x \notin ToSet(up'[d])
  <2> SUFFICES ASSUME NEW d \in Conns
               PROVE  ToSet(up'[d]) \subseteq ToSet(up[d]) /\ x \notin ToSet(up'[d])
    OBVIOUS
  <2>1. CASE d = c
    BY <1>3, <1>6, <2>1
  <2>2. CASE d # c
    <3>1. x \notin ToSet(up[d])
      BY <1>4, <2>2 DEF TripInv, AreIssued
    <3> QED BY <1>6, <2>2, <3>1
  <2> QED BY <2>1, <2>2
<1>10. AreIssued'
  BY <1>1, <1>4, <1>5, <1>9 DEF TripInv, AreIssued
<1>11. AreOnce'
  <2>1. \A d \in Conns : Distinct(up'[d])
    BY <1>3, <1>6 DEF TripInv, AreOnce
  <2>2. \A d \in Conns : ToSet(up'[d]) \cap ToSet(inq') = {}
    BY <1>5, <1>9 DEF TripInv, AreOnce
  <2> QED BY <1>1, <1>5, <2>1, <2>2 DEF TripInv, AreOnce, Distinct
<1>12. NoneTooMany'
  <2>1. Waiting' \subseteq Waiting
    BY <1>3, <1>5, <1>9 DEF Waiting
  <2> DEFINE r == world.replies
             a == r * Cardinality(Waiting')
             b == r * Cardinality(Waiting)
             rest == IF cur = 0 THEN 0 ELSE r - posts
             most == r * Len(issued)
  <2>2. a \in Nat /\ b \in Nat /\ a <= b
    BY <2>1, FewerWait
  <2>3. r \in Nat /\ Len(outq) \in Nat /\ posts \in Nat /\ most \in Nat
    BY CountTypes
  <2>4. Len(outq) + b + rest <= most
    BY DEF TripInv, NoneTooMany, Owed
  <2>5. Owed' = Len(outq) + a + rest /\ most' = most
    BY <1>1 DEF Owed
  <2>6. rest \in Int
    BY <2>3
  <2> HIDE DEF r, a, b, rest, most
  <2>7. Owed' <= most
    BY <2>2, <2>3, <2>4, <2>5, <2>6
  <2> QED BY <2>5, <2>7 DEF NoneTooMany, most, r
<1> QED BY <1>7, <1>8, <1>10, <1>11, <1>12 DEF TripInv

\* A thread that holds nothing takes a message.
LEMMA TripPop ==
  ASSUME TripInv, NEW t \in {"app", "svc"}, Round!Pop(t)
  PROVE  TripInv'
<1> DEFINE m == Head(outq)
           h == [by |-> t, message |-> m]
<1>1. /\ outq # << >> /\ outq' = Tail(outq) /\ held' = Append(held, h)
      /\ \A i \in DOMAIN held : held[i].by # t
      /\ UNCHANGED <<world, connects, socket, nextSeqID, expected, issued, handling,
                     called, incoming, up, inq, cur, posts>>
  BY DEF Round!Pop, Round!Holds, Round!pageVars
<1>2. outq \in Seq(Messages) /\ held \in Seq(Holding)
  BY DEF TripInv, ServerTyped
<1>3. /\ Tail(outq) \in Seq(Messages) /\ ToSet(Tail(outq)) \subseteq ToSet(outq)
      /\ m \in Messages /\ m \in ToSet(outq) /\ m.to \in DOMAIN issued
      /\ Len(Tail(outq)) \in Nat /\ Len(Tail(outq)) <= Len(outq)
  <2>1. /\ Tail(outq) \in Seq(Messages) /\ ToSet(Tail(outq)) \subseteq ToSet(outq)
        /\ m \in Messages /\ m \in ToSet(outq)
    BY <1>1, <1>2, ToSetTail
  <2>2. Len(Tail(outq)) = Len(outq) - 1 /\ Len(outq) \in Nat \ {0}
    BY <1>1, <1>2, HeadTailProperties, LenProperties, EmptySeq
  <2> QED BY <2>1, <2>2 DEF TripInv, AreIssued
<1>4. h \in Holding /\ h.by = t /\ h.message = m
  BY <1>3 DEF Holding
<1> HIDE DEF m, h
<1>5. /\ Append(held, h) \in Seq(Holding) /\ ToSet(Append(held, h)) = ToSet(held) \cup {h}
      /\ DOMAIN Append(held, h) = 1..(Len(held) + 1) /\ DOMAIN held = 1..Len(held)
      /\ \A i \in 1..Len(held) : Append(held, h)[i] = held[i]
      /\ Append(held, h)[Len(held) + 1] = h /\ Len(held) \in Nat
  BY <1>2, <1>4, ToSetAppend, AppendProperties, LenProperties
<1>6. PageTyped'
  BY <1>1 DEF TripInv, PageTyped
<1>7. ServerTyped'
  BY <1>1, <1>3, <1>5 DEF TripInv, ServerTyped
<1>8. AreIssued'
  BY <1>1, <1>3, <1>4, <1>5 DEF TripInv, AreIssued
<1>9. AreOnce'
  <2> DEFINE g == Append(held, h)
  <2>1. \A i \in DOMAIN g : i \in 1..Len(held) \/ i = Len(held) + 1
    BY <1>5
  <2> HIDE DEF g
  <2>2. \A i, j \in DOMAIN g : g[i].by = g[j].by => i = j
    BY <1>1, <1>4, <1>5, <2>1 DEF g, TripInv, AreOnce
  <2> QED BY <1>1, <2>2 DEF g, TripInv, AreOnce, Distinct
<1>10. NoneTooMany'
  <2> DEFINE r == world.replies
             a == r * Cardinality(Waiting)
             rest == IF cur = 0 THEN 0 ELSE r - posts
             most == r * Len(issued)
  <2>1. a \in Nat
    BY FewerWait
  <2>2. r \in Nat /\ Len(outq) \in Nat /\ posts \in Nat /\ most \in Nat
    BY CountTypes
  <2>3. Len(outq) + a + rest <= most
    BY DEF TripInv, NoneTooMany, Owed
  <2>4. Owed' = Len(Tail(outq)) + a + rest /\ most' = most
    BY <1>1 DEF Owed, Waiting
  <2>5. rest \in Int
    BY <2>2
  <2> HIDE DEF r, a, rest, most
  <2>6. Owed' <= most
    BY <1>3, <2>1, <2>2, <2>3, <2>4, <2>5
  <2> QED BY <2>4, <2>6 DEF NoneTooMany, most, r
<1> QED BY <1>6, <1>7, <1>8, <1>9, <1>10 DEF TripInv

\* A thread's message is at one place, and goes to a connection or nowhere.
LEMMA TripWrite ==
  ASSUME TripInv, NEW t \in {"app", "svc"}, NEW c \in Conns, Round!Write(t, c)
  PROVE  TripInv'
<1>1. /\ UNCHANGED <<world, connects, socket, nextSeqID, expected, issued, handling,
                     called, up, inq, cur, posts, outq>>
      /\ \E i \in DOMAIN held :
           /\ held' = RemoveAt(held, i) \/ held' = held
           /\ \/ incoming' = [incoming EXCEPT ![c] = Append(@, held[i].message)]
              \/ incoming' = incoming
  BY DEF Round!Write, Round!pageVars, Round!RemoveAt, RemoveAt
<1>2. PICK i \in DOMAIN held :
        /\ held' = RemoveAt(held, i) \/ held' = held
        /\ \/ incoming' = [incoming EXCEPT ![c] = Append(@, held[i].message)]
           \/ incoming' = incoming
  BY <1>1
<1> DEFINE m == held[i].message
<1>3. /\ held \in Seq(Holding) /\ incoming \in [Conns -> Seq(Messages)]
      /\ incoming[c] \in Seq(Messages)
  BY DEF TripInv, ServerTyped, PageTyped
<1>4. /\ RemoveAt(held, i) \in Seq(Holding) /\ held[i] \in Holding
      /\ Len(held) \in Nat \ {0} /\ DOMAIN held = 1..Len(held)
      /\ DOMAIN RemoveAt(held, i) = 1..(Len(held) - 1)
      /\ \A j \in 1..(Len(held) - 1) :
           RemoveAt(held, i)[j] = held[IF j < i THEN j ELSE j + 1]
  BY <1>2, <1>3, RemoveAtFacts
<1>5. m \in Messages /\ m.to \in DOMAIN issued
  BY <1>2, <1>4 DEF Holding, TripInv, AreIssued, ToSet
<1> HIDE DEF m
<1>6. /\ incoming' \in [Conns -> Seq(Messages)]
      /\ \A d \in Conns : ToSet(incoming'[d]) \subseteq ToSet(incoming[d]) \cup {m}
  <2>1. /\ Append(incoming[c], m) \in Seq(Messages)
        /\ ToSet(Append(incoming[c], m)) = ToSet(incoming[c]) \cup {m}
    BY <1>3, <1>5, ToSetAppend
  <2>2. CASE incoming' = [incoming EXCEPT ![c] = Append(@, held[i].message)]
    BY <1>3, <2>1, <2>2 DEF m
  <2> QED BY <1>2, <1>3, <2>2
<1>7. /\ held' \in Seq(Holding) /\ ToSet(held') \subseteq ToSet(held)
      /\ \A j, k \in DOMAIN held' : held'[j].by = held'[k].by => j = k
  <2> DEFINE g == RemoveAt(held, i)
             at == [j \in DOMAIN g |-> IF j < i THEN j ELSE j + 1]
  <2>1. i \in 1..Len(held) /\ \A j \in DOMAIN g : j \in 1..(Len(held) - 1)
    BY <1>2, <1>4
  <2>2. \A j \in DOMAIN g : at[j] \in DOMAIN held /\ g[j] = held[at[j]]
    BY <1>4, <2>1
  <2>3. \A j, k \in DOMAIN g : at[j] = at[k] => j = k
    BY <1>4, <2>1
  <2> HIDE DEF g, at
  <2>4. \A j, k \in DOMAIN g : g[j].by = g[k].by => j = k
    BY <2>2, <2>3 DEF TripInv, AreOnce
  <2>5. ToSet(g) \subseteq ToSet(held)
    BY <2>2 DEF ToSet
  <2>6. g \in Seq(Holding)
    BY <1>4 DEF g
  <2> QED BY <1>2, <1>3, <2>4, <2>5, <2>6 DEF g, TripInv, AreOnce
<1>8. PageTyped'
  BY <1>1, <1>6 DEF TripInv, PageTyped
<1>9. ServerTyped'
  BY <1>1, <1>7 DEF TripInv, ServerTyped
<1>10. AreIssued'
  BY <1>1, <1>5, <1>6, <1>7 DEF TripInv, AreIssued
<1>11. AreOnce'
  BY <1>1, <1>7 DEF TripInv, AreOnce, Distinct
<1>12. NoneTooMany'
  BY <1>1 DEF TripInv, NoneTooMany, Owed, Waiting
<1> QED BY <1>8, <1>9, <1>10, <1>11, <1>12 DEF TripInv

\* At first nothing waits.
LEMMA TripInit == Round!Init => TripInv /\ Round!Client!Init
<1> SUFFICES ASSUME Round!Init PROVE TripInv /\ Round!Client!Init
  OBVIOUS
<1>1. /\ world \in Worlds /\ connects = 0 /\ socket = [c \in Conns |-> "none"]
      /\ nextSeqID = 0 /\ expected = [id \in 0..MaxIssues |-> 0] /\ issued = << >>
      /\ incoming = [c \in Conns |-> << >>] /\ handling = None /\ called = << >>
      /\ up = [c \in Conns |-> << >>] /\ inq = << >> /\ cur = 0 /\ posts = 0
      /\ outq = << >> /\ held = << >>
  BY SameNames DEF Round!Init, Round!Client!Init
<1>2. /\ world.connects \in Nat /\ world.issues \in Nat /\ world.replies \in Nat
      /\ MaxIssues \in Nat
  BY <1>1, WorldTypes, JsClientAssumption
<1> DEFINE none == << >>
<1>3. \A S : none \in Seq(S)
  BY EmptySeq
<1>4. Len(none) = 0 /\ DOMAIN none = {} /\ ToSet(none) = {}
  <2>1. Len(none) = 0 /\ DOMAIN none = 1..Len(none)
    BY <1>3, LenProperties, EmptySeq
  <2> HIDE DEF none
  <2>2. DOMAIN none = {}
    BY <2>1
  <2> QED BY <2>1, <2>2 DEF ToSet
<1>5. PageTyped
  BY <1>1, <1>2, <1>3, <1>4 DEF PageTyped, None
<1>6. ServerTyped
  BY <1>1, <1>2, <1>3 DEF ServerTyped
<1>7. /\ issued = none /\ inq = none /\ outq = none /\ held = none
      /\ \A c \in Conns : up[c] = none /\ incoming[c] = none
  BY <1>1
<1> HIDE DEF none
<1>8. AreIssued
  BY <1>1, <1>4, <1>7 DEF AreIssued
<1>9. AreOnce
  BY <1>4, <1>7 DEF AreOnce, Distinct
<1>10. NoneTooMany
  <2>1. Waiting = {}
    BY <1>4, <1>7 DEF Waiting
  <2>2. Cardinality(Waiting) = 0
    BY <2>1, FS_EmptySet
  <2>3. Owed = 0 + world.replies * 0 + 0 /\ world.replies * Len(issued) = world.replies * 0
    BY <1>1, <1>4, <1>7, <2>2 DEF Owed
  <2> QED BY <1>2, <2>3 DEF NoneTooMany
<1>11. Round!Client!Init
  BY DEF Round!Init
<1> QED BY <1>5, <1>6, <1>8, <1>9, <1>10, <1>11 DEF TripInv

-----------------------------------------------------------------------------
(* The round trip, seen from the page.                                     *)

\* Of connection c, the command that is dispatched and those that `in' holds.
FirstOf(c) == IF cur # 0 /\ issued[cur].conn = c THEN << cur >> ELSE << >>
QueuedOf(c) == Round!Of(issued, c, inq)

\* The messages that threads hold.
MessagesOf(holders) == [i \in DOMAIN holders |-> holders[i].message]

Mapping ==
  /\ \A c \in Conns :
       /\ FirstOf(c) \in Seq(Commands) /\ QueuedOf(c) \in Seq(Commands)
       /\ up[c] \in Seq(Commands) /\ FirstOf(c) \o QueuedOf(c) \in Seq(Commands)
  /\ Round!Requests = [c \in Conns |-> (FirstOf(c) \o QueuedOf(c)) \o up[c]]
  /\ Round!Replied = [c \in Conns |-> IF FirstOf(c) # << >> THEN posts ELSE 0]
  /\ Round!Posted = MessagesOf(held) \o outq
  /\ MessagesOf(held) \in Seq(Messages) /\ Len(MessagesOf(held)) = Len(held)
  /\ outq \in Seq(Messages)

\* The messages that threads hold are as many as the holders.
LEMMA HeldMessages ==
  ASSUME NEW h \in Seq(Holding)
  PROVE  /\ MessagesOf(h) \in Seq(Messages) /\ Len(MessagesOf(h)) = Len(h)
         /\ Len(h) \in Nat /\ DOMAIN h = 1..Len(h) /\ DOMAIN MessagesOf(h) = 1..Len(h)
         /\ \A i \in 1..Len(h) :
              /\ h[i] \in Holding /\ h[i].message \in Messages
              /\ MessagesOf(h)[i] = h[i].message
<1>1. /\ Len(h) \in Nat /\ DOMAIN h = 1..Len(h) /\ \A i \in 1..Len(h) : h[i] \in Holding
  BY LenProperties, ElementOfSeq
<1>2. \A i \in 1..Len(h) : h[i].message \in Messages
  BY <1>1 DEF Holding
<1> DEFINE n == Len(h)
           m == [i \in 1..n |-> h[i].message]
<1>3. MessagesOf(h) = m
  BY <1>1 DEF MessagesOf
<1>4. \A i \in 1..n : m[i] = h[i].message
  OBVIOUS
<1>5. m \in [1..n -> Messages]
  BY <1>2
<1> HIDE DEF n, m
<1>6. m \in Seq(Messages) /\ Len(m) = n /\ DOMAIN m = 1..n
  <2>1. n \in Nat
    BY <1>1 DEF n
  <2>2. m \in Seq(Messages)
    BY <1>5, <2>1
  <2>3. DOMAIN m = 1..n
    BY <1>5
  <2> QED BY <2>1, <2>2, <2>3, LenProperties
<1> QED BY <1>1, <1>2, <1>3, <1>4, <1>6 DEF n

\* What the page sees as the server's queues are sequences of commands and messages.
LEMMA Mapped == TripInv => Mapping
<1> SUFFICES ASSUME TripInv PROVE Mapping
  OBVIOUS
<1>1. /\ inq \in Seq(Commands) /\ up \in [Conns -> Seq(Commands)] /\ cur \in 0..MaxIssues
      /\ MaxIssues \in Nat /\ outq \in Seq(Messages) /\ held \in Seq(Holding)
  BY JsClientAssumption DEF TripInv, ServerTyped
<1>2. << >> \in Seq(Commands) /\ (cur # 0 => cur \in Commands /\ << cur >> \in Seq(Commands))
  BY <1>1, EmptySeq DEF Commands
<1>3. ASSUME NEW c \in Conns
      PROVE  /\ FirstOf(c) \in Seq(Commands) /\ QueuedOf(c) \in Seq(Commands)
             /\ up[c] \in Seq(Commands)
             /\ Round!Of(issued, c, Round!Current) = FirstOf(c)
  <2>1. FirstOf(c) \in Seq(Commands)
    BY <1>2 DEF FirstOf
  <2>2. QueuedOf(c) \in Seq(Commands)
    BY <1>1, OfType DEF QueuedOf
  <2>3. CASE cur = 0
    <3> DEFINE none == << >>
    <3>1. Round!Current = none /\ FirstOf(c) = none /\ none \in Seq(Commands)
      BY <1>2, <2>3 DEF Round!Current, FirstOf
    <3>2. none = << >>
      OBVIOUS
    <3> HIDE DEF none
    <3>3. Round!Of(issued, c, none) = << >>
      BY <3>1, <3>2, OfType
    <3> QED BY <1>1, <2>1, <2>2, <3>1, <3>2, <3>3
  <2>4. CASE cur # 0
    <3>1. Round!Of(issued, c, << cur >>) = IF issued[cur].conn = c THEN << cur >> ELSE << >>
      BY <1>2, <2>4, OfOne
    <3>2. Round!Current = << cur >>
      BY <2>4 DEF Round!Current
    <3> QED BY <1>1, <2>1, <2>2, <2>4, <3>1, <3>2 DEF FirstOf
  <2> QED BY <2>3, <2>4
<1>4. \A c \in Conns : FirstOf(c) \o QueuedOf(c) \in Seq(Commands)
  BY <1>3, ConcatProperties
<1>5. Round!Requests = [c \in Conns |-> (FirstOf(c) \o QueuedOf(c)) \o up[c]]
  BY <1>3, SameNames DEF Round!Requests, QueuedOf
<1>6. Round!Replied = [c \in Conns |-> IF FirstOf(c) # << >> THEN posts ELSE 0]
  BY <1>3, SameNames DEF Round!Replied
<1>7. Round!Posted = MessagesOf(held) \o outq
  BY DEF Round!Posted, MessagesOf
<1> QED BY <1>1, <1>3, <1>4, <1>5, <1>6, <1>7, HeldMessages DEF Mapping

\* The tables that the page and its server have, so mapped, have their types.
LEMMA MappedTypes == TripInv => Round!Client!TypeOK
<1> SUFFICES ASSUME TripInv PROVE Round!Client!TypeOK
  OBVIOUS
<1>1. Mapping /\ PageTyped
  BY Mapped DEF TripInv
<1>2. connects \in 0..MaxConnects /\ nextSeqID \in 0..MaxIssues
  <2>1. /\ world.connects \in Nat /\ world.connects <= MaxConnects /\ MaxConnects \in Nat
        /\ Len(issued) \in Nat /\ Len(issued) <= MaxIssues /\ MaxIssues \in Nat
    BY <1>1, WorldTypes, IssuedTypes DEF PageTyped
  <2>2. connects \in Nat /\ connects <= world.connects /\ nextSeqID \in Nat /\ nextSeqID <= Len(issued)
    BY <1>1 DEF PageTyped
  <2> QED BY <2>1, <2>2
<1>3. Round!Requests \in [Conns -> Seq(Commands)]
  <2>1. \A c \in Conns : (FirstOf(c) \o QueuedOf(c)) \o up[c] \in Seq(Commands)
    BY <1>1, ConcatProperties DEF Mapping
  <2> QED BY <1>1, <2>1 DEF Mapping
<1>4. Round!Replied \in [Conns -> 0..world.replies]
  <2>1. posts \in 0..world.replies /\ 0 \in 0..world.replies
    BY CountTypes
  <2> QED BY <1>1, <2>1 DEF Mapping
<1>5. Round!Posted \in Seq(Messages)
  BY <1>1, ConcatProperties DEF Mapping
<1> QED BY <1>1, <1>2, <1>3, <1>4, <1>5, SameNames DEF PageTyped, Round!Client!TypeOK

\* A command that is dispatched was the first of its connection, and still is.
LEMMA DispatchStutters ==
  ASSUME TripInv, TripInv', Round!Dispatch
  PROVE  UNCHANGED Round!Client!vars
<1>1. /\ cur = 0 /\ inq # << >> /\ cur' = Head(inq) /\ inq' = Tail(inq) /\ posts' = 0
      /\ UNCHANGED <<world, connects, socket, nextSeqID, expected, issued, handling,
                     called, incoming, up, outq, held>>
  BY DEF Round!Dispatch, Round!pageVars
<1>2. Mapping /\ Mapping'
  BY Mapped, PTL
<1>3. inq \in Seq(Commands) /\ Head(inq) \in Commands /\ Head(inq) # 0
      /\ Tail(inq) \in Seq(Commands)
  <2>1. inq \in Seq(Commands) /\ Head(inq) \in Commands /\ Tail(inq) \in Seq(Commands)
    BY <1>1, ToSetTail DEF TripInv, ServerTyped
  <2> QED BY <2>1 DEF Commands
<1>4. ASSUME NEW c \in Conns
      PROVE  FirstOf(c)' \o QueuedOf(c)' = FirstOf(c) \o QueuedOf(c) /\ FirstOf(c) = << >>
  <2>1. FirstOf(c) = << >>
    BY <1>1 DEF FirstOf
  <2>2. QueuedOf(c) =
          Round!Of(issued, c, << Head(inq) >>) \o Round!Of(issued, c, Tail(inq))
    BY <1>1, <1>3, OfHead DEF QueuedOf
  <2>3. Round!Of(issued, c, << Head(inq) >>) =
          IF issued[Head(inq)].conn = c THEN << Head(inq) >> ELSE << >>
    BY <1>3, OfOne
  <2>4. FirstOf(c)' = Round!Of(issued, c, << Head(inq) >>)
    BY <1>1, <1>3, <2>3 DEF FirstOf
  <2>5. QueuedOf(c)' = Round!Of(issued, c, Tail(inq))
    BY <1>1 DEF QueuedOf
  <2>6. FirstOf(c) \o QueuedOf(c) = QueuedOf(c)
    BY <1>2, <2>1, ConcatEmptySeq DEF Mapping
  <2> QED BY <2>1, <2>2, <2>4, <2>5, <2>6
<1>5. Round!Requests' = Round!Requests
  BY <1>1, <1>2, <1>4 DEF Mapping
<1>6. Round!Replied' = Round!Replied
  <2>1. \A c \in Conns : (IF FirstOf(c)' # << >> THEN posts' ELSE 0) = 0
    BY <1>1
  <2>2. \A c \in Conns : (IF FirstOf(c) # << >> THEN posts ELSE 0) = 0
    BY <1>4
  <2> QED BY <1>2, <2>1, <2>2 DEF Mapping
<1>7. Round!Posted' = Round!Posted
  BY <1>1, <1>2 DEF Mapping
<1> QED BY <1>1, <1>5, <1>6, <1>7 DEF Round!Client!vars

\* The command that is dispatched is the first of its connection, and of no other.
LEMMA CurrentFirst ==
  ASSUME TripInv, cur # 0
  PROVE  /\ issued[cur].conn \in Conns
         /\ \A c \in Conns : FirstOf(c) = IF c = issued[cur].conn THEN << cur >> ELSE << >>
         /\ Round!Requests[issued[cur].conn] # << >>
         /\ Head(Round!Requests[issued[cur].conn]) = cur
         /\ Tail(Round!Requests[issued[cur].conn])
              = QueuedOf(issued[cur].conn) \o up[issued[cur].conn]
         /\ Round!Replied[issued[cur].conn] = posts
<1> DEFINE d == issued[cur].conn
<1>1. Mapping
  BY Mapped
<1>2. d \in Conns /\ cur \in Commands
  BY DEF TripInv, AreIssued, ServerTyped, Commands
<1>3. \A c \in Conns : FirstOf(c) = IF c = d THEN << cur >> ELSE << >>
  BY DEF FirstOf
<1> HIDE DEF d
<1> DEFINE one == << cur >>
           q == QueuedOf(d)
           u == up[d]
           rest == q \o u
<1>4. /\ one \in Seq(Commands) /\ q \in Seq(Commands) /\ u \in Seq(Commands)
      /\ Len(one) = 1 /\ one[1] = cur /\ one # << >>
  BY <1>1, <1>2 DEF Mapping
<1>5. FirstOf(d) = one
  BY <1>2, <1>3
<1>6. Round!Requests[d] = (one \o q) \o u
  BY <1>1, <1>2, <1>5 DEF Mapping
<1>7. Round!Replied[d] = posts
  BY <1>1, <1>2, <1>4, <1>5 DEF Mapping
<1> HIDE DEF one, q, u
<1>8. (one \o q) \o u = one \o rest
  BY <1>4
<1>9. rest \in Seq(Commands)
  BY <1>4, ConcatProperties
<1> HIDE DEF rest
<1>10. one \o rest # << >> /\ Head(one \o rest) = cur /\ Tail(one \o rest) = rest
  <2>1. one = << cur >>
    BY DEF one
  <2> QED BY <1>2, <1>9, <2>1
<1> QED BY <1>2, <1>3, <1>6, <1>7, <1>8, <1>10 DEF d, rest, q, u

\* Where nothing may be lost there is a place in `out' for every message.
LEMMA OutFits ==
  ASSUME TripInv, Round!Fits, cur # 0, posts < world.replies, ~(Len(outq) < OutCapacity)
  PROVE  world.lossy
<1> SUFFICES ASSUME ~world.lossy PROVE FALSE
  OBVIOUS
<1> DEFINE r == world.replies
           a == r * Cardinality(Waiting)
           n == Len(issued)
           k == world.issues
           most == r * n
           all == r * k
<1>1. /\ r \in Nat /\ n \in Nat /\ k \in Nat /\ n <= k
      /\ Len(outq) \in Nat /\ posts \in Nat /\ a \in Nat
  <2>1. world \in Worlds /\ n <= k
    BY DEF TripInv, PageTyped
  <2> QED BY <2>1, CountTypes, FewerWait, WorldTypes
<1>2. Len(outq) + a + (r - posts) <= most
  BY DEF TripInv, NoneTooMany, Owed
<1>3. k * r <= OutCapacity /\ OutCapacity \in Nat
  BY DEF TripInv, PageTyped, Round!Fits
<1> HIDE DEF r, a, n, k
<1>4. most <= all /\ most \in Nat /\ all \in Nat
  BY <1>1, Times
<1>5. all = k * r
  BY <1>1
<1>6. posts < r
  BY DEF r
<1> HIDE DEF most, all
<1> QED BY <1>1, <1>2, <1>3, <1>4, <1>5, <1>6

\* A handler posts for the first command of its connection.
LEMMA PostPosts ==
  ASSUME TripInv, TripInv', Round!Fits, Round!Post
  PROVE  Round!Client!Post(issued[cur].conn)
<1> DEFINE d == issued[cur].conn
<1>1. /\ cur # 0 /\ posts < world.replies /\ posts' = posts + 1
      /\ UNCHANGED <<world, connects, socket, nextSeqID, expected, issued, handling,
                     called, incoming, up, inq, cur, held>>
  BY DEF Round!Post, Round!pageVars
<1>2. Mapping /\ Mapping'
  BY Mapped, PTL
<1>3. /\ d \in Conns /\ \A c \in Conns : FirstOf(c) = IF c = d THEN << cur >> ELSE << >>
      /\ Round!Requests[d] # << >> /\ Head(Round!Requests[d]) = cur
      /\ Round!Replied[d] = posts
  BY <1>1, CurrentFirst
<1>4. \A c \in Conns : FirstOf(c)' = FirstOf(c) /\ QueuedOf(c)' = QueuedOf(c)
  BY <1>1 DEF FirstOf, QueuedOf
<1>5. Round!Requests' = Round!Requests
  BY <1>1, <1>2, <1>4 DEF Mapping
<1> HIDE DEF d
<1>6. Round!Replied' = [Round!Replied EXCEPT ![d] = @ + 1]
  <2> DEFINE old == [c \in Conns |-> IF c = d THEN posts ELSE 0]
  <2>1. << cur >> # << >>
    OBVIOUS
  <2>2. Round!Replied = old
    BY <1>2, <1>3, <2>1 DEF Mapping
  <2>3. Round!Replied' = [c \in Conns |-> IF c = d THEN posts + 1 ELSE 0]
    BY <1>1, <1>2, <1>3, <1>4, <2>1 DEF Mapping
  <2>4. [old EXCEPT ![d] = @ + 1] = [c \in Conns |-> IF c = d THEN posts + 1 ELSE 0]
    BY <1>3
  <2> QED BY <2>2, <2>3, <2>4
<1>7. \/ \E type \in (IF world.lossy THEN {"response", "other"} ELSE {"response"}) :
           Round!Posted' = Append(Round!Posted, [to |-> cur, type |-> type])
      \/ world.lossy /\ UNCHANGED Round!Posted
  <2>1. PICK type \in (IF world.lossy THEN {"response", "other"} ELSE {"response"}) :
          outq' = IF Len(outq) < OutCapacity
                    THEN Append(outq, [to |-> cur, type |-> type]) ELSE outq
    BY DEF Round!Post
  <2> DEFINE m == [to |-> cur, type |-> type]
  <2>2. Round!Posted = MessagesOf(held) \o outq /\ Round!Posted' = MessagesOf(held) \o outq'
    BY <1>1, <1>2 DEF Mapping, MessagesOf
  <2>3. CASE Len(outq) < OutCapacity
    <3>1. m \in Messages
      <4>1. cur \in Commands /\ type \in {"response", "other"}
        BY <1>1 DEF TripInv, ServerTyped, Commands
      <4> QED BY <4>1 DEF Messages
    <3>2. outq' = Append(outq, m)
      BY <2>1, <2>3
    <3> DEFINE one == << m >>
               h == MessagesOf(held)
    <3>3. one \in Seq(Messages) /\ h \in Seq(Messages) /\ outq \in Seq(Messages)
      BY <1>2, <3>1 DEF Mapping
    <3>4. h \o outq \in Seq(Messages)
      BY <3>3, ConcatProperties
    <3>5. Append(outq, m) = outq \o one /\ Append(h \o outq, m) = (h \o outq) \o one
      BY <3>1, <3>3, <3>4, AppendIsConcat
    <3> HIDE DEF one, h
    <3>6. (h \o outq) \o one = h \o (outq \o one)
      BY <3>3
    <3>7. Round!Posted' = Append(Round!Posted, m)
      BY <2>2, <3>2, <3>5, <3>6 DEF h
    <3> QED BY <2>1, <3>7
  <2>4. CASE ~(Len(outq) < OutCapacity)
    <3>1. world.lossy
      BY <1>1, <2>4, OutFits
    <3> QED BY <2>1, <2>2, <2>4, <3>1
  <2> QED BY <2>3, <2>4
<1>8. Round!Client!Post(d)
  BY <1>1, <1>3, <1>5, <1>6, <1>7 DEF Round!Client!Post
<1> QED BY <1>8 DEF d

\* The command that is done was the first of its connection.
LEMMA DoneIsDone ==
  ASSUME TripInv, TripInv', Round!Done
  PROVE  Round!Client!Done(issued[cur].conn)
<1> DEFINE d == issued[cur].conn
<1>1. /\ cur # 0 /\ cur' = 0 /\ posts' = 0 /\ (world.lossy \/ posts > 0)
      /\ UNCHANGED <<world, connects, socket, nextSeqID, expected, issued, handling,
                     called, incoming, up, inq, outq, held>>
  BY DEF Round!Done, Round!pageVars
<1>2. Mapping /\ Mapping'
  BY Mapped, PTL
<1>3. /\ d \in Conns /\ \A c \in Conns : FirstOf(c) = IF c = d THEN << cur >> ELSE << >>
      /\ Round!Requests[d] # << >>
      /\ Tail(Round!Requests[d]) = QueuedOf(d) \o up[d]
      /\ Round!Replied[d] = posts
  BY <1>1, CurrentFirst
<1>4. \A c \in Conns : FirstOf(c)' = << >> /\ QueuedOf(c)' = QueuedOf(c)
  BY <1>1 DEF FirstOf, QueuedOf
<1> HIDE DEF d
<1>5. Round!Requests' = [Round!Requests EXCEPT ![d] = Tail(@)]
  <2>1. \A c \in Conns : << >> \o QueuedOf(c) = QueuedOf(c)
    BY <1>2, ConcatEmptySeq DEF Mapping
  <2>2. Round!Requests' = [c \in Conns |-> QueuedOf(c) \o up[c]]
    BY <1>1, <1>2, <1>4, <2>1 DEF Mapping
  <2>3. \A c \in Conns : c # d => Round!Requests[c] = QueuedOf(c) \o up[c]
    BY <1>2, <1>3, <2>1 DEF Mapping
  <2>4. Round!Requests = [c \in Conns |-> Round!Requests[c]]
    BY <1>2 DEF Mapping
  <2> DEFINE old == Round!Requests
  <2> HIDE DEF old
  <2>5. [old EXCEPT ![d] = Tail(@)] = [c \in Conns |-> QueuedOf(c) \o up[c]]
    BY <1>3, <2>3, <2>4 DEF old
  <2> QED BY <2>2, <2>5 DEF old
<1>6. Round!Replied' = [Round!Replied EXCEPT ![d] = 0]
  <2> DEFINE old == [c \in Conns |-> IF c = d THEN posts ELSE 0]
  <2>1. << cur >> # << >>
    OBVIOUS
  <2>2. Round!Replied = old
    BY <1>2, <1>3, <2>1 DEF Mapping
  <2>3. Round!Replied' = [c \in Conns |-> 0]
    BY <1>1, <1>2, <1>4 DEF Mapping
  <2>4. [old EXCEPT ![d] = 0] = [c \in Conns |-> 0]
    BY <1>3
  <2> QED BY <2>2, <2>3, <2>4
<1>7. Round!Posted' = Round!Posted
  BY <1>1, <1>2 DEF Mapping, MessagesOf
<1>8. Round!Client!Done(d)
  BY <1>1, <1>3, <1>5, <1>6, <1>7 DEF Round!Client!Done
<1> QED BY <1>8 DEF d

\* Where nothing may be lost there is a place in `in' for a command that arrives.
LEMMA InFits ==
  ASSUME TripInv, Round!Fits, NEW c \in Conns, up[c] # << >>, ~(Len(inq) < InCapacity)
  PROVE  world.lossy
<1> SUFFICES ASSUME ~world.lossy PROVE FALSE
  OBVIOUS
<1> DEFINE n == Len(issued)
           all == 1..n
           x == Head(up[c])
           S == all \ {x}
<1>1. n \in Nat /\ DOMAIN issued = all
  BY IssuedTypes DEF TripInv
<1>2. world \in Worlds /\ n <= world.issues
  BY DEF TripInv, PageTyped
<1>3. world.issues <= InCapacity /\ InCapacity \in Nat /\ world.issues \in Nat
  BY <1>2, WorldTypes DEF Round!Fits
<1>4. inq \in Seq(Commands) /\ Distinct(inq) /\ up[c] \in Seq(Commands)
  BY DEF TripInv, ServerTyped, AreOnce
<1>5. x \in ToSet(up[c])
  BY <1>4, ToSetTail
<1>6. x \in all /\ x \notin ToSet(inq) /\ ToSet(inq) \subseteq all
  BY <1>1, <1>5 DEF TripInv, AreIssued, AreOnce
<1>7. IsFiniteSet(all) /\ Cardinality(all) = n
  <2>1. n \in Nat
    BY <1>1
  <2> HIDE DEF n
  <2>2. IsFiniteSet(1..n) /\ Cardinality(1..n) = n
    BY <2>1, FS_Interval
  <2> QED BY <2>2
<1> HIDE DEF n, all, x
<1>8. IsFiniteSet(S) /\ Cardinality(S) = n - 1
  BY <1>6, <1>7, FS_RemoveElement
<1>9. ToSet(inq) \subseteq S
  BY <1>6
<1> HIDE DEF S
<1>10. inq \in Seq(S)
  <2>1. Len(inq) \in Nat /\ DOMAIN inq = 1..Len(inq) /\ inq = [i \in 1..Len(inq) |-> inq[i]]
    BY <1>4, LenProperties
  <2>2. \A i \in 1..Len(inq) : inq[i] \in S
    BY <1>9, <2>1 DEF ToSet
  <2> QED BY <2>1, <2>2
<1>11. Len(inq) \in Nat /\ Len(inq) <= Cardinality(S)
  BY <1>4, <1>8, <1>10, DistinctFits
<1> QED BY <1>1, <1>2, <1>3, <1>8, <1>11

\* A command that arrives and finds a place is where it was; another is lost.
LEMMA ReceiveMaps ==
  ASSUME TripInv, TripInv', Round!Fits, NEW c \in Conns, Round!Receive(c)
  PROVE  Round!Client!Lose(c) \/ UNCHANGED Round!Client!vars
<1> DEFINE x == Head(up[c])
           f == FirstOf(c) \o QueuedOf(c)
<1>1. /\ up[c] # << >> /\ up' = [up EXCEPT ![c] = Tail(@)]
      /\ inq' = IF Len(inq) < InCapacity THEN Append(inq, x) ELSE inq
      /\ UNCHANGED <<world, connects, socket, nextSeqID, expected, issued, handling,
                     called, incoming, cur, posts, outq, held>>
  BY DEF Round!Receive, Round!pageVars
<1>2. Mapping /\ Mapping'
  BY Mapped, PTL
<1>3. /\ up \in [Conns -> Seq(Commands)] /\ inq \in Seq(Commands) /\ up[c] \in Seq(Commands)
      /\ x \in Commands /\ x \in ToSet(up[c])
  <2>1. up \in [Conns -> Seq(Commands)] /\ inq \in Seq(Commands) /\ up[c] \in Seq(Commands)
    BY DEF TripInv, ServerTyped
  <2> QED BY <1>1, <2>1, ToSetTail
<1>4. issued[x].conn = c
  BY <1>3 DEF TripInv, AreIssued
<1> HIDE DEF x
<1>5. /\ \A d \in Conns : FirstOf(d)' = FirstOf(d)
      /\ up' = [d \in Conns |-> IF d = c THEN Tail(up[c]) ELSE up[d]]
  BY <1>1, <1>3 DEF FirstOf
<1>6. Round!Posted' = Round!Posted /\ Round!Replied' = Round!Replied
  BY <1>1, <1>2, <1>5 DEF Mapping, MessagesOf
<1>7. f \in Seq(Commands)
  BY <1>2 DEF Mapping
<1>8. CASE Len(inq) < InCapacity
  <2>1. inq' = Append(inq, x)
    BY <1>1, <1>8
  <2>2. ASSUME NEW d \in Conns
        PROVE  QueuedOf(d)' = IF d = c THEN Append(QueuedOf(c), x) ELSE QueuedOf(d)
    <3>1. Round!Of(issued, d, Append(inq, x)) = Keep(issued, d, QueuedOf(d), x)
      BY <1>3, OfAppend DEF QueuedOf
    <3>2. QueuedOf(d)' = Round!Of(issued, d, Append(inq, x))
      BY <1>1, <2>1 DEF QueuedOf
    <3> QED BY <1>4, <3>1, <3>2 DEF Keep
  <2>3. (FirstOf(c) \o Append(QueuedOf(c), x)) \o Tail(up[c]) = f \o up[c]
    <3> DEFINE q == QueuedOf(c)
               p == FirstOf(c)
               one == << x >>
    <3>1. q \in Seq(Commands) /\ p \in Seq(Commands) /\ one \in Seq(Commands)
      BY <1>2, <1>3 DEF Mapping
    <3>2. Append(q, x) = q \o one /\ Append(f, x) = f \o one /\ f = p \o q
      BY <1>3, <1>7, <3>1, AppendIsConcat
    <3> HIDE DEF q, p, one, f
    <3>3. (p \o q) \o one = p \o (q \o one)
      BY <3>1
    <3>4. Append(f, x) \o Tail(up[c]) = f \o up[c]
      BY <1>1, <1>3, <1>7, MoveAcross DEF x
    <3> QED BY <3>2, <3>3, <3>4 DEF q, p
  <2>4. \A d \in Conns : (FirstOf(d)' \o QueuedOf(d)') \o up'[d]
                           = (FirstOf(d) \o QueuedOf(d)) \o up[d]
    BY <1>5, <2>2, <2>3
  <2>5. Round!Requests' = Round!Requests
    BY <1>2, <2>4 DEF Mapping
  <2> QED BY <1>1, <1>6, <2>5 DEF Round!Client!vars
<1>9. CASE ~(Len(inq) < InCapacity)
  <2>1. world.lossy /\ inq' = inq
    BY <1>1, <1>9, InFits
  <2>2. \A d \in Conns : QueuedOf(d)' = QueuedOf(d)
    BY <1>1, <2>1 DEF QueuedOf
  <2> DEFINE i == Len(f) + 1
  <2>3. i \in DOMAIN (f \o up[c]) /\ RemoveAt(f \o up[c], i) = f \o Tail(up[c])
    BY <1>1, <1>3, <1>7, RemoveNext
  <2>4. i = 1 => Round!Replied[c] = 0
    <3>1. ASSUME i = 1 PROVE FirstOf(c) = << >>
      <4>1. Len(FirstOf(c)) \in Nat /\ Len(QueuedOf(c)) \in Nat
            /\ Len(f) = Len(FirstOf(c)) + Len(QueuedOf(c))
        BY <1>2, ConcatProperties, LenProperties DEF Mapping
      <4>2. Len(FirstOf(c)) = 0
        BY <3>1, <4>1
      <4> QED BY <1>2, <4>2, EmptySeq DEF Mapping
    <3> QED BY <1>2, <3>1 DEF Mapping
  <2> HIDE DEF i
  <2>5. Round!Requests[c] = f \o up[c]
    BY <1>2 DEF Mapping
  <2>6. Round!Requests' = [Round!Requests EXCEPT ![c] = RemoveAt(@, i)]
    <3>1. Round!Requests' = [d \in Conns |->
            IF d = c THEN RemoveAt(Round!Requests[c], i) ELSE Round!Requests[d]]
      BY <1>2, <1>5, <2>2, <2>3, <2>5 DEF Mapping
    <3>2. Round!Requests = [d \in Conns |-> Round!Requests[d]]
      BY <1>2 DEF Mapping
    <3> DEFINE old == Round!Requests
    <3> HIDE DEF old
    <3>3. [old EXCEPT ![c] = RemoveAt(@, i)]
            = [d \in Conns |-> IF d = c THEN RemoveAt(old[c], i) ELSE old[d]]
      BY <3>2 DEF old
    <3> QED BY <3>1, <3>3 DEF old
  <2>7. \A s : Round!Client!RemoveAt(s, i) = RemoveAt(s, i)
    BY DEF Round!Client!RemoveAt, RemoveAt
  <2> QED BY <1>1, <1>6, <2>1, <2>3, <2>4, <2>5, <2>6, <2>7 DEF Round!Client!Lose
<1> QED BY <1>8, <1>9

\* A message that a thread takes is next to be sent still.
LEMMA PopStutters ==
  ASSUME TripInv, TripInv', NEW t \in {"app", "svc"}, Round!Pop(t)
  PROVE  UNCHANGED Round!Client!vars
<1> DEFINE m == Head(outq)
           h == [by |-> t, message |-> m]
<1>1. /\ outq # << >> /\ outq' = Tail(outq) /\ held' = Append(held, h)
      /\ UNCHANGED <<world, connects, socket, nextSeqID, expected, issued, handling,
                     called, incoming, up, inq, cur, posts>>
  BY DEF Round!Pop, Round!pageVars
<1>2. Mapping /\ Mapping'
  BY Mapped, PTL
<1>3. \A c \in Conns : FirstOf(c)' = FirstOf(c) /\ QueuedOf(c)' = QueuedOf(c)
  BY <1>1 DEF FirstOf, QueuedOf
<1>4. Round!Requests' = Round!Requests /\ Round!Replied' = Round!Replied
  BY <1>1, <1>2, <1>3 DEF Mapping
<1>5. held \in Seq(Holding) /\ outq \in Seq(Messages) /\ held' \in Seq(Holding)
  BY DEF TripInv, ServerTyped
<1>6. m \in Messages /\ h \in Holding /\ h.message = m
  <2>1. m \in Messages
    BY <1>1, <1>5, ToSetTail
  <2> HIDE DEF m
  <2> QED BY <2>1 DEF Holding
<1> DEFINE a == MessagesOf(held)
           b == MessagesOf(held')
           n == Len(held)
<1>7. b = Append(a, m)
  <2>1. /\ n \in Nat /\ Len(held') = n + 1 /\ held'[n + 1] = h
        /\ \A i \in 1..n : held'[i] = held[i]
    BY <1>1, <1>5, <1>6, AppendProperties, LenProperties
  <2>2. /\ b \in Seq(Messages) /\ Len(b) = n + 1
        /\ \A i \in 1..(n + 1) : b[i] = held'[i].message
    BY <1>5, <2>1, HeldMessages
  <2>3. /\ a \in Seq(Messages) /\ Len(a) = n /\ \A i \in 1..n : a[i] = held[i].message
    BY <1>5, HeldMessages
  <2> HIDE DEF a, b, m, h, n
  <2>4. /\ Append(a, m) \in Seq(Messages) /\ Len(Append(a, m)) = n + 1
        /\ \A i \in 1..n : Append(a, m)[i] = a[i]
        /\ Append(a, m)[n + 1] = m
    BY <1>6, <2>3, AppendProperties
  <2>5. \A i \in 1..(n + 1) : i \in 1..n \/ i = n + 1
    BY <2>1
  <2>6. \A i \in 1..n : i \in 1..(n + 1)
    BY <2>1
  <2>7. \A i \in 1..(n + 1) : b[i] = Append(a, m)[i]
    <3>1. n + 1 \in 1..(n + 1)
      BY <2>1
    <3> QED BY <1>6, <2>1, <2>2, <2>3, <2>4, <2>5, <2>6, <3>1
  <2> QED BY <2>2, <2>4, <2>7, SeqEqual
<1>8. Round!Posted' = Round!Posted
  <2>1. Round!Posted = a \o outq /\ Round!Posted' = b \o Tail(outq)
    BY <1>1, <1>2 DEF Mapping, MessagesOf
  <2>2. a \in Seq(Messages)
    BY <1>2 DEF Mapping
  <2> HIDE DEF a, b
  <2>3. Append(a, Head(outq)) \o Tail(outq) = a \o outq
    BY <1>1, <1>5, <2>2, MoveAcross
  <2> QED BY <1>7, <2>1, <2>3
<1> QED BY <1>1, <1>4, <1>8 DEF Round!Client!vars

\* Two threads hold two messages at most.
LEMMA TwoHeld ==
  ASSUME TripInv
  PROVE  Len(held) \in Nat /\ Len(held) <= 2
<1>1. held \in Seq(Holding) /\ \A i, j \in DOMAIN held : held[i].by = held[j].by => i = j
  BY DEF TripInv, ServerTyped, AreOnce
<1> DEFINE n == Len(held)
<1>2. n \in Nat /\ DOMAIN held = 1..n /\ \A i \in 1..n : held[i] \in Holding
  BY <1>1, LenProperties, ElementOfSeq
<1> HIDE DEF n
<1>3. \A i \in 1..n : held[i].by \in {"app", "svc"}
  BY <1>2 DEF Holding
<1> SUFFICES ASSUME ~(n <= 2) PROVE FALSE
  BY <1>2 DEF n
<1>4. 1 \in 1..n /\ 2 \in 1..n /\ 3 \in 1..n
  BY <1>2
<1> QED BY <1>1, <1>2, <1>3, <1>4

\* A thread writes one of the two messages that were posted first.
LEMMA WriteSends ==
  ASSUME TripInv, TripInv', NEW t \in {"app", "svc"}, NEW c \in Conns, Round!Write(t, c)
  PROVE  Round!Client!Send(c) \/ UNCHANGED Round!Client!vars
<1>1. /\ UNCHANGED <<world, connects, socket, nextSeqID, expected, issued, handling,
                     called, up, inq, cur, posts, outq>>
      /\ \E i \in DOMAIN held :
           \/ /\ socket[c] \in {"connecting", "open"}
              /\ incoming' = [incoming EXCEPT ![c] = Append(@, held[i].message)]
              /\ held' = RemoveAt(held, i)
           \/ /\ socket[c] = "closed" /\ held' = RemoveAt(held, i) /\ incoming' = incoming
           \/ UNCHANGED <<incoming, held>>
  BY DEF Round!Write, Round!pageVars, Round!RemoveAt, RemoveAt
<1>2. PICK i \in DOMAIN held :
           \/ /\ socket[c] \in {"connecting", "open"}
              /\ incoming' = [incoming EXCEPT ![c] = Append(@, held[i].message)]
              /\ held' = RemoveAt(held, i)
           \/ /\ socket[c] = "closed" /\ held' = RemoveAt(held, i) /\ incoming' = incoming
           \/ UNCHANGED <<incoming, held>>
  BY <1>1
<1>3. Mapping /\ Mapping'
  BY Mapped, PTL
<1>4. \A d \in Conns : FirstOf(d)' = FirstOf(d) /\ QueuedOf(d)' = QueuedOf(d)
  BY <1>1 DEF FirstOf, QueuedOf
<1>5. Round!Requests' = Round!Requests /\ Round!Replied' = Round!Replied
  BY <1>1, <1>3, <1>4 DEF Mapping
<1>6. held \in Seq(Holding) /\ held' \in Seq(Holding) /\ outq \in Seq(Messages)
  BY DEF TripInv, ServerTyped
<1> DEFINE a == MessagesOf(held)
           b == MessagesOf(held')
           n == Len(held)
<1>7. /\ a \in Seq(Messages) /\ Len(a) = n /\ n \in Nat
      /\ DOMAIN held = 1..n /\ DOMAIN a = 1..n
      /\ \A j \in 1..n : a[j] = held[j].message
  BY <1>6, HeldMessages
<1>8. Round!Posted = a \o outq /\ Round!Posted' = b \o outq
  BY <1>1, <1>3 DEF Mapping, MessagesOf
<1>9. ASSUME held' = RemoveAt(held, i) PROVE b = RemoveAt(a, i)
  <2>1. /\ Len(held') = n - 1
        /\ \A j \in 1..(n - 1) : held'[j] = held[IF j < i THEN j ELSE j + 1]
    BY <1>2, <1>6, <1>9, RemoveAtFacts
  <2>2. /\ b \in Seq(Messages) /\ Len(b) = n - 1
        /\ \A j \in 1..(n - 1) : b[j] = held'[j].message
    BY <1>6, <2>1, HeldMessages
  <2> DEFINE r == RemoveAt(a, i)
  <2> HIDE DEF a, b, n
  <2>3. /\ r \in Seq(Messages) /\ Len(r) = n - 1
        /\ \A j \in 1..(n - 1) : r[j] = a[IF j < i THEN j ELSE j + 1]
    <3>1. i \in DOMAIN a
      BY <1>2, <1>7
    <3> QED BY <1>7, <3>1, RemoveAtFacts
  <2> HIDE DEF r
  <2>4. \A j \in 1..(n - 1) : b[j] = r[j]
    <3> SUFFICES ASSUME NEW j \in 1..(n - 1) PROVE b[j] = r[j]
      OBVIOUS
    <3> DEFINE k == IF j < i THEN j ELSE j + 1
    <3>1. k \in 1..n
      BY <1>7
    <3>2. b[j] = held[k].message /\ r[j] = a[k]
      BY <2>1, <2>2, <2>3
    <3> HIDE DEF k
    <3> QED BY <1>7, <3>1, <3>2
  <2>5. b = r
    BY <2>2, <2>3, <2>4, SeqEqual
  <2> QED BY <2>5 DEF r
<1>10. /\ i \in DOMAIN (a \o outq) /\ (a \o outq)[i] = held[i].message
       /\ RemoveAt(a \o outq, i) = RemoveAt(a, i) \o outq
  <2>1. i \in DOMAIN a /\ a[i] = held[i].message
    BY <1>2, <1>7
  <2> HIDE DEF a
  <2> QED BY <1>6, <1>7, <2>1, RemoveEarly
<1>11. i \in {1, 2}
  BY <1>2, <1>7, TwoHeld
<1> HIDE DEF a, b, n
<1>12. ASSUME held' = RemoveAt(held, i)
       PROVE  /\ i \in {1, 2} \cap DOMAIN Round!Posted
              /\ Round!Posted' = Round!Client!RemoveAt(Round!Posted, i)
              /\ Round!Posted[i] = held[i].message
              /\ Round!Posted # << >>
  <2>1. Round!Posted' = RemoveAt(a \o outq, i)
    BY <1>8, <1>9, <1>10, <1>12
  <2>2. \A s : Round!Client!RemoveAt(s, i) = RemoveAt(s, i)
    BY DEF Round!Client!RemoveAt, RemoveAt
  <2>3. Round!Posted # << >>
    <3>1. a \o outq \in Seq(Messages)
      BY <1>6, <1>7, ConcatProperties
    <3> DEFINE p == a \o outq
    <3>2. p \in Seq(Messages) /\ i \in DOMAIN p
      BY <1>10, <3>1
    <3> HIDE DEF p
    <3>3. p # << >>
      <4>1. DOMAIN p = 1..Len(p) /\ Len(p) \in Nat
        BY <3>2, LenProperties
      <4>2. Len(p) # 0
        BY <3>2, <4>1
      <4> QED BY <4>2, EmptySeq
    <3> QED BY <1>8, <3>3 DEF p
  <2> QED BY <1>8, <1>10, <1>11, <2>1, <2>2, <2>3
<1>13. CASE /\ socket[c] \in {"connecting", "open"}
            /\ incoming' = [incoming EXCEPT ![c] = Append(@, held[i].message)]
            /\ held' = RemoveAt(held, i)
  BY <1>1, <1>5, <1>12, <1>13 DEF Round!Client!Send
<1>14. CASE socket[c] = "closed" /\ held' = RemoveAt(held, i) /\ incoming' = incoming
  <2>1. world.lossy
    BY <1>14 DEF TripInv, PageTyped
  <2> QED BY <1>1, <1>5, <1>12, <1>14, <2>1 DEF Round!Client!Send
<1>15. CASE UNCHANGED <<incoming, held>>
  <2>1. Round!Posted' = Round!Posted
    BY <1>1, <1>15 DEF Round!Posted
  <2> QED BY <1>1, <1>5, <1>15, <2>1 DEF Round!Client!vars
<1> QED BY <1>2, <1>13, <1>14, <1>15

\* What changes nothing here changes nothing there.
LEMMA TripStutters ==
  ASSUME TripInv, UNCHANGED Round!vars
  PROVE  TripInv' /\ UNCHANGED Round!Client!vars
<1>1. UNCHANGED <<world, connects, socket, nextSeqID, expected, issued, handling,
                  called, incoming, up, inq, cur, posts, outq, held>>
  BY DEF Round!vars, Round!pageVars, Round!serverVars
<1>2. TripInv'
  <2>1. PageTyped'
    BY <1>1 DEF TripInv, PageTyped
  <2> QED BY <1>1, <2>1, ServerSame
<1>3. \A c \in Conns : FirstOf(c)' = FirstOf(c) /\ QueuedOf(c)' = QueuedOf(c)
  BY <1>1 DEF FirstOf, QueuedOf
<1>4. Mapping /\ Mapping'
  BY <1>2, Mapped, PTL
<1>5. Round!Requests' = Round!Requests /\ Round!Replied' = Round!Replied
  BY <1>1, <1>3, <1>4 DEF Mapping
<1>6. Round!Posted' = Round!Posted
  BY <1>1 DEF Round!Posted
<1> QED BY <1>1, <1>2, <1>5, <1>6 DEF Round!Client!vars

\* Every step keeps the invariant, and is a step of the page's own specification
\* or none.
LEMMA TripStep ==
  ASSUME TripInv, Round!Fits, [Round!Next]_Round!vars
  PROVE  TripInv' /\ [Round!Client!Next]_Round!Client!vars
<1>1. CASE Round!Page
  <2>1. Round!ByItself
    BY <1>1 DEF Round!Page
  <2>2. CASE Round!Client!Connect
    BY <2>1, <2>2, TripConnect DEF Round!Client!Next
  <2>3. CASE Round!Client!Return \/ Round!Client!Throw
    BY <2>1, <2>3, TripReturn DEF Round!Client!Next
  <2>4. ASSUME NEW c \in Conns, Round!Client!Open(c) \/ Round!Client!Close(c)
        PROVE  TripInv' /\ Round!Client!Next
    BY <2>1, <2>4, TripSocket, SameNames DEF Round!Client!Next
  <2>5. ASSUME NEW c \in Conns, Round!Client!Receive(c)
        PROVE  TripInv' /\ Round!Client!Next
    BY <2>1, <2>5, TripDelivers, SameNames DEF Round!Client!Next
  <2> QED BY <1>1, <2>2, <2>3, <2>4, <2>5, SameNames DEF Round!Page
<1>2. ASSUME NEW wanted \in BOOLEAN, Round!Issue(wanted)
      PROVE  TripInv' /\ Round!Client!Next
  <2>1. Round!Client!Issue(wanted)
    BY <1>2 DEF Round!Issue
  <2> QED BY <1>2, <2>1, TripIssue DEF Round!Client!Next
<1>3. CASE Round!Dispatch
  BY <1>3, TripDispatch, DispatchStutters
<1>4. CASE Round!Post
  <2>1. TripInv' /\ cur # 0
    BY <1>4, TripPost DEF Round!Post
  <2>2. Round!Client!Post(issued[cur].conn) /\ issued[cur].conn \in Conns
    BY <1>4, <2>1, PostPosts, CurrentFirst
  <2> QED BY <2>1, <2>2, SameNames DEF Round!Client!Next
<1>5. CASE Round!Done
  <2>1. TripInv' /\ cur # 0
    BY <1>5, TripDone DEF Round!Done
  <2>2. Round!Client!Done(issued[cur].conn) /\ issued[cur].conn \in Conns
    BY <1>5, <2>1, DoneIsDone, CurrentFirst
  <2> QED BY <2>1, <2>2, SameNames DEF Round!Client!Next
<1>6. ASSUME NEW c \in Conns, Round!Receive(c)
      PROVE  TripInv' /\ [Round!Client!Next]_Round!Client!vars
  <2>1. TripInv'
    BY <1>6, TripReceive
  <2>2. Round!Client!Lose(c) \/ UNCHANGED Round!Client!vars
    BY <1>6, <2>1, ReceiveMaps
  <2> QED BY <2>1, <2>2, SameNames DEF Round!Client!Next
<1>7. ASSUME NEW t \in {"app", "svc"}, Round!Pop(t)
      PROVE  TripInv' /\ UNCHANGED Round!Client!vars
  BY <1>7, TripPop, PopStutters
<1>8. ASSUME NEW t \in {"app", "svc"}, NEW c \in Conns, Round!Write(t, c)
      PROVE  TripInv' /\ [Round!Client!Next]_Round!Client!vars
  <2>1. TripInv'
    BY <1>8, TripWrite
  <2>2. Round!Client!Send(c) \/ UNCHANGED Round!Client!vars
    BY <1>8, <2>1, WriteSends
  <2> QED BY <2>1, <2>2, SameNames DEF Round!Client!Next
<1>9. CASE UNCHANGED Round!vars
  BY <1>9, TripStutters
<1> QED BY <1>1, <1>2, <1>3, <1>4, <1>5, <1>6, <1>7, <1>8, <1>9, SameNames DEF Round!Next

\* Both queues, the application and the two threads that write do to the page what
\* its own specification allows a server, and no more: commands are executed in the
\* order of their connection or lost, a message overtakes one other at most, and,
\* where the queues have places enough, none is lost.
THEOREM RoundTripRefinement == Round!Fits => (Round!Spec => Round!Implements)
<1> SUFFICES ASSUME Round!Fits PROVE Round!Spec => Round!Implements
  OBVIOUS
<1>1. Round!Init => TripInv /\ Round!Client!Init
  BY TripInit
<1>2. TripInv /\ [Round!Next]_Round!vars
        => TripInv' /\ [Round!Client!Next]_Round!Client!vars
  BY TripStep
<1>3. TripInv => Round!Client!TypeOK
  BY MappedTypes
<1> QED
  BY <1>1, <1>2, <1>3, PTL DEF Round!Spec, Round!Implements, Round!Client!Spec

=============================================================================
