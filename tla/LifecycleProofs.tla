-------------------------- MODULE LifecycleProofs --------------------------
(***************************************************************************)
(* Proofs about Lifecycle for every number of inits, every finite set of   *)
(* connections and every table: threads never share a context, a careful   *)
(* application's thread is never without the one it serves, no socket has  *)
(* two places in a table, and what a shutdown leaves is only what the walk *)
(* over the table passes over.                                             *)
(***************************************************************************)
EXTENDS Lifecycle, SequencesExt, SequenceTheorems, FiniteSetTheorems, TLAPS

-----------------------------------------------------------------------------
(* Sequences.                                                              *)

\* Removing the element at a place moves those behind it down by one.
LEMMA RemoveAtFacts ==
  ASSUME NEW S, NEW s \in Seq(S), NEW i \in DOMAIN s
  PROVE  /\ RemoveAt(s, i) \in Seq(S)
         /\ Len(s) \in Nat \ {0} /\ Len(RemoveAt(s, i)) = Len(s) - 1
         /\ DOMAIN s = 1..Len(s) /\ DOMAIN RemoveAt(s, i) = 1..(Len(s) - 1)
         /\ s[i] \in S
         /\ \A j \in 1..(Len(s) - 1) : RemoveAt(s, i)[j] = s[IF j < i THEN j ELSE j + 1]
<1> DEFINE n == Len(s)
           a == SubSeq(s, 1, i - 1)
           b == SubSeq(s, i + 1, n)
<1>1. n \in Nat \ {0} /\ DOMAIN s = 1..n /\ i \in 1..n /\ \A j \in 1..n : s[j] \in S
  BY LenProperties
<1>2. /\ a = [j \in 1..(i - 1) |-> s[j]] /\ a \in Seq(S) /\ Len(a) = i - 1
      /\ b = [j \in 1..(n - i) |-> s[i + j]] /\ b \in Seq(S) /\ Len(b) = n - i
  BY <1>1
<1> HIDE DEF a, b
<1>3. /\ a \o b \in Seq(S) /\ Len(a \o b) = (i - 1) + (n - i)
      /\ \A j \in 1..((i - 1) + (n - i)) :
           (a \o b)[j] = IF j <= i - 1 THEN a[j] ELSE b[j - (i - 1)]
  <2>1. /\ a \in Seq(S) /\ Len(a) = i - 1
        /\ b \in Seq(S) /\ Len(b) = n - i
    BY <1>2
  <2>2. /\ a \o b \in Seq(S) /\ Len(a \o b) = Len(a) + Len(b)
        /\ \A j \in 1..(Len(a) + Len(b)) :
             (a \o b)[j] = IF j <= Len(a) THEN a[j] ELSE b[j - Len(a)]
    BY <2>1, ConcatProperties
  <2> QED BY <2>1, <2>2, Zenon
<1>4. ASSUME NEW j \in 1..(n - 1)
      PROVE  (a \o b)[j] = s[IF j < i THEN j ELSE j + 1]
  <2>1. (a \o b)[j] = IF j <= i - 1 THEN a[j] ELSE b[j - (i - 1)]
    BY <1>1, <1>3
  <2>2. j <= i - 1 => j < i /\ a[j] = s[j]
    BY <1>1, <1>2
  <2>3. ~(j <= i - 1) => ~(j < i) /\ b[j - (i - 1)] = s[j + 1]
    BY <1>1, <1>2
  <2> QED BY <2>1, <2>2, <2>3
<1>5. RemoveAt(s, i) = a \o b
  BY DEF RemoveAt, a, b
<1>6. Len(a \o b) = n - 1
  BY <1>1, <1>3
<1> HIDE DEF n
<1>7. DOMAIN (a \o b) = 1..(n - 1)
  BY <1>3, <1>6, LenProperties
<1> QED BY <1>1, <1>3, <1>4, <1>5, <1>6, <1>7 DEF n

-----------------------------------------------------------------------------

Places == 0..(Buckets - 1)
Busy == {"loop", "service", "destroy"}
Idle == {"none", "joined"}

\* The types that the steps rely on; how far a walk may get is not among them.
ShapesOK ==
  /\ careful \in BOOLEAN
  /\ inits \in 0..MaxInits
  /\ context \in 0..MaxInits /\ owner \in 0..MaxInits /\ tid \in 0..MaxInits
  /\ alive \subseteq Contexts
  /\ thread \in [Contexts -> ThreadSteps]
  /\ using \in [Contexts -> 0..MaxInits]
  /\ table \in [Contexts -> [Places -> Seq(Sockets)]]
  /\ walk \in [Contexts -> [bucket : 0..Buckets, index : Nat \ {0}]]

ListensAt(n, b, i) ==
  n \in Contexts /\ b \in Places /\ i \in DOMAIN table[n][b] /\ table[n][b][i] = Listener

Listens(n) == \E b \in Places : \E i \in DOMAIN table[n][b] : ListensAt(n, b, i)

\* The listening socket has one place, the first of its bucket, in one context,
\* while the port is held.
OneListener ==
  /\ \A n, m \in Contexts, b, d \in Places :
       \A i \in DOMAIN table[n][b], j \in DOMAIN table[m][d] :
         ListensAt(n, b, i) /\ ListensAt(m, d, j) => n = m /\ b = d /\ i = 1 /\ j = 1
  /\ \A n \in Contexts : Listens(n) => port = "headcrab"

\* A thread comes with the init of its number.
InItsTurn ==
  /\ \A t \in Contexts : t > inits => thread[t] = "none"
  /\ app \in {"create", "proxies", "spawn"} => inits \in Contexts /\ thread[inits] = "none" /\ ~down

\* Whoever serves has the port, so the next init gets none before that thread
\* has left its loop for good.
ServersListen ==
  /\ \A t \in Contexts :
       thread[t] \in {"loop", "service"} => Listens(t) /\ context \in {0, t}
  /\ app \in {"proxies", "spawn"} => Listens(inits)
  /\ app = "spawn" => context = inits
  /\ ContextPerThread

\* A careful application has one thread, until it has joined it, and that thread
\* the context that init and post use.
OneThread ==
  careful =>
    /\ \A t \in Contexts : thread[t] \notin Idle => t = tid
    /\ app \in {"create", "proxies", "spawn", "stop"} \/ (app = "idle" /\ ~Up) =>
         \A t \in Contexts : thread[t] \in Idle
    /\ app \in {"proxies", "spawn"} => owner = inits /\ inits \in alive
    /\ \A t \in Contexts : thread[t] \in Busy =>
         context = t /\ owner = t /\ t \in alive /\ status # "fault"
    /\ \A t \in Contexts : thread[t] \in {"service", "destroy"} => using[t] = t

IInv == ShapesOK /\ OneListener /\ InItsTurn /\ ServersListen /\ OneThread

USE LifecycleAssumption

-----------------------------------------------------------------------------
\* A step that leaves the listening socket where it is.
LEMMA ListenerStays ==
  ASSUME \A n, b, i : ListensAt(n, b, i)' <=> ListensAt(n, b, i)
  PROVE  /\ \A n : Listens(n)' <=> Listens(n)
         /\ OneListener /\ port' = port => OneListener'
<1>1. ASSUME NEW n
      PROVE  Listens(n)' <=> Listens(n)
  <2>1. Listens(n) <=> \E b, i : ListensAt(n, b, i)
    BY DEF Listens, ListensAt
  <2>2. Listens(n)' <=> \E b, i : ListensAt(n, b, i)'
    BY DEF Listens, ListensAt
  <2> QED BY <2>1, <2>2
<1>2. ASSUME OneListener, port' = port
      PROVE  OneListener'
  <2>1. ASSUME NEW n, NEW m, NEW b, NEW d, NEW i, NEW j,
               ListensAt(n, b, i)', ListensAt(m, d, j)'
        PROVE  n = m /\ b = d /\ i = 1 /\ j = 1
    <3>1. ListensAt(n, b, i) /\ ListensAt(m, d, j)
      BY <2>1
    <3> QED BY <1>2, <3>1 DEF OneListener, ListensAt
  <2>2. \A n \in Contexts : Listens(n)' => port' = "headcrab"
    BY <1>1, <1>2 DEF OneListener
  <2> QED BY <2>1, <2>2 DEF OneListener
<1> QED BY <1>1, <1>2

\* A step that leaves the table and the port alone.
LEMMA SameListener ==
  ASSUME UNCHANGED table
  PROVE  /\ \A n : Listens(n)' <=> Listens(n)
         /\ OneListener /\ port' = port => OneListener'
<1>1. \A n, b, i : ListensAt(n, b, i)' <=> ListensAt(n, b, i)
  BY DEF ListensAt
<1> QED BY <1>1, ListenerStays

\* Nobody serves when the port is not headcrab's.
LEMMA NoServer ==
  ASSUME IInv, port # "headcrab"
  PROVE  /\ \A n \in Contexts : ~Listens(n)
         /\ \A t \in Contexts : thread[t] \notin {"loop", "service"}
BY DEF IInv, OneListener, ServersListen

LEMMA InitIInv == Init => IInv
<1> SUFFICES ASSUME Init PROVE IInv
  OBVIOUS
<1>1. EmptyTable \in [Places -> Seq(Sockets)]
      /\ \A b \in Places : EmptyTable[b] = << >>
  BY EmptySeq DEF EmptyTable, Places
<1>2. ShapesOK
  BY <1>1 DEF Init, ShapesOK, ThreadSteps, Contexts
<1>3. \A n, b, i : ~ListensAt(n, b, i)
  BY <1>1 DEF Init, ListensAt
<1>4. OneListener
  BY <1>3 DEF OneListener, Listens
<1>5. InItsTurn /\ ServersListen
  BY DEF Init, InItsTurn, ServersListen, ContextPerThread
<1>6. OneThread
  BY DEF Init, OneThread, Idle, Busy
<1> QED BY <1>2, <1>4, <1>5, <1>6 DEF IInv

-----------------------------------------------------------------------------
(* The application thread.                                                 *)

LEMMA HeadcrabInitKeeps ==
  ASSUME IInv, HeadcrabInit
  PROVE  IInv'
<1>1. /\ UNCHANGED <<careful, running, tid, context, owner, alive, port, table, state, closed,
                     thread, using, walk, status>>
      /\ app = "idle" /\ app' = "create" /\ down' = FALSE
      /\ inits < MaxInits /\ inits' = inits + 1 /\ (careful => ~Up)
  BY DEF HeadcrabInit, lwsVars
<1>2. ShapesOK'
  BY <1>1 DEF IInv, ShapesOK
<1>3. OneListener' /\ \A n : Listens(n)' <=> Listens(n)
  BY <1>1, SameListener DEF IInv
<1>4. InItsTurn'
  BY <1>1 DEF IInv, InItsTurn, ShapesOK, Contexts
<1>5. ServersListen'
  BY <1>1, <1>3 DEF IInv, ServersListen, ContextPerThread
<1>6. OneThread'
  BY <1>1 DEF IInv, OneThread, Busy
<1> QED BY <1>2, <1>3, <1>4, <1>5, <1>6 DEF IInv

LEMMA CreateKeeps ==
  ASSUME IInv, Create
  PROVE  IInv'
<1> DEFINE bl == Bucket[Listener]
<1>1. /\ UNCHANGED <<careful, inits, result, down, running, tid, context, state, thread,
                     using, walk, status>>
      /\ app = "create" /\ app' = "proxies" /\ port = "nobody" /\ port' = "headcrab"
      /\ owner' = inits /\ alive' = alive \cup {inits}
      /\ table' = [table EXCEPT ![inits][bl] = << Listener >>]
  BY DEF Create
<1>2. inits \in Contexts /\ bl \in Places /\ Listener \in Sockets
      /\ thread[inits] = "none" /\ ~down
  BY <1>1 DEF IInv, InItsTurn, Places, Sockets
<1>3. << Listener >> \in Seq(Sockets)
  BY <1>2
<1>4. ShapesOK'
  <2>1. table' \in [Contexts -> [Places -> Seq(Sockets)]]
    BY <1>1, <1>2, <1>3 DEF IInv, ShapesOK
  <2>2. inits \in 0..MaxInits /\ alive' \subseteq Contexts
    BY <1>1, <1>2 DEF IInv, ShapesOK
  <2> QED BY <1>1, <2>1, <2>2 DEF IInv, ShapesOK
<1>5. \A n \in Contexts, b \in Places :
        table'[n][b] = IF n = inits /\ b = bl THEN << Listener >> ELSE table[n][b]
  BY <1>1, <1>2 DEF IInv, ShapesOK
<1>6. \A n, b, i : ~ListensAt(n, b, i)
  BY <1>1, NoServer DEF Listens, ListensAt
<1>7. \A n, b, i : ListensAt(n, b, i)' => n = inits /\ b = bl /\ i = 1
  BY <1>5, <1>6 DEF ListensAt
<1>8. OneListener'
  BY <1>1, <1>7 DEF OneListener
<1>9. Listens(inits)'
  <2>1. table'[inits][bl] = << Listener >>
    BY <1>2, <1>5
  <2>2. 1 \in DOMAIN table'[inits][bl] /\ table'[inits][bl][1] = Listener
    BY <2>1
  <2>3. ListensAt(inits, bl, 1)'
    BY <1>1, <1>2, <2>2 DEF ListensAt
  <2> QED BY <1>1, <1>2, <2>2, <2>3 DEF Listens
<1>10. InItsTurn'
  BY <1>1, <1>2 DEF IInv, InItsTurn
<1>11. ServersListen'
  BY <1>1, <1>9, NoServer DEF IInv, ServersListen, ContextPerThread
<1>12. OneThread'
  BY <1>1 DEF IInv, OneThread, Busy, Idle
<1> QED BY <1>4, <1>8, <1>10, <1>11, <1>12 DEF IInv



\* A step that appends a socket other than the listening one to a bucket.
LEMMA AppendListens ==
  ASSUME IInv, NEW n \in Contexts, NEW b \in Places, NEW s \in Sockets, s # Listener,
         table' = [table EXCEPT ![n][b] = Append(@, s)]
  PROVE  /\ table' \in [Contexts -> [Places -> Seq(Sockets)]]
         /\ \A m, d, i : ListensAt(m, d, i)' <=> ListensAt(m, d, i)
<1> DEFINE old == table[n][b]
           new == Append(old, s)
<1>1. old \in Seq(Sockets) /\ table' = [table EXCEPT ![n][b] = new]
  BY DEF IInv, ShapesOK
<1>2. /\ new \in Seq(Sockets) /\ Len(old) \in Nat
      /\ DOMAIN old = 1..Len(old) /\ DOMAIN new = 1..(Len(old) + 1)
      /\ \A i \in 1..Len(old) : new[i] = old[i]
      /\ new[Len(old) + 1] = s
  BY <1>1, AppendProperties, LenProperties
<1> HIDE DEF new
<1>3. table' \in [Contexts -> [Places -> Seq(Sockets)]]
  BY <1>1, <1>2 DEF IInv, ShapesOK
<1>4. \A m \in Contexts, d \in Places :
        table'[m][d] = IF m = n /\ d = b THEN new ELSE table[m][d]
  <2>1. table \in [Contexts -> [Places -> Seq(Sockets)]]
    BY DEF IInv, ShapesOK
  <2>2. /\ table'[n] = [table[n] EXCEPT ![b] = new]
        /\ \A m \in Contexts : m # n => table'[m] = table[m]
    BY <1>1, <2>1
  <2> QED BY <2>1, <2>2
<1>5. \A i : (i \in DOMAIN new /\ new[i] = Listener)
               <=> (i \in DOMAIN old /\ old[i] = Listener)
  <2>1. \A i \in DOMAIN new : i \in DOMAIN old \/ i = Len(old) + 1
    BY <1>2
  <2>2. \A i \in DOMAIN old : i \in DOMAIN new
    BY <1>2
  <2> QED BY <1>2, <2>1, <2>2
<1>6. \A m, d, i : ListensAt(m, d, i)' <=> ListensAt(m, d, i)
  BY <1>4, <1>5 DEF ListensAt
<1> QED BY <1>3, <1>6

LEMMA CreateProxyKeeps ==
  ASSUME IInv, NEW p \in Proxies, CreateProxy(p)
  PROVE  IInv'
<1>1. /\ UNCHANGED <<careful, app, inits, result, down, running, tid, context, owner,
                     alive, port, thread, using, walk, status>>
      /\ app = "proxies" /\ inits \in Contexts
      /\ table' = [table EXCEPT ![inits][Bucket[p]] = Append(@, p)]
      /\ Bucket[p] \in Places /\ p \in Sockets /\ p # Listener
  BY DEF CreateProxy, appVars, IInv, InItsTurn, Places, Sockets
<1>2. /\ table' \in [Contexts -> [Places -> Seq(Sockets)]]
      /\ \A m, d, i : ListensAt(m, d, i)' <=> ListensAt(m, d, i)
  BY <1>1, AppendListens
<1>3. ShapesOK'
  BY <1>1, <1>2 DEF IInv, ShapesOK
<1>4. OneListener' /\ \A n : Listens(n)' <=> Listens(n)
  BY <1>1, <1>2, ListenerStays DEF IInv
<1>5. InItsTurn'
  BY <1>1 DEF IInv, InItsTurn
<1>6. ServersListen'
  BY <1>1, <1>4 DEF IInv, ServersListen, ContextPerThread
<1>7. OneThread'
  BY <1>1 DEF IInv, OneThread, Up
<1> QED BY <1>3, <1>4, <1>5, <1>6, <1>7 DEF IInv

\* Whoever is in its loop holds the port; the new context holds it too, and no
\* thread of its own serves it yet.
LEMMA CreateReturnsKeeps ==
  ASSUME IInv, CreateReturns
  PROVE  IInv'
<1>1. /\ UNCHANGED <<careful, inits, result, down, running, tid, owner, alive, port,
                     table, state, thread, using, walk, status>>
      /\ app = "proxies" /\ app' = "spawn" /\ context' = inits
      /\ inits \in Contexts /\ thread[inits] = "none" /\ Listens(inits)
  BY DEF CreateReturns, IInv, InItsTurn, ServersListen
<1>2. ShapesOK'
  <2>1. context' \in 0..MaxInits
    BY <1>1 DEF IInv, ShapesOK
  <2> QED BY <1>1, <2>1 DEF IInv, ShapesOK
<1>3. OneListener' /\ \A n : Listens(n)' <=> Listens(n)
  BY <1>1, SameListener DEF IInv
<1>4. \A t \in Contexts : thread[t] \notin {"loop", "service"}
  <2>1. \A n, m \in Contexts : Listens(n) /\ Listens(m) => n = m
    BY DEF IInv, OneListener, Listens
  <2> QED BY <1>1, <2>1 DEF IInv, ServersListen
<1>5. InItsTurn'
  BY <1>1 DEF IInv, InItsTurn
<1>6. ServersListen'
  BY <1>1, <1>3, <1>4 DEF IInv, ServersListen, ContextPerThread
<1>7. OneThread'
  BY <1>1 DEF IInv, OneThread, Busy, Idle
<1> QED BY <1>2, <1>3, <1>5, <1>6, <1>7 DEF IInv

LEMMA CreateFailsKeeps ==
  ASSUME IInv, CreateFails
  PROVE  IInv'
<1>1. /\ UNCHANGED <<careful, inits, result, down, running, tid, owner, alive, port,
                     table, state, thread, using, walk, status>>
      /\ app = "create" /\ app' = "stop" /\ context' = 0
  BY DEF CreateFails
<1>2. ShapesOK'
  BY <1>1 DEF IInv, ShapesOK
<1>3. OneListener' /\ \A n : Listens(n)' <=> Listens(n)
  BY <1>1, SameListener DEF IInv
<1>4. InItsTurn'
  BY <1>1 DEF IInv, InItsTurn
<1>5. ServersListen'
  BY <1>1, <1>3 DEF IInv, ServersListen, ContextPerThread
<1>6. OneThread'
  BY <1>1 DEF IInv, OneThread, Busy, Idle
<1> QED BY <1>2, <1>3, <1>4, <1>5, <1>6 DEF IInv

LEMMA SpawnKeeps ==
  ASSUME IInv, Spawn
  PROVE  IInv'
<1>1. /\ UNCHANGED <<careful, inits, down, running, context, owner, alive, port, table,
                     state, using, walk, status>>
      /\ app = "spawn" /\ app' = "idle" /\ result' = "success" /\ status = "running"
      /\ tid' = inits /\ thread' = [thread EXCEPT ![inits] = "loop"]
  BY DEF Spawn, lwsVars, Alive
<1>2. inits \in Contexts /\ ~down /\ Listens(inits) /\ context = inits
  BY <1>1 DEF IInv, InItsTurn, ServersListen
<1>3. \A t \in Contexts : thread'[t] = IF t = inits THEN "loop" ELSE thread[t]
  BY <1>1, <1>2 DEF IInv, ShapesOK
<1>4. ShapesOK'
  BY <1>1, <1>2 DEF IInv, ShapesOK, ThreadSteps
<1>5. OneListener' /\ \A n : Listens(n)' <=> Listens(n)
  BY <1>1, SameListener DEF IInv
<1>6. InItsTurn'
  BY <1>1, <1>2, <1>3 DEF IInv, InItsTurn, ShapesOK, Contexts
<1>7. ServersListen'
  BY <1>1, <1>2, <1>3, <1>5 DEF IInv, ServersListen, ContextPerThread
<1>8. OneThread'
  BY <1>1, <1>2, <1>3 DEF IInv, OneThread, Busy, Idle, Up
<1> QED BY <1>4, <1>5, <1>6, <1>7, <1>8 DEF IInv

LEMMA ShutdownKeeps ==
  ASSUME IInv, Shutdown
  PROVE  IInv'
<1>1. /\ UNCHANGED <<careful, inits, result, tid, context, owner, alive, port, table,
                     state, thread, using, walk, status>>
      /\ app' = "join"
  BY DEF Shutdown, lwsVars
<1>2. ShapesOK'
  BY <1>1 DEF IInv, ShapesOK
<1>3. OneListener' /\ \A n : Listens(n)' <=> Listens(n)
  BY <1>1, SameListener DEF IInv
<1>4. InItsTurn'
  BY <1>1 DEF IInv, InItsTurn
<1>5. ServersListen'
  BY <1>1, <1>3 DEF IInv, ServersListen, ContextPerThread
<1>6. OneThread'
  BY <1>1 DEF IInv, OneThread, Busy
<1> QED BY <1>2, <1>3, <1>4, <1>5, <1>6 DEF IInv

LEMMA JoinKeeps ==
  ASSUME IInv, Join
  PROVE  IInv'
<1>1. /\ UNCHANGED <<careful, inits, down, running, tid, context, owner, alive, port,
                     table, state, using, walk>>
      /\ app = "join" /\ app' \in {"idle", "join"}
      /\ \/ /\ tid # 0 /\ thread[tid] = "done" /\ status' = status
            /\ thread' = [thread EXCEPT ![tid] = "joined"]
         \/ ~Joinable /\ thread' = thread
  BY DEF Join, JoinReturns, Joinable, lwsVars
<1>2. \A t \in Contexts : \/ thread'[t] = thread[t]
                          \/ t = tid /\ thread[t] = "done" /\ thread'[t] = "joined"
  BY <1>1 DEF IInv, ShapesOK
<1>3. thread' \in [Contexts -> ThreadSteps]
  BY <1>1 DEF IInv, ShapesOK, ThreadSteps
<1>4. ShapesOK'
  BY <1>1, <1>3 DEF IInv, ShapesOK
<1>5. OneListener' /\ \A n : Listens(n)' <=> Listens(n)
  BY <1>1, SameListener DEF IInv
<1>6. InItsTurn'
  BY <1>1, <1>2 DEF IInv, InItsTurn
<1>7. ServersListen'
  BY <1>1, <1>2, <1>5 DEF IInv, ServersListen, ContextPerThread
<1>8. careful => \A t \in Contexts : thread'[t] \in Idle
  <2>1. \A t \in Contexts : careful /\ thread[t] \notin Idle => t = tid /\ t # 0
    BY DEF IInv, OneThread, Contexts
  <2>2. CASE ~Joinable /\ thread' = thread
    BY <2>1, <2>2 DEF Joinable, Idle
  <2>3. CASE tid # 0 /\ thread' = [thread EXCEPT ![tid] = "joined"]
    <3>1. tid \in Contexts /\ thread'[tid] = "joined"
      BY <2>3 DEF IInv, ShapesOK, Contexts
    <3>2. \A t \in Contexts : t # tid => thread'[t] = thread[t]
      BY <2>3 DEF IInv, ShapesOK
    <3> QED BY <2>1, <3>1, <3>2 DEF Idle
  <2> QED BY <1>1, <2>2, <2>3
<1>9. OneThread'
  BY <1>1, <1>2, <1>8 DEF IInv, OneThread, Busy, Idle
<1> QED BY <1>4, <1>5, <1>6, <1>7, <1>9 DEF IInv

LEMMA PostKeeps ==
  ASSUME IInv, Post
  PROVE  IInv'
<1>1. /\ UNCHANGED <<careful, app, inits, result, down, running, tid, context, owner,
                     alive, port, table, state, thread, using, walk>>
      /\ status' = IF owner \in alive THEN status ELSE "fault"
  BY DEF Post, appVars, lwsVars
<1>2. ShapesOK'
  BY <1>1 DEF IInv, ShapesOK
<1>3. OneListener' /\ \A n : Listens(n)' <=> Listens(n)
  BY <1>1, SameListener DEF IInv
<1>4. InItsTurn'
  BY <1>1 DEF IInv, InItsTurn
<1>5. ServersListen'
  BY <1>1, <1>3 DEF IInv, ServersListen, ContextPerThread
<1>6. OneThread'
  BY <1>1 DEF IInv, OneThread, Up
<1> QED BY <1>2, <1>3, <1>4, <1>5, <1>6 DEF IInv

-----------------------------------------------------------------------------
(* The websocket thread.                                                   *)

LEMMA LoopKeeps ==
  ASSUME IInv, NEW t \in Contexts, Loop(t)
  PROVE  IInv'
<1> DEFINE p == IF running THEN "service" ELSE "destroy"
<1>1. /\ UNCHANGED <<careful, app, inits, result, down, running, tid, context, owner,
                     alive, port, table, state, status>>
      /\ thread[t] = "loop" /\ thread' = [thread EXCEPT ![t] = p]
      /\ using' = [using EXCEPT ![t] = context]
      /\ walk' = [walk EXCEPT ![t] = [bucket |-> 0, index |-> 1]]
      /\ p \in {"service", "destroy"}
  BY DEF Loop, appVars, lwsVars, At, Goto
<1> HIDE DEF p
<1>2. \A u \in Contexts : /\ thread'[u] = IF u = t THEN p ELSE thread[u]
                          /\ using'[u] = IF u = t THEN context ELSE using[u]
  BY <1>1 DEF IInv, ShapesOK
<1>3. ShapesOK'
  BY <1>1 DEF IInv, ShapesOK, ThreadSteps
<1>4. OneListener' /\ \A n : Listens(n)' <=> Listens(n)
  BY <1>1, SameListener DEF IInv
<1>5. InItsTurn'
  BY <1>1, <1>2 DEF IInv, InItsTurn
<1>6. ServersListen'
  BY <1>1, <1>2, <1>4 DEF IInv, ServersListen, ContextPerThread
<1>7. OneThread'
  BY <1>1, <1>2 DEF IInv, OneThread, Busy, Idle, Up
<1> QED BY <1>3, <1>4, <1>5, <1>6, <1>7 DEF IInv

LEMMA ServiceReturnsKeeps ==
  ASSUME IInv, NEW t \in Contexts, ServiceReturns(t)
  PROVE  IInv'
<1>1. /\ UNCHANGED <<careful, app, inits, result, down, running, tid, context, owner,
                     alive, port, table, state, using, walk, status>>
      /\ thread[t] = "service" /\ thread' = [thread EXCEPT ![t] = "loop"]
  BY DEF ServiceReturns, appVars, lwsVars, At, Goto
<1>2. \A u \in Contexts : thread'[u] = IF u = t THEN "loop" ELSE thread[u]
  BY <1>1 DEF IInv, ShapesOK
<1>3. ShapesOK'
  BY <1>1 DEF IInv, ShapesOK, ThreadSteps
<1>4. OneListener' /\ \A n : Listens(n)' <=> Listens(n)
  BY <1>1, SameListener DEF IInv
<1>5. InItsTurn'
  BY <1>1, <1>2 DEF IInv, InItsTurn
<1>6. ServersListen'
  BY <1>1, <1>2, <1>4 DEF IInv, ServersListen, ContextPerThread
<1>7. OneThread'
  BY <1>1, <1>2 DEF IInv, OneThread, Busy, Idle, Up
<1> QED BY <1>3, <1>4, <1>5, <1>6, <1>7 DEF IInv

\* A step that touches no more than the sockets of one context, of which the
\* listening one stays where it is.
LEMMA ConnectionsKeep ==
  ASSUME IInv,
         UNCHANGED <<careful, app, inits, result, down, running, tid, context, owner,
                     alive, port, thread, using, status>>,
         table' \in [Contexts -> [Places -> Seq(Sockets)]],
         walk' \in [Contexts -> [bucket : 0..Buckets, index : Nat \ {0}]],
         \A n, b, i : ListensAt(n, b, i)' <=> ListensAt(n, b, i)
  PROVE  IInv'
<1>1. ShapesOK'
  BY DEF IInv, ShapesOK
<1>2. OneListener' /\ \A n : Listens(n)' <=> Listens(n)
  BY ListenerStays DEF IInv
<1>4. InItsTurn'
  BY DEF IInv, InItsTurn
<1>5. ServersListen'
  BY <1>2 DEF IInv, ServersListen, ContextPerThread
<1>6. OneThread'
  BY DEF IInv, OneThread, Up
<1> QED BY <1>1, <1>2, <1>4, <1>5, <1>6 DEF IInv

LEMMA AcceptKeeps ==
  ASSUME IInv, NEW t \in Contexts, NEW c \in Conns, Accept(t, c)
  PROVE  IInv'
<1>1. /\ UNCHANGED <<careful, app, inits, result, down, running, tid, context, owner,
                     alive, port, thread, using, walk, status>>
      /\ using[t] \in Contexts /\ Bucket[c] \in Places
      /\ c \in Sockets /\ c # Listener
      /\ table' = [table EXCEPT ![using[t]][Bucket[c]] = Append(@, c)]
  BY DEF Accept, appVars, IInv, ShapesOK, Places, Sockets
<1>2. /\ table' \in [Contexts -> [Places -> Seq(Sockets)]]
      /\ \A m, d, i : ListensAt(m, d, i)' <=> ListensAt(m, d, i)
  BY <1>1, AppendListens
<1> QED BY <1>1, <1>2, ConnectionsKeep DEF IInv, ShapesOK

LEMMA EstablishKeeps ==
  ASSUME IInv, NEW t \in Contexts, NEW c \in Conns, Establish(t, c)
  PROVE  IInv'
<1>1. UNCHANGED <<careful, app, inits, result, down, running, tid, context, owner,
                  alive, port, table, thread, using, walk, status>>
  BY DEF Establish, appVars
<1>2. \A m, d, i : ListensAt(m, d, i)' <=> ListensAt(m, d, i)
  BY <1>1 DEF ListensAt
<1> QED BY <1>1, <1>2, ConnectionsKeep DEF IInv, ShapesOK

\* Of a careful application, no thread comes here.
LEMMA DestroyFaultsKeeps ==
  ASSUME IInv, NEW t \in Contexts, DestroyFaults(t)
  PROVE  IInv'
<1>1. /\ UNCHANGED <<careful, app, inits, result, down, running, tid, context, owner,
                     alive, port, table, state, thread, using, walk>>
      /\ thread[t] = "destroy" /\ using[t] \notin alive
  BY DEF DestroyFaults, appVars, lwsVars, At
<1>2. ~careful
  BY <1>1 DEF IInv, OneThread, Busy
<1>3. ShapesOK'
  BY <1>1 DEF IInv, ShapesOK
<1>4. OneListener' /\ \A n : Listens(n)' <=> Listens(n)
  BY <1>1, SameListener DEF IInv
<1>5. InItsTurn' /\ ServersListen'
  BY <1>1, <1>4 DEF IInv, InItsTurn, ServersListen, ContextPerThread
<1>6. OneThread'
  BY <1>1, <1>2 DEF OneThread
<1> QED BY <1>3, <1>4, <1>5, <1>6 DEF IInv

LEMMA WalkKeeps ==
  ASSUME IInv, NEW t \in Contexts, DestroyTells(t) \/ DestroyNextBucket(t)
  PROVE  IInv'
<1>1. /\ UNCHANGED <<careful, app, inits, result, down, running, tid, context, owner,
                     alive, port, table, thread, using, status>>
      /\ \/ walk' = [walk EXCEPT ![t].index = @ + 1]
         \/ /\ walk[t].bucket < Buckets
            /\ walk' = [walk EXCEPT ![t] = [bucket |-> @.bucket + 1, index |-> 1]]
  BY DEF DestroyTells, DestroyNextBucket, appVars, lwsVars, Advance, InTable
<1>2. walk' \in [Contexts -> [bucket : 0..Buckets, index : Nat \ {0}]]
  <2>1. walk[t].bucket \in 0..Buckets /\ walk[t].index \in Nat \ {0}
    BY DEF IInv, ShapesOK
  <2>2. walk[t].index + 1 \in Nat \ {0}
    BY <2>1
  <2>3. walk[t].bucket < Buckets => walk[t].bucket + 1 \in 0..Buckets
    BY <2>1
  <2>4. CASE walk' = [walk EXCEPT ![t].index = @ + 1]
    <3>1. walk[t] \in [bucket : 0..Buckets, index : Nat \ {0}]
      BY DEF IInv, ShapesOK
    <3>2. [walk[t] EXCEPT !.index = @ + 1] \in [bucket : 0..Buckets, index : Nat \ {0}]
      BY <2>2, <3>1
    <3> QED BY <2>4, <3>2 DEF IInv, ShapesOK
  <2>5. CASE /\ walk[t].bucket < Buckets
             /\ walk' = [walk EXCEPT ![t] = [bucket |-> @.bucket + 1, index |-> 1]]
    BY <2>3, <2>5 DEF IInv, ShapesOK
  <2> QED BY <1>1, <2>4, <2>5
<1>3. \A m, d, i : ListensAt(m, d, i)' <=> ListensAt(m, d, i)
  BY <1>1 DEF ListensAt
<1> QED BY <1>1, <1>2, <1>3, ConnectionsKeep DEF IInv, ShapesOK

\* A thread frees and takes apart no context but its own.
LEMMA OwnContext ==
  ASSUME IInv, NEW t \in Contexts, using[t] \in alive
  PROVE  using[t] = t
BY DEF IInv, ShapesOK, ServersListen, ContextPerThread, Contexts

LEMMA DestroyClosesKeeps ==
  ASSUME IInv, NEW t \in Contexts, DestroyCloses(t)
  PROVE  IInv'
<1> DEFINE b == walk[t].bucket  k == walk[t].index
           old == table[t][b]  new == RemoveAt(old, k)
           was(i) == IF i < k THEN i ELSE i + 1
<1>1. /\ using[t] = t /\ thread[t] = "destroy" /\ b \in Places
      /\ b \in 0..Buckets /\ k \in Nat \ {0}
  <2>1. using[t] \in alive /\ thread[t] = "destroy" /\ b < Buckets
    BY DEF DestroyCloses, At, InTable
  <2>2. walk[t] \in [bucket : 0..Buckets, index : Nat \ {0}]
    BY DEF IInv, ShapesOK
  <2>3. b \in 0..Buckets /\ k \in Nat \ {0}
    BY <2>2
  <2>4. b \in Places
    BY <2>1, <2>3 DEF Places
  <2> QED BY <2>1, <2>3, <2>4, OwnContext
<1>2. /\ UNCHANGED <<careful, app, inits, result, down, running, tid, context, owner,
                     alive, thread, using, status>>
      /\ k <= Len(old)
      /\ port' = IF old[k] = Listener THEN "nobody" ELSE port
      /\ table' = [table EXCEPT ![t][b] = new]
      /\ walk' = [walk EXCEPT ![t].index = @ + 1]
  BY <1>1 DEF DestroyCloses, appVars, Slots, Slot, Advance
<1>3. old \in Seq(Sockets)
  BY <1>1 DEF IInv, ShapesOK
<1>4. k \in DOMAIN old
  BY <1>1, <1>2, <1>3, LenProperties
<1>5. /\ new \in Seq(Sockets) /\ Len(old) \in Nat \ {0} /\ DOMAIN old = 1..Len(old)
      /\ DOMAIN new = 1..(Len(old) - 1)
      /\ \A i \in 1..(Len(old) - 1) : new[i] = old[was(i)]
  <2>1. /\ Len(old) \in Nat \ {0} /\ new \in Seq(Sockets)
        /\ DOMAIN old = 1..Len(old) /\ DOMAIN new = 1..(Len(old) - 1)
        /\ \A i \in 1..(Len(old) - 1) : new[i] = old[IF i < k THEN i ELSE i + 1]
    <3> HIDE DEF old, k
    <3> QED BY <1>3, <1>4, RemoveAtFacts
  <2> QED BY <2>1, Zenon
<1>6. ShapesOK'
  <2>1. table' \in [Contexts -> [Places -> Seq(Sockets)]]
    BY <1>1, <1>2, <1>5 DEF IInv, ShapesOK
  <2>2. walk' \in [Contexts -> [bucket : 0..Buckets, index : Nat \ {0}]]
    <3>1. walk[t] \in [bucket : 0..Buckets, index : Nat \ {0}]
      BY DEF IInv, ShapesOK
    <3>2. [walk[t] EXCEPT !.index = @ + 1] \in [bucket : 0..Buckets, index : Nat \ {0}]
      BY <1>1, <3>1
    <3> QED BY <1>2, <3>2 DEF IInv, ShapesOK
  <2> QED BY <1>2, <2>1, <2>2 DEF IInv, ShapesOK
<1>7. \A m \in Contexts, d \in Places :
        table'[m][d] = IF m = t /\ d = b THEN new ELSE table[m][d]
  BY <1>1, <1>2 DEF IInv, ShapesOK
<1>8. ASSUME NEW i \in DOMAIN new
      PROVE  was(i) \in DOMAIN old /\ was(i) # k /\ new[i] = old[was(i)]
  <2>1. i \in 1..(Len(old) - 1) /\ new[i] = old[was(i)]
    BY <1>5
  <2>2. was(i) \in 1..Len(old) /\ was(i) # k
    <3>1. Len(old) \in Nat \ {0} /\ k \in Nat
      BY <1>1, <1>5
    <3> HIDE DEF old, k
    <3>2. CASE i < k
      BY <2>1, <3>1, <3>2
    <3>3. CASE ~(i < k)
      BY <2>1, <3>1, <3>3
    <3> QED BY <3>2, <3>3
  <2> QED BY <1>5, <2>1, <2>2
<1>9. ASSUME NEW m, NEW d, NEW i, ListensAt(m, d, i)'
      PROVE  ListensAt(m, d, IF m = t /\ d = b THEN was(i) ELSE i)
  BY <1>7, <1>8, <1>9 DEF ListensAt
<1>10. InItsTurn'
  BY <1>2 DEF IInv, InItsTurn
<1>11. OneThread'
  BY <1>2 DEF IInv, OneThread, Up
<1>12. CASE old[k] = Listener
  <2>1. ListensAt(t, b, k)
    BY <1>1, <1>4, <1>12 DEF ListensAt
  <2>2. \A m, d, i : ListensAt(m, d, i) => m = t /\ d = b /\ i = k
    <3>1. ASSUME NEW m, NEW d, NEW i, ListensAt(m, d, i)
          PROVE  m = t /\ d = b /\ i = 1 /\ k = 1
      BY <2>1, <3>1 DEF IInv, OneListener, ListensAt
    <3> HIDE DEF b, k
    <3> QED BY <3>1
  <2>3. ASSUME NEW m, NEW d, NEW i, ListensAt(m, d, i)'
        PROVE  FALSE
    <3>1. m = t /\ d = b
      BY <1>9, <2>2, <2>3
    <3>2. i \in DOMAIN new
      BY <1>1, <1>7, <2>3, <3>1 DEF ListensAt
    <3>3. ListensAt(t, b, was(i))
      BY <1>9, <2>3, <3>1
    <3> QED BY <1>8, <2>2, <3>2, <3>3
  <2>4. OneListener'
    BY <2>3 DEF OneListener, Listens
  <2>5. \A u \in Contexts : Listens(u) => u = t
    BY <2>2 DEF Listens
  <2>6. ServersListen'
    BY <1>1, <1>2, <2>5 DEF IInv, ServersListen, ContextPerThread, InItsTurn
  <2> QED BY <1>6, <1>10, <1>11, <2>4, <2>6 DEF IInv
<1>13. CASE old[k] # Listener
  <2>1. ASSUME NEW m, NEW d, NEW e, NEW f, NEW i, NEW j,
               ListensAt(m, d, i)', ListensAt(e, f, j)'
        PROVE  m = e /\ d = f /\ i = 1 /\ j = 1
    <3>1. /\ ListensAt(m, d, IF m = t /\ d = b THEN was(i) ELSE i)
          /\ ListensAt(e, f, IF e = t /\ f = b THEN was(j) ELSE j)
      BY <1>9, <2>1
    <3>2. /\ m = e /\ d = f
          /\ (IF m = t /\ d = b THEN was(i) ELSE i) = 1
          /\ (IF e = t /\ f = b THEN was(j) ELSE j) = 1
      BY <3>1 DEF IInv, OneListener, ListensAt
    <3>3. CASE m = t /\ d = b
      <4>1. was(i) = 1 /\ was(j) = 1
        BY <3>2, <3>3
      <4>2. i \in DOMAIN new /\ j \in DOMAIN new
        BY <1>1, <1>7, <2>1, <3>2, <3>3 DEF ListensAt
      <4>3. i = 1 /\ j = 1
        <5>1. i \in Nat \ {0} /\ j \in Nat \ {0} /\ k \in Nat
          BY <1>1, <1>5, <4>2
        <5> HIDE DEF k
        <5> QED BY <4>1, <5>1
      <4> QED BY <3>2, <4>3
    <3>4. CASE ~(m = t /\ d = b)
      BY <3>2, <3>4
    <3> QED BY <3>3, <3>4
  <2>2. ASSUME NEW m, NEW d, NEW i, ListensAt(m, d, i)
        PROVE  \E j : ListensAt(m, d, j)'
    <3>1. CASE m = t /\ d = b
      <4>1. i \in DOMAIN old /\ old[i] = Listener /\ i # k
        BY <1>13, <2>2, <3>1 DEF ListensAt
      <4>2. CASE i < k
        <5>1. i \in DOMAIN new /\ was(i) = i
          BY <1>1, <1>2, <1>5, <4>1, <4>2
        <5>2. ListensAt(m, d, i)'
          BY <1>1, <1>7, <1>8, <3>1, <4>1, <5>1 DEF ListensAt
        <5> QED BY <5>2
      <4>3. CASE ~(i < k)
        <5>1. i - 1 \in DOMAIN new /\ was(i - 1) = i
          <6>1. i \in 1..Len(old) /\ i > k
            BY <1>1, <1>5, <4>1, <4>3
          <6>2. i - 1 \in 1..(Len(old) - 1) /\ ~(i - 1 < k) /\ (i - 1) + 1 = i
            BY <1>1, <1>5, <6>1
          <6> QED BY <1>5, <6>2
        <5>2. ListensAt(m, d, i - 1)'
          BY <1>1, <1>7, <1>8, <3>1, <4>1, <5>1 DEF ListensAt
        <5> QED BY <5>2
      <4> QED BY <4>2, <4>3
    <3>2. CASE ~(m = t /\ d = b)
      <4>1. ListensAt(m, d, i)'
        BY <1>7, <2>2, <3>2 DEF ListensAt
      <4> QED BY <4>1
    <3> QED BY <3>1, <3>2
  <2>3. ASSUME NEW m
        PROVE  Listens(m)' <=> Listens(m)
    <3>1. Listens(m) <=> \E d, i : ListensAt(m, d, i)
      BY DEF Listens, ListensAt
    <3>2. Listens(m)' <=> \E d, i : ListensAt(m, d, i)'
      BY DEF Listens, ListensAt
    <3> QED BY <1>9, <2>2, <3>1, <3>2
  <2>4. OneListener'
    <3>1. \A m \in Contexts : Listens(m)' => port' = "headcrab"
      BY <1>2, <1>13, <2>3 DEF IInv, OneListener
    <3> QED BY <2>1, <3>1 DEF OneListener
  <2>5. ServersListen'
    BY <1>2, <2>3 DEF IInv, ServersListen, ContextPerThread
  <2> QED BY <1>6, <1>10, <1>11, <2>4, <2>5 DEF IInv
<1> QED BY <1>12, <1>13

LEMMA DestroyFreesKeeps ==
  ASSUME IInv, NEW t \in Contexts, DestroyFrees(t)
  PROVE  IInv'
<1>1. using[t] = t /\ thread[t] = "destroy"
  BY OwnContext DEF DestroyFrees, At
<1>2. /\ UNCHANGED <<careful, app, inits, result, down, running, tid, context, owner,
                     port, table, state, using, walk, status>>
      /\ alive' = alive \ {t}
      /\ thread' = [thread EXCEPT ![t] = "done"]
  BY <1>1 DEF DestroyFrees, appVars, Goto
<1>3. \A u \in Contexts : thread'[u] = IF u = t THEN "done" ELSE thread[u]
  BY <1>2 DEF IInv, ShapesOK
<1>4. ShapesOK'
  BY <1>2 DEF IInv, ShapesOK, ThreadSteps
<1>5. OneListener' /\ \A n : Listens(n)' <=> Listens(n)
  BY <1>2, SameListener DEF IInv
<1>6. InItsTurn'
  BY <1>1, <1>2, <1>3 DEF IInv, InItsTurn
<1>7. ServersListen'
  BY <1>1, <1>2, <1>3, <1>5 DEF IInv, ServersListen, ContextPerThread
<1>8. OneThread'
  BY <1>1, <1>2, <1>3 DEF IInv, OneThread, Busy, Idle, Up
<1> QED BY <1>4, <1>5, <1>6, <1>7, <1>8 DEF IInv

LEMMA NextKeeps == IInv /\ [Next]_vars => IInv'
<1> SUFFICES ASSUME IInv, [Next]_vars PROVE IInv'
  OBVIOUS
<1>1. CASE \/ HeadcrabInit \/ Create \/ (\E p \in Proxies : CreateProxy(p))
           \/ CreateReturns \/ CreateFails \/ Spawn
  BY <1>1, HeadcrabInitKeeps, CreateKeeps, CreateProxyKeeps, CreateReturnsKeeps,
     CreateFailsKeeps, SpawnKeeps
<1>2. CASE Shutdown \/ Join \/ Post
  BY <1>2, ShutdownKeeps, JoinKeeps, PostKeeps
<1>3. ASSUME NEW t \in Contexts,
             \/ Loop(t) \/ ServiceReturns(t)
             \/ \E c \in Conns : Accept(t, c) \/ Establish(t, c)
      PROVE  IInv'
  BY <1>3, LoopKeeps, ServiceReturnsKeeps, AcceptKeeps, EstablishKeeps
<1>4. ASSUME NEW t \in Contexts,
             \/ DestroyFaults(t) \/ DestroyTells(t) \/ DestroyCloses(t)
             \/ DestroyNextBucket(t) \/ DestroyFrees(t)
      PROVE  IInv'
  BY <1>4, DestroyFaultsKeeps, WalkKeeps, DestroyClosesKeeps, DestroyFreesKeeps
<1>5. CASE UNCHANGED vars
  <2>1. UNCHANGED <<careful, app, inits, result, down, running, tid, context, owner,
                    alive, port, table, thread, using, walk, status>>
    BY <1>5 DEF vars, appVars, lwsVars
  <2>2. \A m, d, i : ListensAt(m, d, i)' <=> ListensAt(m, d, i)
    BY <2>1 DEF ListensAt
  <2> QED BY <2>1, <2>2, ConnectionsKeep DEF IInv, ShapesOK
<1> QED BY <1>1, <1>2, <1>3, <1>4, <1>5 DEF Next

-----------------------------------------------------------------------------
(* The theorems.                                                           *)

\* In every reachable state the listening socket has one place, whoever serves
\* holds it, and a careful application has at most one thread.
THEOREM Invariance == Spec => []IInv
<1>1. Init => IInv
  BY InitIInv
<1>2. IInv /\ [Next]_vars => IInv'
  BY NextKeeps
<1> QED BY <1>1, <1>2, PTL DEF Spec

\* In whatever order headcrab_init and headcrab_shutdown are called, two
\* websocket threads never work on the same context.
THEOREM ContextsNotShared == Spec => []ContextPerThread
<1>1. IInv => ContextPerThread
  BY DEF IInv, ServersListen
<1> QED BY <1>1, Invariance, PTL

\* A careful application's websocket thread has a context that is not freed
\* wherever it uses one, however often headcrab is started and stopped.
THEOREM ServedStaysAlive == Spec => []ServedIsAlive
<1>1. IInv => ServedIsAlive
  BY DEF IInv, OneThread, ServedIsAlive, Busy
<1> QED BY <1>1, Invariance, PTL

-----------------------------------------------------------------------------
(* What the tables hold.                                                   *)

States == {"none", "http", "ws", "told", "closed"}

\* A bucket holds sockets of that bucket, each once, and of the connections
\* those that were accepted.
RowOK(row, b, states) ==
  /\ \A i, j \in DOMAIN row : row[i] = row[j] => i = j
  /\ \A i \in DOMAIN row : Bucket[row[i]] = b
  /\ \A i \in DOMAIN row : row[i] \in Conns => states[row[i]] # "none"

Placed ==
  /\ state \in [Conns -> States]
  /\ \A n \in Contexts, b \in Places : RowOK(table[n][b], b, state)

LEMMA RowNone ==
  ASSUME NEW b, NEW states
  PROVE  RowOK(<< >>, b, states)
BY DEF RowOK

LEMMA RowAppend ==
  ASSUME NEW b, NEW states, NEW states1, NEW row \in Seq(Sockets), RowOK(row, b, states),
         NEW c \in Sockets, Bucket[c] = b, \A i \in DOMAIN row : row[i] # c,
         c \in Conns => states1[c] # "none",
         \A d \in Conns : states[d] # "none" => states1[d] # "none"
  PROVE  RowOK(Append(row, c), b, states1)
<1> DEFINE new == Append(row, c)
<1>1. /\ new \in Seq(Sockets) /\ Len(row) \in Nat
      /\ DOMAIN row = 1..Len(row) /\ DOMAIN new = 1..(Len(row) + 1)
      /\ \A i \in 1..Len(row) : new[i] = row[i]
      /\ new[Len(row) + 1] = c
  BY AppendProperties, LenProperties
<1> HIDE DEF new
<1>2. \A i \in DOMAIN new : \/ i \in DOMAIN row /\ new[i] = row[i]
                            \/ i = Len(row) + 1 /\ new[i] = c
  BY <1>1
<1>3. RowOK(new, b, states1)
  BY <1>2 DEF RowOK
<1> QED BY <1>3 DEF new

LEMMA RowRemove ==
  ASSUME NEW b, NEW states, NEW states1, NEW row \in Seq(Sockets), RowOK(row, b, states),
         NEW k \in DOMAIN row,
         \A d \in Conns : states[d] # "none" => states1[d] # "none"
  PROVE  RowOK(RemoveAt(row, k), b, states1)
<1> DEFINE new == RemoveAt(row, k)
           was(j) == IF j < k THEN j ELSE j + 1
<1>1. /\ Len(row) \in Nat \ {0} /\ DOMAIN row = 1..Len(row) /\ k \in Nat
      /\ DOMAIN new = 1..(Len(row) - 1)
      /\ \A j \in 1..(Len(row) - 1) : new[j] = row[IF j < k THEN j ELSE j + 1]
  BY RemoveAtFacts
<1> HIDE DEF new
<1>2. ASSUME NEW j \in DOMAIN new
      PROVE  was(j) \in DOMAIN row /\ new[j] = row[was(j)]
  BY <1>1
<1>3. ASSUME NEW i \in DOMAIN new, NEW j \in DOMAIN new, was(i) = was(j)
      PROVE  i = j
  <2>1. i \in Nat /\ j \in Nat /\ k \in Nat
    BY <1>1
  <2>2. CASE i < k
    BY <1>3, <2>1, <2>2
  <2>3. CASE ~(i < k)
    BY <1>3, <2>1, <2>3
  <2> QED BY <2>2, <2>3
<1> HIDE DEF was
<1>4. RowOK(new, b, states1)
  BY <1>2, <1>3 DEF RowOK
<1> QED BY <1>4 DEF new

LEMMA InitPlaced == Init => Placed
<1> SUFFICES ASSUME Init PROVE Placed
  OBVIOUS
<1>1. \A n \in Contexts, b \in Places : table[n][b] = << >>
  BY DEF Init, EmptyTable, Places
<1>2. state \in [Conns -> States]
  BY DEF Init, States
<1> QED BY <1>1, <1>2, RowNone DEF Placed

\* What is changed in the tables is right.
LEMMA RowsKeep ==
  ASSUME IInv, Placed, state' \in [Conns -> States],
         \A d \in Conns : state[d] # "none" => state'[d] # "none",
         \A n \in Contexts, b \in Places :
           RowOK(table'[n][b], b, state') \/ table'[n][b] = table[n][b]
  PROVE  Placed'
<1>1. ASSUME NEW n \in Contexts, NEW b \in Places
      PROVE  RowOK(table'[n][b], b, state')
  <2>1. CASE table'[n][b] = table[n][b]
    <3>1. RowOK(table[n][b], b, state)
      BY DEF Placed
    <3>2. RowOK(table[n][b], b, state')
      BY <3>1 DEF RowOK
    <3> QED BY <2>1, <3>2
  <2> QED BY <2>1
<1> QED BY <1>1 DEF Placed

LEMMA CreatePlaces ==
  ASSUME IInv, Placed, Create
  PROVE  Placed'
<1> DEFINE bl == Bucket[Listener]
<1>1. state' = state /\ table' = [table EXCEPT ![inits][bl] = << Listener >>]
      /\ inits \in Contexts /\ bl \in Places
  BY DEF Create, IInv, InItsTurn, Places, Sockets
<1>2. \A n \in Contexts, b \in Places :
        table'[n][b] = IF n = inits /\ b = bl THEN << Listener >> ELSE table[n][b]
  BY <1>1 DEF IInv, ShapesOK
<1>3. RowOK(<< Listener >>, bl, state')
  BY DEF RowOK
<1>4. \A n \in Contexts, b \in Places :
        RowOK(table'[n][b], b, state') \/ table'[n][b] = table[n][b]
  BY <1>2, <1>3
<1>5. state' \in [Conns -> States]
  BY <1>1 DEF Placed
<1> QED BY <1>1, <1>4, <1>5, RowsKeep

\* A step that appends a socket to its bucket, where it was not before.
LEMMA AppendPlaces ==
  ASSUME IInv, Placed, NEW N \in Contexts, NEW s \in Sockets, ~Keeps(N, s),
         table' = [table EXCEPT ![N][Bucket[s]] = Append(@, s)],
         state' \in [Conns -> States], s \in Conns => state'[s] # "none",
         \A d \in Conns : state[d] # "none" => state'[d] # "none"
  PROVE  Placed'
<1> DEFINE b == Bucket[s]
           new == Append(table[N][b], s)
<1>1. b \in Places
  BY DEF Places
<1>2. table[N][b] \in Seq(Sockets) /\ RowOK(table[N][b], b, state)
  BY <1>1 DEF IInv, ShapesOK, Placed
<1>3. RowOK(new, b, state')
  BY <1>2, RowAppend DEF Keeps
<1>4. \A n \in Contexts, d \in Places :
        table'[n][d] = IF n = N /\ d = b THEN new ELSE table[n][d]
  BY <1>1 DEF IInv, ShapesOK
<1>5. \A n \in Contexts, d \in Places :
        RowOK(table'[n][d], d, state') \/ table'[n][d] = table[n][d]
  BY <1>3, <1>4
<1> QED BY <1>5, RowsKeep

LEMMA CreateProxyPlaces ==
  ASSUME IInv, Placed, NEW p \in Proxies, CreateProxy(p)
  PROVE  Placed'
<1>1. /\ ~Keeps(inits, p) /\ state' = state
      /\ table' = [table EXCEPT ![inits][Bucket[p]] = Append(@, p)]
      /\ inits \in Contexts /\ p \in Sockets /\ p \notin Conns
  BY DEF CreateProxy, IInv, InItsTurn, Sockets
<1>2. state' \in [Conns -> States]
  BY <1>1 DEF Placed
<1> QED BY <1>1, <1>2, AppendPlaces

LEMMA AcceptPlaces ==
  ASSUME IInv, Placed, NEW t \in Contexts, NEW c \in Conns, Accept(t, c)
  PROVE  Placed'
<1>1. /\ using[t] \in Contexts /\ Bucket[c] \in Places /\ c \in Sockets
      /\ state[c] = "none" /\ state' = [state EXCEPT ![c] = "http"]
      /\ table' = [table EXCEPT ![using[t]][Bucket[c]] = Append(@, c)]
  BY DEF Accept, IInv, ShapesOK, Places, Sockets
<1>2. /\ state' \in [Conns -> States] /\ state'[c] = "http"
      /\ \A d \in Conns : state[d] # "none" => state'[d] # "none"
  BY <1>1 DEF Placed, States
<1>3. ~Keeps(using[t], c)
  <2>1. RowOK(table[using[t]][Bucket[c]], Bucket[c], state)
    BY <1>1 DEF Placed
  <2> QED BY <1>1, <2>1 DEF Keeps, RowOK
<1> QED BY <1>1, <1>2, <1>3, AppendPlaces

LEMMA ClosesPlaces ==
  ASSUME IInv, Placed, NEW t \in Contexts, DestroyCloses(t)
  PROVE  Placed'
<1> PICK b, k : b = walk[t].bucket /\ k = walk[t].index
  OBVIOUS
<1> DEFINE old == table[t][b]
           new == RemoveAt(old, k)
<1>1. using[t] = t /\ b \in Places /\ k \in Nat \ {0}
  <2>1. using[t] \in alive /\ b < Buckets
    BY DEF DestroyCloses, At, InTable
  <2>2. walk[t] \in [bucket : 0..Buckets, index : Nat \ {0}]
    BY DEF IInv, ShapesOK
  <2>3. b \in 0..Buckets /\ k \in Nat \ {0}
    BY <2>2
  <2> QED BY <2>1, <2>3, OwnContext DEF Places
<1>2. /\ k <= Len(old) /\ table' = [table EXCEPT ![t][b] = new]
      /\ state' = [c \in Conns |-> IF c = old[k] THEN "closed" ELSE state[c]]
  BY <1>1 DEF DestroyCloses, Slots, Slot
<1>3. old \in Seq(Sockets) /\ RowOK(old, b, state)
  BY <1>1 DEF IInv, ShapesOK, Placed
<1>4. k \in DOMAIN old
  BY <1>1, <1>2, <1>3, LenProperties
<1>5. /\ state' \in [Conns -> States]
      /\ \A d \in Conns : state[d] # "none" => state'[d] # "none"
  BY <1>2 DEF Placed, States
<1>6. RowOK(new, b, state')
  <2> HIDE DEF old
  <2> QED BY <1>3, <1>4, <1>5, RowRemove
<1>7. \A n \in Contexts, d \in Places :
        table'[n][d] = IF n = t /\ d = b THEN new ELSE table[n][d]
  BY <1>1, <1>2 DEF IInv, ShapesOK
<1>8. \A n \in Contexts, d \in Places :
        RowOK(table'[n][d], d, state') \/ table'[n][d] = table[n][d]
  BY <1>6, <1>7
<1> QED BY <1>5, <1>8, RowsKeep

LEMMA StepPlaced == IInv /\ Placed /\ [Next]_vars => Placed'
<1> SUFFICES ASSUME IInv, Placed, [Next]_vars PROVE Placed'
  OBVIOUS
<1>1. CASE UNCHANGED <<table, state>>
  BY <1>1 DEF Placed
<1>2. CASE \/ HeadcrabInit \/ CreateReturns \/ CreateFails \/ Spawn
           \/ Shutdown \/ Join \/ Post
  BY <1>1, <1>2
     DEF HeadcrabInit, CreateReturns, CreateFails, Spawn, Shutdown, Join, Post, lwsVars
<1>3. CASE Create \/ \E p \in Proxies : CreateProxy(p)
  BY <1>3, CreatePlaces, CreateProxyPlaces
<1>4. ASSUME NEW t \in Contexts,
             \/ Loop(t) \/ ServiceReturns(t) \/ DestroyFaults(t) \/ DestroyNextBucket(t)
             \/ DestroyFrees(t)
      PROVE  Placed'
  BY <1>1, <1>4
     DEF Loop, ServiceReturns, DestroyFaults, DestroyNextBucket, DestroyFrees, lwsVars
<1>5. ASSUME NEW t \in Contexts, NEW c \in Conns, Accept(t, c)
      PROVE  Placed'
  BY <1>5, AcceptPlaces
<1>6. ASSUME NEW t \in Contexts, NEW c, NEW x \in {"ws", "told"}, table' = table,
             state' = [state EXCEPT ![c] = x]
      PROVE  Placed'
  <2>1. /\ state' \in [Conns -> States]
        /\ \A d \in Conns : state[d] # "none" => state'[d] # "none"
    BY <1>6 DEF Placed, States
  <2> QED BY <1>6, <2>1, RowsKeep
<1>7. ASSUME NEW t \in Contexts, DestroyTells(t) \/ \E c \in Conns : Establish(t, c)
      PROVE  Placed'
  <2>1. /\ table' = table
        /\ \E c, x : x \in {"ws", "told"} /\ state' = [state EXCEPT ![c] = x]
    BY <1>7 DEF DestroyTells, Establish
  <2> QED BY <1>6, <1>7, <2>1
<1>8. ASSUME NEW t \in Contexts, DestroyCloses(t)
      PROVE  Placed'
  BY <1>8, ClosesPlaces
<1>9. CASE UNCHANGED vars
  BY <1>1, <1>9 DEF vars, lwsVars
<1> QED BY <1>2, <1>3, <1>4, <1>5, <1>7, <1>8, <1>9 DEF Next

-----------------------------------------------------------------------------
(* The rest of the types, and how far a walk may get.                      *)

Others ==
  /\ app \in {"idle", "create", "proxies", "spawn", "stop", "join"}
  /\ result \in {"none", "success", "fail"}
  /\ down \in BOOLEAN /\ running \in BOOLEAN
  /\ port \in {"nobody", "other", "headcrab"}
  /\ status \in {"running", "fault"}
  /\ closed \in [Contexts -> SUBSET Sockets]
  /\ \A t \in Contexts : walk[t].index <= Cardinality(Sockets) + 1

\* A bucket is never longer than there are sockets.
LEMMA RowFits ==
  ASSUME NEW b, NEW states, NEW row \in Seq(Sockets), RowOK(row, b, states)
  PROVE  /\ IsFiniteSet(Sockets) /\ Cardinality(Sockets) \in Nat
         /\ Len(row) <= Cardinality(Sockets)
<1> DEFINE len == Len(row)
<1>1. IsFiniteSet(Sockets)
  BY FS_AddElement, FS_Union DEF Sockets
<1>2. Cardinality(Sockets) \in Nat
  BY <1>1, FS_CardinalityType
<1>3. len \in Nat /\ DOMAIN row = 1..len /\ row \in [1..len -> Sockets]
  BY LenProperties
<1> HIDE DEF len
<1>4. row \in Injection(1..len, Sockets)
  BY <1>3 DEF RowOK, Injection, IsInjective
<1>5. Cardinality(1..len) <= Cardinality(Sockets)
  BY <1>1, <1>4, FS_Injection
<1>6. Cardinality(1..len) = len
  BY <1>3, FS_Interval
<1> QED BY <1>1, <1>2, <1>5, <1>6 DEF len

LEMMA InitOthers == Init => Others
<1> SUFFICES ASSUME Init PROVE Others
  OBVIOUS
<1>1. Cardinality(Sockets) \in Nat
  BY EmptySeq, RowNone, RowFits
<1>2. \A t \in Contexts : walk[t].index = 1
  BY DEF Init
<1>3. \A t \in Contexts : walk[t].index <= Cardinality(Sockets) + 1
  BY <1>1, <1>2
<1> QED BY <1>3 DEF Init, Others

\* A walk goes one place further than what it has found.
LEMMA WalkFits ==
  ASSUME IInv, Placed, Others, NEW t \in Contexts, DestroyTells(t) \/ DestroyCloses(t)
  PROVE  \A u \in Contexts : walk'[u].index <= Cardinality(Sockets) + 1
<1>1. using[t] = t
  BY OwnContext DEF DestroyTells, DestroyCloses
<1>2. /\ walk[t].bucket < Buckets
      /\ walk[t].index <= Len(table[t][walk[t].bucket])
      /\ walk' = [walk EXCEPT ![t].index = @ + 1]
  BY <1>1 DEF DestroyTells, DestroyCloses, InTable, Slots, Advance
<1>3. walk[t].bucket \in 0..Buckets /\ walk[t].index \in Nat
  BY DEF IInv, ShapesOK
<1>4. walk[t].bucket \in Places
  BY <1>2, <1>3 DEF Places
<1>5. /\ table[t][walk[t].bucket] \in Seq(Sockets)
      /\ RowOK(table[t][walk[t].bucket], walk[t].bucket, state)
  BY <1>4 DEF IInv, ShapesOK, Placed
<1>6. /\ Cardinality(Sockets) \in Nat
      /\ Len(table[t][walk[t].bucket]) <= Cardinality(Sockets)
      /\ Len(table[t][walk[t].bucket]) \in Nat
  BY <1>5, RowFits, LenProperties
<1>7. \A u \in Contexts : walk'[u].index = IF u = t THEN walk[t].index + 1 ELSE walk[u].index
  BY <1>2 DEF IInv, ShapesOK
<1>8. walk[t].index + 1 <= Cardinality(Sockets) + 1
  <2> DEFINE len == Len(table[t][walk[t].bucket])
             index == walk[t].index
             most == Cardinality(Sockets)
  <2>1. index \in Nat /\ len \in Nat /\ most \in Nat /\ index <= len /\ len <= most
    BY <1>2, <1>3, <1>6
  <2> HIDE DEF len, index, most
  <2>2. index + 1 <= most + 1
    BY <2>1
  <2> QED BY <2>2 DEF index, most
<1> QED BY <1>7, <1>8 DEF Others

\* The one that is visited is in the table.
LEMMA VisitedSocket ==
  ASSUME IInv, NEW t \in Contexts, DestroyTells(t) \/ DestroyCloses(t)
  PROVE  Slot(t) \in Sockets /\ using[t] = t
<1>1. using[t] = t
  BY OwnContext DEF DestroyTells, DestroyCloses
<1>2. walk[t].bucket < Buckets /\ walk[t].index <= Len(table[t][walk[t].bucket])
  BY <1>1 DEF DestroyTells, DestroyCloses, InTable, Slots
<1>3. walk[t].bucket \in 0..Buckets /\ walk[t].index \in Nat \ {0}
  BY DEF IInv, ShapesOK
<1>4. table[t][walk[t].bucket] \in Seq(Sockets)
  BY <1>2, <1>3 DEF IInv, ShapesOK, Places
<1> DEFINE row == table[t][walk[t].bucket]
           k == walk[t].index
<1>5. k \in 1..Len(row)
  BY <1>2, <1>3, <1>4, LenProperties
<1> HIDE DEF row, k
<1>6. row[k] \in Sockets
  BY <1>4, <1>5, ElementOfSeq DEF row
<1> QED BY <1>1, <1>6 DEF Slot, Slots, row, k

LEMMA StepOthers == IInv /\ Placed /\ Others /\ [Next]_vars => Others'
<1> SUFFICES ASSUME IInv, Placed, Others, [Next]_vars PROVE Others'
  OBVIOUS
<1>1. CASE \/ HeadcrabInit \/ CreateFails \/ Spawn \/ Create \/ CreateReturns
           \/ \E p \in Proxies : CreateProxy(p)
  <2>1. CASE \E p \in Proxies : CreateProxy(p)
    BY <2>1 DEF CreateProxy, appVars, Others
  <2> QED BY <1>1, <2>1
     DEF HeadcrabInit, CreateFails, Spawn, Create, CreateReturns, lwsVars, Others
<1>2. CASE Shutdown \/ Join \/ Post
  BY <1>2 DEF Shutdown, Join, JoinReturns, Post, appVars, lwsVars, Others
<1>3. ASSUME NEW t \in Contexts, Loop(t) \/ DestroyNextBucket(t)
      PROVE  Others'
  <2>1. /\ UNCHANGED <<app, result, down, running, port, closed, status>>
        /\ \E b : walk' = [walk EXCEPT ![t] = [bucket |-> b, index |-> 1]]
    <3>1. CASE Loop(t)
      BY <3>1 DEF Loop, appVars, lwsVars
    <3>2. CASE DestroyNextBucket(t)
      <4>1. walk' = [walk EXCEPT ![t] = [bucket |-> walk[t].bucket + 1, index |-> 1]]
        BY <3>2 DEF DestroyNextBucket
      <4> QED BY <3>2, <4>1 DEF DestroyNextBucket, appVars, lwsVars
    <3> QED BY <1>3, <3>1, <3>2
  <2>2. Cardinality(Sockets) \in Nat
    BY EmptySeq, RowNone, RowFits
  <2>3. \A u \in Contexts : walk'[u].index \in {1, walk[u].index}
    BY <2>1 DEF IInv, ShapesOK
  <2> QED BY <2>1, <2>2, <2>3 DEF Others
<1>4. ASSUME NEW t \in Contexts, DestroyTells(t) \/ DestroyCloses(t)
      PROVE  Others'
  <2>1. /\ UNCHANGED <<app, result, down, running, status>>
        /\ port' \in {port, "nobody"}
    BY <1>4 DEF DestroyTells, DestroyCloses, appVars
  <2>3. closed' \in [Contexts -> SUBSET Sockets]
    <3>1. closed' = closed \/ closed' = [closed EXCEPT ![t] = @ \cup {Slot(t)}]
      BY <1>4, VisitedSocket DEF DestroyTells, DestroyCloses
    <3>2. Slot(t) \in Sockets
      BY <1>4, VisitedSocket
    <3> QED BY <3>1, <3>2 DEF Others
  <2>2. \A u \in Contexts : walk'[u].index <= Cardinality(Sockets) + 1
    BY <1>4, WalkFits
  <2> QED BY <2>1, <2>2, <2>3 DEF Others
<1>5. ASSUME NEW t \in Contexts,
             \/ ServiceReturns(t) \/ DestroyFaults(t) \/ DestroyFrees(t)
             \/ \E c \in Conns : Accept(t, c) \/ Establish(t, c)
      PROVE  Others'
  <2>1. UNCHANGED <<app, result, down, running, port, walk, closed>> /\ status' \in {status, "fault"}
    <3>1. CASE ServiceReturns(t) \/ DestroyFaults(t)
      BY <3>1 DEF ServiceReturns, DestroyFaults, appVars, lwsVars
    <3>2. CASE DestroyFrees(t)
      BY <3>2 DEF DestroyFrees, appVars
    <3>3. ASSUME NEW c \in Conns, Accept(t, c)
          PROVE  UNCHANGED <<app, result, down, running, port, walk, closed, status>>
      BY <3>3 DEF Accept, appVars
    <3>4. ASSUME NEW c \in Conns, Establish(t, c)
          PROVE  UNCHANGED <<app, result, down, running, port, walk, closed, status>>
      BY <3>4 DEF Establish, appVars
    <3> QED BY <1>5, <3>1, <3>2, <3>3, <3>4
  <2> QED BY <2>1 DEF Others
<1>6. CASE UNCHANGED vars
  BY <1>6 DEF vars, appVars, lwsVars, Others
<1> QED BY <1>1, <1>2, <1>3, <1>4, <1>5, <1>6 DEF Next

-----------------------------------------------------------------------------
(* What is still to be done.                                               *)

Gone == {"destroy", "done", "joined"}
Starting == {"proxies", "spawn"}

Open(s) ==
  IF s = Listener THEN port = "headcrab" ELSE s \in Conns /\ state[s] \in {"http", "ws"}

\* The destruction of n has closed a socket of its bucket.  The listening socket,
\* the first of its bucket, is visited before any other of it is closed.
Passed(n, s) == s # Listener /\ \E r \in closed[n] : Bucket[r] = Bucket[s]

\* The walk of t has still to come to it.
InFront(t, s) ==
  \E i \in DOMAIN table[t][Bucket[s]] :
    /\ table[t][Bucket[s]][i] = s
    /\ \/ Bucket[s] > walk[t].bucket
       \/ Bucket[s] = walk[t].bucket /\ i >= walk[t].index

\* While a careful application's thread is busy, or is to be started, it has the
\* only context; what is open is in its table and before the walk, or was passed.
Pending ==
  careful =>
    /\ \A n \in alive : thread[n] \in Busy \/ (app \in Starting /\ n = inits)
    /\ \A s \in Sockets :
         Open(s) => \E n \in Contexts : Keeps(n, s) /\ (n \in alive \/ Passed(n, s))
    /\ \A t \in Contexts, s \in Sockets :
         thread[t] = "destroy" /\ Open(s) /\ Keeps(t, s) => Passed(t, s) \/ InFront(t, s)
    /\ \A n \in Contexts : closed[n] # {} => thread[n] \in Gone

\* A careful application has no context but that of the thread that is busy.
LEMMA OneAlive ==
  ASSUME IInv, Pending, careful, NEW t \in Contexts, thread[t] \in Busy
  PROVE  /\ alive = {t} /\ context = t /\ app \notin Starting /\ t = tid
         /\ \A u \in Contexts : thread[u] \in Busy => u = t
<1>1. thread[t] \notin Idle /\ \A u \in Contexts : thread[u] \in Busy => thread[u] \notin Idle
  BY DEF Idle, Busy
<1>2. /\ \A u \in Contexts : thread[u] \in Busy => u = tid
      /\ t = tid /\ app \notin Starting /\ context = t /\ t \in alive
  BY <1>1 DEF IInv, OneThread, Starting
<1>3. \A n \in alive : n \in Contexts /\ thread[n] \in Busy
  BY <1>2 DEF IInv, ShapesOK, Pending
<1> QED BY <1>2, <1>3

\* And none when no thread is, or is about to be.
LEMMA NothingLeft ==
  ASSUME IInv, Pending, careful, app \notin Starting,
         \A t \in Contexts : thread[t] \notin Busy
  PROVE  /\ alive = {}
         /\ \A s \in Sockets : Open(s) => \E n \in Contexts : Keeps(n, s) /\ Passed(n, s)
<1>1. \A n \in alive : n \in Contexts
  BY DEF IInv, ShapesOK
<1>2. alive = {}
  BY <1>1 DEF Pending
<1> QED BY <1>2 DEF Pending

LEMMA InitPending == Init => Pending
<1> SUFFICES ASSUME Init PROVE Pending
  OBVIOUS
<1>1. \A s \in Sockets : ~Open(s)
  BY DEF Init, Open, Sockets
<1> QED BY <1>1 DEF Init, Pending

\* A step that leaves the contexts and what they hold.
LEMMA PendingStays ==
  ASSUME IInv, Pending, UNCHANGED <<careful, alive, table, state, closed, port, walk>>,
         app \in Starting =>
           (app' \in Starting /\ inits' = inits) \/ thread'[inits] \in Busy,
         \A t \in Contexts : /\ thread[t] \in Busy => thread'[t] \in Busy
                             /\ thread[t] \in Gone => thread'[t] \in Gone
                             /\ thread'[t] = "destroy" => thread[t] = "destroy"
  PROVE  Pending'
<1>1. \A s : Open(s)' <=> Open(s)
  BY DEF Open
<1>2. \A n, s : /\ Keeps(n, s)' <=> Keeps(n, s)
                /\ Passed(n, s)' <=> Passed(n, s)
                /\ InFront(n, s)' <=> InFront(n, s)
  BY DEF Keeps, Passed, InFront
<1>3. \A n \in alive : n \in Contexts
  BY DEF IInv, ShapesOK
<1> QED BY <1>1, <1>2, <1>3 DEF Pending

LEMMA CreatePends ==
  ASSUME IInv, Placed, Pending, Create
  PROVE  Pending'
<1> SUFFICES ASSUME careful PROVE Pending'
  BY DEF Create, Pending
<1> DEFINE bl == Bucket[Listener]
<1>1. /\ UNCHANGED <<careful, inits, state, closed, thread, walk>> /\ careful
      /\ app = "create" /\ app' = "proxies" /\ alive' = alive \cup {inits}
      /\ table' = [table EXCEPT ![inits][bl] = << Listener >>]
  BY DEF Create
<1>2. \A t \in Contexts : thread[t] \notin Busy
  BY <1>1 DEF IInv, OneThread, Idle, Busy
<1>3. /\ alive' = {inits}
      /\ \A s \in Sockets : Open(s) => \E n \in Contexts : Keeps(n, s) /\ Passed(n, s)
  BY <1>1, <1>2, NothingLeft DEF Starting
<1>4. \A s \in Sockets : Open(s)' => s = Listener \/ Open(s)
  BY <1>1 DEF Open
<1>5. inits \in Contexts /\ bl \in Places /\ thread[inits] = "none"
  BY <1>1 DEF IInv, InItsTurn, Places, Sockets
<1>6. table'[inits][bl] = << Listener >> /\ \A n \in Contexts : n # inits => table'[n] = table[n]
  BY <1>1, <1>5 DEF IInv, ShapesOK
<1>7. Keeps(inits, Listener)'
  <2>1. 1 \in DOMAIN table'[inits][bl] /\ table'[inits][bl][1] = Listener
    BY <1>6
  <2> QED BY <1>1, <2>1 DEF Keeps
<1>8. closed[inits] = {}
  BY <1>1, <1>5 DEF Pending, Gone
<1>9. \A n \in Contexts, s \in Sockets : Keeps(n, s) /\ Passed(n, s) => Keeps(n, s)' /\ Passed(n, s)'
  <2>1. \A n \in Contexts, s \in Sockets : Passed(n, s) => n # inits
    BY <1>8 DEF Passed
  <2> QED BY <1>1, <1>6, <2>1 DEF Keeps, Passed
<1>10. ASSUME NEW s \in Sockets, Open(s)'
       PROVE  \E n \in Contexts : Keeps(n, s)' /\ (n \in alive' \/ Passed(n, s)')
  <2>1. CASE s = Listener
    <3>1. inits \in Contexts /\ inits \in alive' /\ Keeps(inits, s)'
      BY <1>3, <1>5, <1>7, <2>1
    <3> QED BY <1>1, <3>1
  <2>2. CASE s # Listener
    <3>1. PICK n \in Contexts : Keeps(n, s) /\ Passed(n, s)
      BY <1>3, <1>4, <1>10, <2>2
    <3> QED BY <1>9, <3>1
  <2> QED BY <2>1, <2>2
<1>11. \A t \in Contexts : thread'[t] # "destroy"
  BY <1>1, <1>2 DEF Busy
<1> QED BY <1>1, <1>3, <1>10, <1>11 DEF Pending, Starting

\* A step that gives a socket a place in the table of the only context.
LEMMA AppendPends ==
  ASSUME IInv, Pending, NEW N \in alive, NEW s \in Sockets,
         UNCHANGED <<careful, app, inits, alive, port, thread, walk, closed>>,
         table' = [table EXCEPT ![N][Bucket[s]] = Append(@, s)],
         \A r \in Sockets : Open(r)' => r = s \/ Open(r),
         \A u \in Contexts : thread[u] # "destroy"
  PROVE  Pending'
<1> DEFINE b == Bucket[s]
           old == table[N][b]
           new == Append(old, s)
<1>1. N \in Contexts /\ b \in Places
  BY DEF IInv, ShapesOK, Places
<1>2. old \in Seq(Sockets) /\ table' = [table EXCEPT ![N][b] = new]
  BY <1>1 DEF IInv, ShapesOK
<1>3. /\ Len(old) \in Nat /\ DOMAIN old = 1..Len(old) /\ DOMAIN new = 1..(Len(old) + 1)
      /\ \A i \in 1..Len(old) : new[i] = old[i]
      /\ new[Len(old) + 1] = s
  BY <1>2, AppendProperties, LenProperties
<1>4. /\ \A i \in DOMAIN old : i \in DOMAIN new /\ new[i] = old[i]
      /\ \E i \in DOMAIN new : new[i] = s
  <2> DEFINE len == Len(old)
  <2>1. len + 1 \in DOMAIN new /\ new[len + 1] = s
    BY <1>3
  <2>2. \A i \in 1..len : i \in 1..(len + 1)
    BY <1>3
  <2> HIDE DEF new, len
  <2>3. \E i \in DOMAIN new : new[i] = s
    BY <2>1
  <2> QED BY <1>3, <2>2, <2>3 DEF len
<1> HIDE DEF new
<1>5. \A n \in Contexts, d \in Places :
        table'[n][d] = IF n = N /\ d = b THEN new ELSE table[n][d]
  <2>1. table \in [Contexts -> [Places -> Seq(Sockets)]]
    BY DEF IInv, ShapesOK
  <2>2. /\ table'[N] = [table[N] EXCEPT ![b] = new]
        /\ \A n \in Contexts : n # N => table'[n] = table[n]
    BY <1>1, <1>2, <2>1
  <2> QED BY <1>1, <2>1, <2>2
<1>6. \A r \in Sockets : Bucket[r] \in Places
  BY DEF Places
<1>7. Keeps(N, s)' /\ \A n \in Contexts, r \in Sockets : Keeps(n, r) => Keeps(n, r)'
  BY <1>1, <1>4, <1>5, <1>6 DEF Keeps
<1>8. \A n, r : Passed(n, r)' <=> Passed(n, r)
  BY DEF Passed
<1> QED BY <1>1, <1>7, <1>8 DEF Pending

LEMMA CreateProxyPends ==
  ASSUME IInv, Pending, NEW p \in Proxies, CreateProxy(p)
  PROVE  Pending'
<1> SUFFICES ASSUME careful PROVE Pending'
  BY DEF CreateProxy, appVars, Pending
<1>1. /\ UNCHANGED <<careful, app, inits, alive, port, state, thread, walk, closed>>
      /\ app = "proxies" /\ table' = [table EXCEPT ![inits][Bucket[p]] = Append(@, p)]
      /\ p \in Sockets
  BY DEF CreateProxy, appVars, Sockets
<1>2. inits \in alive /\ \A u \in Contexts : thread[u] # "destroy"
  BY <1>1 DEF IInv, OneThread, Idle
<1>3. \A r : Open(r)' <=> Open(r)
  BY <1>1 DEF Open
<1> QED BY <1>1, <1>2, <1>3, AppendPends

LEMMA AcceptPends ==
  ASSUME IInv, Placed, Pending, NEW t \in Contexts, NEW c \in Conns, Accept(t, c)
  PROVE  Pending'
<1> SUFFICES ASSUME careful PROVE Pending'
  BY DEF Accept, appVars, Pending
<1>1. /\ UNCHANGED <<careful, app, inits, alive, port, thread, walk, closed>>
      /\ thread[t] = "service" /\ using[t] \in alive /\ using[t] = t
      /\ c \in Sockets /\ c # Listener
      /\ state' = [state EXCEPT ![c] = "http"]
      /\ table' = [table EXCEPT ![t][Bucket[c]] = Append(@, c)]
  BY OwnContext DEF Accept, appVars, At, Sockets
<1>2. \A u \in Contexts : thread[u] # "destroy"
  BY <1>1, OneAlive DEF Busy
<1>3. \A r \in Sockets : Open(r)' => r = c \/ Open(r)
  BY <1>1 DEF Open, Placed
<1> QED BY <1>1, <1>2, <1>3, AppendPends

LEMMA EstablishPends ==
  ASSUME IInv, Placed, Pending, NEW t \in Contexts, NEW c \in Conns, Establish(t, c)
  PROVE  Pending'
<1>1. /\ UNCHANGED <<careful, app, inits, alive, port, table, closed, thread, walk>>
      /\ state[c] = "http" /\ state' = [state EXCEPT ![c] = "ws"]
  BY DEF Establish, appVars
<1>2. \A s \in Sockets : Open(s)' => Open(s)
  BY <1>1 DEF Open, Placed
<1>3. \A n, s : /\ Keeps(n, s)' <=> Keeps(n, s)
                /\ Passed(n, s)' <=> Passed(n, s)
                /\ InFront(n, s)' <=> InFront(n, s)
  BY <1>1 DEF Keeps, Passed, InFront
<1> QED BY <1>1, <1>2, <1>3 DEF Pending

\* A walk that begins has all that the table holds before it.
LEMMA LoopPends ==
  ASSUME IInv, Placed, Pending, NEW t \in Contexts, Loop(t)
  PROVE  Pending'
<1> SUFFICES ASSUME careful PROVE Pending'
  BY DEF Loop, appVars, Pending
<1>1. /\ UNCHANGED <<careful, app, inits, alive, port, table, state, closed>>
      /\ thread[t] = "loop" /\ thread'[t] \in {"service", "destroy"}
      /\ \A u \in Contexts : u # t => thread'[u] = thread[u]
      /\ walk'[t] = [bucket |-> 0, index |-> 1]
  BY DEF Loop, appVars, lwsVars, At, Goto, IInv, ShapesOK
<1>2. alive = {t} /\ \A u \in Contexts : thread[u] \in Busy => u = t
  BY <1>1, OneAlive DEF Busy
<1>3. \A s : Open(s)' <=> Open(s)
  BY <1>1 DEF Open
<1>4. \A n, s : (Keeps(n, s)' <=> Keeps(n, s)) /\ (Passed(n, s)' <=> Passed(n, s))
  BY <1>1 DEF Keeps, Passed
<1>5. \A s \in Sockets : Keeps(t, s) => InFront(t, s)'
  <2> SUFFICES ASSUME NEW s \in Sockets, NEW i \in DOMAIN table[t][Bucket[s]],
                      table[t][Bucket[s]][i] = s
               PROVE  InFront(t, s)'
    BY DEF Keeps
  <2>1. Bucket[s] \in Nat /\ Bucket[s] \in Places
    BY DEF Places
  <2>2. i \in Nat \ {0}
    <3>1. table[t][Bucket[s]] \in Seq(Sockets)
      BY <2>1 DEF IInv, ShapesOK
    <3> QED BY <3>1, LenProperties
  <2>3. Bucket[s] > walk'[t].bucket \/ (Bucket[s] = walk'[t].bucket /\ i >= walk'[t].index)
    BY <1>1, <2>1, <2>2
  <2> QED BY <1>1, <2>3 DEF InFront
<1>6. \A u \in Contexts : thread'[u] = "destroy" => u = t
  BY <1>1, <1>2 DEF Busy
<1>7. \A n \in alive' : thread'[n] \in Busy
  BY <1>1, <1>2 DEF Busy
<1>8. \A n \in Contexts : closed'[n] # {} => thread'[n] \in Gone
  BY <1>1 DEF Pending, Gone
<1> QED BY <1>1, <1>2, <1>3, <1>4, <1>5, <1>6, <1>7, <1>8 DEF Pending

LEMMA RowWithout ==
  ASSUME NEW row \in Seq(Sockets), NEW k \in DOMAIN row
  PROVE  /\ Len(row) \in Nat \ {0} /\ DOMAIN row = 1..Len(row)
         /\ DOMAIN RemoveAt(row, k) = 1..(Len(row) - 1)
         /\ \A j \in 1..(Len(row) - 1) :
              RemoveAt(row, k)[j] = row[IF j < k THEN j ELSE j + 1]
BY RemoveAtFacts

\* Of the one that is visited nothing remains to be done, and who moves to its
\* place is behind a socket of its bucket that was closed.
LEMMA VisitPends ==
  ASSUME IInv, Placed, Others, Pending, careful, NEW t \in Contexts,
         DestroyTells(t) \/ DestroyCloses(t)
  PROVE  Pending'
<1> PICK b, k : b = walk[t].bucket /\ k = walk[t].index
  OBVIOUS
<1> DEFINE row == table[t][b]
           new == table'[t][b]
<1>1. thread[t] = "destroy" /\ using[t] = t /\ b < Buckets
  BY OwnContext DEF DestroyTells, DestroyCloses, At, InTable
<1>2. alive = {t} /\ \A u \in Contexts : thread[u] \in Busy => u = t
  BY <1>1, OneAlive DEF Busy
<1>3. b \in Places /\ k \in Nat \ {0}
  <2>1. b \in 0..Buckets /\ k \in Nat \ {0}
    BY DEF IInv, ShapesOK
  <2> QED BY <1>1, <2>1 DEF Places
<1>4. row \in Seq(Sockets) /\ RowOK(row, b, state)
  BY <1>3 DEF IInv, ShapesOK, Placed
<1>5. /\ UNCHANGED <<careful, app, inits, alive, thread>>
      /\ k <= Len(row) /\ walk' = [walk EXCEPT ![t].index = @ + 1]
      /\ Slot(t) = row[k] /\ row[k] \in Sockets
  BY <1>1, VisitedSocket DEF DestroyTells, DestroyCloses, appVars, Slots, Slot, Advance
<1>6. /\ k \in DOMAIN row
      /\ Len(row) \in Nat \ {0} /\ DOMAIN row = 1..Len(row)
      /\ DOMAIN RemoveAt(row, k) = 1..(Len(row) - 1)
      /\ \A j \in 1..(Len(row) - 1) :
           RemoveAt(row, k)[j] = row[IF j < k THEN j ELSE j + 1]
  <2>1. row \in Seq(Sockets) /\ k \in DOMAIN row
    BY <1>3, <1>4, <1>5, LenProperties
  <2> HIDE DEF row, new
  <2> QED BY <2>1, RowWithout
<1>7. /\ \A d \in Conns : d # row[k] => state'[d] = state[d]
      /\ row[k] \in Conns => state'[row[k]] \in {"told", "closed"}
      /\ row[k] = Listener => port' = "nobody"
      /\ row[k] # Listener => port' = port
  <2>1. CASE DestroyTells(t)
    BY <1>5, <2>1 DEF DestroyTells, Placed
  <2>2. CASE DestroyCloses(t)
    BY <1>5, <2>2 DEF DestroyCloses, Placed
  <2> QED BY <2>1, <2>2
<1>8. \A s \in Sockets : Open(s)' => Open(s) /\ s # row[k]
  BY <1>5, <1>7 DEF Open
<1>9. walk'[t].bucket = b /\ walk'[t].index = k + 1
  BY <1>5 DEF IInv, ShapesOK
<1>10. \A n \in Contexts, d \in Places : ~(n = t /\ d = b) => table'[n][d] = table[n][d]
  <2>1. CASE DestroyTells(t)
    BY <2>1 DEF DestroyTells
  <2>2. CASE DestroyCloses(t)
    <3>1. table' = [table EXCEPT ![t][b] = RemoveAt(@, k)]
      BY <1>1, <2>2 DEF DestroyCloses
    <3>2. \A n \in Contexts : n # t => table'[n] = table[n]
      BY <3>1
    <3>3. table \in [Contexts -> [Places -> Seq(Sockets)]]
      BY DEF IInv, ShapesOK
    <3>4. \A d \in Places : d # b => table'[t][d] = table[t][d]
      BY <3>1, <3>3, Zenon
    <3> QED BY <3>2, <3>4
  <2> QED BY <2>1, <2>2
<1>11. /\ \A n \in Contexts, s \in Sockets : Passed(n, s) => Passed(n, s)'
       /\ \A n \in Contexts : closed'[n] # {} => closed[n] # {} \/ n = t
  <2>1. CASE DestroyTells(t)
    BY <2>1 DEF DestroyTells, Passed
  <2>2. CASE DestroyCloses(t)
    <3>1. closed' = [closed EXCEPT ![t] = @ \cup {row[k]}]
      BY <1>1, <1>5, <2>2 DEF DestroyCloses
    <3>2. \A n \in Contexts : closed[n] \subseteq closed'[n] /\ (n # t => closed'[n] = closed[n])
      BY <3>1 DEF Others
    <3> QED BY <3>2 DEF Passed
  <2> QED BY <2>1, <2>2
<1>12. \A s \in Sockets : Bucket[s] \in Places
  BY DEF Places
\* Someone at place i of the bucket.
<1>13. ASSUME NEW s \in Sockets, NEW i \in DOMAIN row, row[i] = s, s # row[k]
       PROVE  \E j \in DOMAIN new :
                /\ new[j] = s
                /\ i >= k => j >= k + 1 \/ Passed(t, s)'
  <2>1. i \in Nat \ {0} /\ i # k /\ Bucket[s] = b
    BY <1>4, <1>13, LenProperties DEF RowOK
  <2>2. CASE DestroyTells(t)
    <3>1. table' = table
      BY <2>2 DEF DestroyTells
    <3>2. i >= k => i >= k + 1
      BY <1>3, <2>1
    <3> QED BY <1>13, <3>1, <3>2
  <2>3. CASE DestroyCloses(t)
    <3>1. /\ table' = [table EXCEPT ![t][b] = RemoveAt(row, k)]
          /\ closed' = [closed EXCEPT ![t] = @ \cup {row[k]}]
      BY <1>1, <1>5, <2>3 DEF DestroyCloses
    <3>2. new = RemoveAt(row, k)
      BY <1>3, <3>1 DEF IInv, ShapesOK
    <3>3. /\ Len(row) \in Nat \ {0} /\ DOMAIN row = 1..Len(row)
          /\ DOMAIN new = 1..(Len(row) - 1)
          /\ \A j \in 1..(Len(row) - 1) : new[j] = row[IF j < k THEN j ELSE j + 1]
      <4> HIDE DEF row, new
      <4> QED BY <1>6, <3>2, Zenon
    <3>4. CASE i < k
      <4>1. i \in 1..(Len(row) - 1) /\ ~(i >= k)
        BY <1>3, <1>5, <2>1, <3>3, <3>4
      <4>2. new[i] = s
        BY <1>13, <3>3, <3>4, <4>1
      <4> QED BY <3>3, <4>1, <4>2
    <3>5. CASE i > k
      <4>1. i - 1 \in 1..(Len(row) - 1) /\ ~(i - 1 < k) /\ (i - 1) + 1 = i
        <5> DEFINE len == Len(row)
        <5>1. len \in Nat /\ i \in 1..len /\ k \in Nat \ {0}
          BY <1>3, <1>5, <2>1, <3>3
        <5> HIDE DEF len
        <5>2. i - 1 \in 1..(len - 1) /\ ~(i - 1 < k) /\ (i - 1) + 1 = i
          BY <3>5, <5>1
        <5> QED BY <5>2 DEF len
      <4>2. new[i - 1] = s
        BY <1>13, <3>3, <4>1
      <4>3. i - 1 >= k + 1 \/ i = k + 1
        BY <1>3, <2>1, <3>5
      <4>4. Bucket[row[k]] = Bucket[s]
        BY <1>4, <1>6, <2>1 DEF RowOK
      <4>5. s # Listener
        <5>1. s = Listener => ListensAt(t, b, i)
          BY <1>3, <1>13 DEF ListensAt
        <5>2. s = Listener => i = 1
          BY <5>1 DEF IInv, OneListener, ListensAt
        <5> QED BY <1>3, <3>5, <5>2
      <4>6. row[k] \in closed'[t]
        BY <3>1 DEF Others
      <4>7. Passed(t, s)'
        BY <4>4, <4>5, <4>6 DEF Passed
      <4> QED BY <3>3, <4>1, <4>2, <4>7
    <3> QED BY <1>3, <2>1, <3>4, <3>5
  <2> QED BY <2>2, <2>3
<1> HIDE DEF row, new
<1>14. ASSUME NEW n \in Contexts, NEW s \in Sockets, s # row[k], Keeps(n, s)
       PROVE  Keeps(n, s)'
  <2>1. CASE n = t /\ Bucket[s] = b
    <3>1. \E j \in DOMAIN new : new[j] = s
      BY <1>13, <1>14, <2>1 DEF Keeps, row
    <3> QED BY <2>1, <3>1 DEF Keeps, new
  <2>2. CASE ~(n = t /\ Bucket[s] = b)
    BY <1>10, <1>12, <1>14, <2>2 DEF Keeps
  <2> QED BY <2>1, <2>2
<1>15. \A s \in Sockets :
         Open(s)' => \E n \in Contexts : Keeps(n, s)' /\ (n \in alive' \/ Passed(n, s)')
  BY <1>5, <1>8, <1>11, <1>14 DEF Pending
<1>16. ASSUME NEW s \in Sockets, Open(s)', Keeps(t, s)'
       PROVE  Passed(t, s)' \/ InFront(t, s)'
  <2>1. Open(s) /\ s # row[k]
    BY <1>8, <1>16
  <2>2. Keeps(t, s)
    <3>1. CASE Bucket[s] = b
      <4>1. CASE DestroyTells(t)
        <5>1. table' = table
          BY <4>1 DEF DestroyTells
        <5> QED BY <1>16, <5>1 DEF Keeps
      <4>2. CASE DestroyCloses(t)
        <5>1. table' = [table EXCEPT ![t][b] = RemoveAt(row, k)]
          BY <1>1, <1>5, <4>2 DEF DestroyCloses, row
        <5>2. new = RemoveAt(row, k)
          BY <1>3, <5>1 DEF IInv, ShapesOK, new
        <5>3. \A j \in DOMAIN new : \E i \in DOMAIN row : new[j] = row[i]
          <6>1. /\ Len(row) \in Nat \ {0} /\ DOMAIN row = 1..Len(row)
                /\ DOMAIN new = 1..(Len(row) - 1)
                /\ \A j \in 1..(Len(row) - 1) : new[j] = row[IF j < k THEN j ELSE j + 1]
            BY <1>6, <5>2, Zenon
          <6>2. \A j \in 1..(Len(row) - 1) : (IF j < k THEN j ELSE j + 1) \in 1..Len(row)
            BY <1>3, <6>1
          <6> QED BY <6>1, <6>2
        <5> QED BY <1>16, <3>1, <5>3 DEF Keeps, row, new
      <4> QED BY <4>1, <4>2
    <3>2. CASE Bucket[s] # b
      BY <1>10, <1>12, <1>16, <3>2 DEF Keeps
    <3> QED BY <3>1, <3>2
  <2>3. CASE Passed(t, s)
    BY <1>11, <2>3
  <2>4. CASE InFront(t, s)
    <3>1. PICK i \in DOMAIN table[t][Bucket[s]] :
            /\ table[t][Bucket[s]][i] = s
            /\ Bucket[s] > b \/ (Bucket[s] = b /\ i >= k)
      BY <2>4 DEF InFront
    <3>2. CASE Bucket[s] = b
      <4>1. i \in DOMAIN row /\ row[i] = s /\ i >= k
        BY <1>3, <3>1, <3>2 DEF row, Places
      <4>2. PICK j \in DOMAIN new : new[j] = s /\ (j >= k + 1 \/ Passed(t, s)')
        BY <1>13, <2>1, <4>1
      <4> QED BY <1>9, <3>2, <4>2 DEF InFront, new
    <3>3. CASE Bucket[s] # b
      BY <1>9, <1>10, <1>12, <3>1, <3>3 DEF InFront
    <3> QED BY <3>2, <3>3
  <2> QED BY <1>1, <2>1, <2>2, <2>3, <2>4 DEF Pending
<1>17. \A n \in alive' : thread'[n] \in Busy
  BY <1>1, <1>2, <1>5 DEF Busy
<1>18. \A u \in Contexts : thread'[u] = "destroy" => u = t
  BY <1>2, <1>5 DEF Busy
<1>19. \A n \in Contexts : closed'[n] # {} => thread'[n] \in Gone
  BY <1>1, <1>5, <1>11 DEF Pending, Gone
<1> QED BY <1>15, <1>16, <1>17, <1>18, <1>19 DEF Pending

\* What was before the walk is not in the bucket that it leaves.
LEMMA NextBucketPends ==
  ASSUME IInv, Placed, Pending, careful, NEW t \in Contexts, DestroyNextBucket(t)
  PROVE  Pending'
<1> PICK b : b = walk[t].bucket
  OBVIOUS
<1>1. /\ UNCHANGED <<careful, app, inits, alive, port, table, state, closed, thread>>
      /\ thread[t] = "destroy" /\ using[t] = t /\ b < Buckets
      /\ walk[t].index > Len(table[t][b])
      /\ walk' = [walk EXCEPT ![t] = [bucket |-> b + 1, index |-> 1]]
  BY OwnContext DEF DestroyNextBucket, appVars, lwsVars, At, InTable, Slots
<1>2. alive = {t} /\ \A u \in Contexts : thread[u] \in Busy => u = t
  BY <1>1, OneAlive DEF Busy
<1>3. \A s : Open(s)' <=> Open(s)
  BY <1>1 DEF Open
<1>4. \A n, s : (Keeps(n, s)' <=> Keeps(n, s)) /\ (Passed(n, s)' <=> Passed(n, s))
  BY <1>1 DEF Keeps, Passed
<1>5. walk'[t].bucket = b + 1 /\ walk'[t].index = 1
  BY <1>1 DEF IInv, ShapesOK
<1>6. ASSUME NEW s \in Sockets, InFront(t, s)
      PROVE  InFront(t, s)'
  <2>1. PICK i \in DOMAIN table[t][Bucket[s]] :
          /\ table[t][Bucket[s]][i] = s
          /\ Bucket[s] > b \/ (Bucket[s] = b /\ i >= walk[t].index)
    BY <1>6 DEF InFront
  <2>2. Bucket[s] \in Places /\ b \in 0..Buckets /\ walk[t].index \in Nat
    BY DEF IInv, ShapesOK, Places
  <2>3. /\ i \in 1..Len(table[t][Bucket[s]]) /\ Len(table[t][Bucket[s]]) \in Nat
    <3>1. table[t][Bucket[s]] \in Seq(Sockets)
      BY <2>2 DEF IInv, ShapesOK
    <3> QED BY <3>1, LenProperties
  <2>4. Bucket[s] # b
    <3> SUFFICES ASSUME Bucket[s] = b PROVE FALSE
      OBVIOUS
    <3> DEFINE len == Len(table[t][b])
    <3>1. i <= len /\ i >= walk[t].index /\ walk[t].index > len /\ len \in Nat /\ i \in Nat
      BY <1>1, <2>1, <2>2, <2>3 DEF Places
    <3> HIDE DEF len
    <3> QED BY <2>2, <3>1
  <2>5. Bucket[s] > b + 1 \/ (Bucket[s] = b + 1 /\ i >= 1)
    BY <2>1, <2>2, <2>3, <2>4 DEF Places
  <2> QED BY <1>1, <1>5, <2>1, <2>5 DEF InFront
<1>7. \A n \in alive' : thread'[n] \in Busy
  BY <1>1, <1>2 DEF Busy
<1>8. \A u \in Contexts : thread'[u] = "destroy" => u = t
  BY <1>1, <1>2 DEF Busy
<1>9. \A n \in Contexts : closed'[n] # {} => thread'[n] \in Gone
  BY <1>1 DEF Pending
<1> QED BY <1>1, <1>3, <1>4, <1>6, <1>7, <1>8, <1>9 DEF Pending

\* When the walk is over, whatever is open was passed over.
LEMMA FreesPends ==
  ASSUME IInv, Placed, Pending, careful, NEW t \in Contexts, DestroyFrees(t)
  PROVE  Pending'
<1>1. /\ UNCHANGED <<careful, app, inits, port, table, state, closed, walk>>
      /\ thread[t] = "destroy" /\ using[t] = t /\ walk[t].bucket = Buckets
      /\ alive' = alive \ {t}
      /\ \A u \in Contexts : thread'[u] = IF u = t THEN "done" ELSE thread[u]
  BY OwnContext DEF DestroyFrees, appVars, At, Goto, IInv, ShapesOK
<1>2. alive = {t} /\ alive' = {} /\ \A u \in Contexts : thread[u] \in Busy => u = t
  BY <1>1, OneAlive DEF Busy
<1>3. \A s : Open(s)' <=> Open(s)
  BY <1>1 DEF Open
<1>4. \A n, s : (Keeps(n, s)' <=> Keeps(n, s)) /\ (Passed(n, s)' <=> Passed(n, s))
  BY <1>1 DEF Keeps, Passed
<1>5. \A s \in Sockets : ~InFront(t, s)
  <2>1. \A s \in Sockets : Bucket[s] \in 0..(Buckets - 1)
    OBVIOUS
  <2> QED BY <1>1, <2>1 DEF InFront
<1>6. \A s \in Sockets : Open(s) => \E n \in Contexts : Keeps(n, s) /\ Passed(n, s)
  BY <1>1, <1>2, <1>5 DEF Pending
<1>7. \A u \in Contexts : thread'[u] # "destroy"
  BY <1>1, <1>2 DEF Busy
<1>8. \A n \in Contexts : closed'[n] # {} => thread'[n] \in Gone
  BY <1>1 DEF Pending, Gone
<1> QED BY <1>1, <1>2, <1>3, <1>4, <1>6, <1>7, <1>8 DEF Pending

LEMMA StepPending == IInv /\ Placed /\ Others /\ Pending /\ [Next]_vars => Pending'
<1> SUFFICES ASSUME IInv, Placed, Others, Pending, [Next]_vars PROVE Pending'
  OBVIOUS
<1>1. CASE HeadcrabInit \/ CreateReturns \/ CreateFails \/ Shutdown \/ Post \/ UNCHANGED vars
  <2>1. /\ UNCHANGED <<careful, alive, table, state, closed, port, walk, thread>>
        /\ app \in Starting => app' \in Starting /\ inits' = inits
    BY <1>1 DEF HeadcrabInit, CreateReturns, CreateFails, Shutdown, Post, vars, appVars,
                lwsVars, Starting
  <2> QED BY <2>1, PendingStays
<1>2. CASE Spawn
  <2>1. /\ UNCHANGED <<careful, alive, table, state, closed, port, walk>>
        /\ app = "spawn" /\ thread' = [thread EXCEPT ![inits] = "loop"]
        /\ inits \in Contexts /\ thread[inits] = "none"
    BY <1>2 DEF Spawn, lwsVars, IInv, InItsTurn
  <2>2. /\ thread'[inits] \in Busy
        /\ \A t \in Contexts : thread'[t] = IF t = inits THEN "loop" ELSE thread[t]
    BY <2>1 DEF Busy, IInv, ShapesOK
  <2> QED BY <2>1, <2>2, PendingStays DEF Busy, Gone
<1>3. CASE Join
  <2>1. /\ UNCHANGED <<careful, alive, table, state, closed, port, walk>> /\ app = "join"
        /\ \/ thread' = thread
           \/ thread[tid] = "done" /\ thread' = [thread EXCEPT ![tid] = "joined"]
    BY <1>3 DEF Join, lwsVars
  <2>2. \A t \in Contexts : \/ thread'[t] = thread[t]
                            \/ thread[t] = "done" /\ thread'[t] = "joined"
    BY <2>1 DEF IInv, ShapesOK
  <2> QED BY <2>1, <2>2, PendingStays DEF Busy, Gone, Starting
<1>4. CASE Create \/ \E p \in Proxies : CreateProxy(p)
  BY <1>4, CreatePends, CreateProxyPends
<1>5. ASSUME NEW t \in Contexts, ServiceReturns(t) \/ DestroyFaults(t)
      PROVE  Pending'
  <2>1. /\ UNCHANGED <<careful, app, inits, alive, table, state, closed, port, walk>>
        /\ \/ thread' = thread
           \/ thread[t] = "service" /\ thread' = [thread EXCEPT ![t] = "loop"]
    BY <1>5 DEF ServiceReturns, DestroyFaults, appVars, lwsVars, At, Goto
  <2>2. \A u \in Contexts : \/ thread'[u] = thread[u]
                            \/ thread[u] = "service" /\ thread'[u] = "loop"
    BY <2>1 DEF IInv, ShapesOK
  <2> QED BY <2>1, <2>2, PendingStays DEF Busy, Gone
<1>6. ASSUME NEW t \in Contexts,
             Loop(t) \/ \E c \in Conns : Accept(t, c) \/ Establish(t, c)
      PROVE  Pending'
  BY <1>6, LoopPends, AcceptPends, EstablishPends
<1>7. ASSUME NEW t \in Contexts,
             \/ DestroyTells(t) \/ DestroyCloses(t)
             \/ DestroyNextBucket(t) \/ DestroyFrees(t)
      PROVE  Pending'
  <2>1. careful' = careful
    BY <1>7 DEF DestroyTells, DestroyCloses, DestroyNextBucket, DestroyFrees, appVars
  <2>2. CASE careful
    BY <1>7, <2>2, VisitPends, NextBucketPends, FreesPends
  <2> QED BY <2>1, <2>2 DEF Pending
<1> QED BY <1>1, <1>2, <1>3, <1>4, <1>5, <1>6, <1>7 DEF Next

-----------------------------------------------------------------------------
\* The values of the variables; no socket has two places in a table, and a walk
\* goes one place behind a bucket's last at most.
THEOREM TypeCorrect == Spec => []TypeOK
<1>1. Spec => []Placed
  BY InitPlaced, StepPlaced, Invariance, PTL DEF Spec
<1>2. Spec => []Others
  BY <1>1, InitOthers, StepOthers, Invariance, PTL DEF Spec
<1>3. IInv /\ Placed /\ Others => TypeOK
  <2> SUFFICES ASSUME IInv, Placed, Others PROVE TypeOK
    OBVIOUS
  <2>1. \A n \in Contexts, b \in Places : IsInjective(table[n][b])
    BY DEF Placed, RowOK, IsInjective
  <2>2. walk \in [Contexts -> [bucket : 0..Buckets, index : 1..(Cardinality(Sockets) + 1)]]
    <3>1. Cardinality(Sockets) \in Nat
      BY EmptySeq, RowNone, RowFits
    <3>2. walk \in [Contexts -> [bucket : 0..Buckets, index : Nat \ {0}]]
      BY DEF IInv, ShapesOK
    <3>3. \A t \in Contexts : walk[t] \in [bucket : 0..Buckets, index : 1..(Cardinality(Sockets) + 1)]
      <4> DEFINE most == Cardinality(Sockets) + 1
      <4>1. \A t \in Contexts : /\ walk[t].index \in Nat \ {0} /\ walk[t].index <= most
                                /\ walk[t] \in [bucket : 0..Buckets, index : Nat \ {0}]
        BY <3>2 DEF Others
      <4>2. most \in Nat
        BY <3>1
      <4> HIDE DEF most
      <4>3. \A t \in Contexts : walk[t].index \in 1..most
        BY <4>1, <4>2
      <4>4. \A t \in Contexts : walk[t] \in [bucket : 0..Buckets, index : 1..most]
        BY <4>1, <4>3
      <4> QED BY <4>4 DEF most
    <3> QED BY <3>2, <3>3
  <2> QED BY <2>1, <2>2 DEF IInv, ShapesOK, Placed, Others, TypeOK, Places, States
<1> QED BY <1>1, <1>2, <1>3, Invariance, PTL

\* When the headcrab_shutdown of a careful application has returned, whatever
\* the connections and wherever they are in the table, its thread and context are
\* gone, the port is free, and every client is closed, told, or was passed over
\* behind a closed socket of its bucket.
THEOREM ShutdownCompletes == Spec => []ShutdownIsComplete
<1>1. Spec => []Placed
  BY InitPlaced, StepPlaced, Invariance, PTL DEF Spec
<1>2. Spec => []Others
  BY <1>1, InitOthers, StepOthers, Invariance, PTL DEF Spec
<1>3. Spec => []Pending
  BY <1>1, <1>2, InitPending, StepPending, Invariance, PTL DEF Spec
<1>4. IInv /\ Placed /\ Pending => ShutdownIsComplete
  <2> SUFFICES ASSUME IInv, Placed, Pending, careful, down, app = "idle"
               PROVE  /\ alive = {} /\ port # "headcrab"
                      /\ \A t \in Contexts : thread[t] \in {"none", "joined"}
                      /\ \A c \in Conns : \/ state[c] \in {"none", "told", "closed"}
                                          \/ \E n \in Contexts : PassedOver(n, c)
    BY DEF ShutdownIsComplete
  <2>1. \A t \in Contexts : thread[t] \in Idle
    BY DEF IInv, OneThread, Up
  <2>2. /\ alive = {}
        /\ \A s \in Sockets : Open(s) => \E n \in Contexts : Keeps(n, s) /\ Passed(n, s)
    BY <2>1, NothingLeft DEF Idle, Busy, Starting
  <2>3. port # "headcrab"
    BY <2>2 DEF Open, Passed, Sockets
  <2>4. ASSUME NEW c \in Conns, state[c] \notin {"none", "told", "closed"}
        PROVE  \E n \in Contexts : PassedOver(n, c)
    <3>1. c \in Sockets /\ Open(c)
      BY <2>4 DEF Open, Sockets, Placed, States
    <3> QED BY <2>2, <3>1 DEF PassedOver, Passed
  <2> QED BY <2>1, <2>2, <2>3, <2>4 DEF Idle
<1> QED BY <1>1, <1>3, <1>4, Invariance, PTL

=============================================================================
