------------------------------ MODULE Outbound ------------------------------
(***************************************************************************)
(* The path of a message from headcrab_post_message to a browser.          *)
(*                                                                         *)
(* Two threads of the server process run it.  The application thread       *)
(* pushes a message on the queue `out' and then walks libwebsockets' table *)
(* of connections itself (libwebsockets_broadcast), calling                *)
(* callback_command for each established one.  The websocket thread        *)
(* accepts, services and closes connections, and calls callback_command    *)
(* when a connection that asked for it can be written.  Both run the same  *)
(* callback on the same table with no lock: only the queue has one.        *)
(*                                                                         *)
(* Granularity.  A step is one access to what the threads share: an        *)
(* operation of `out' (atomic, PthreadQueue shows it), one read or write   *)
(* of the table of connections, of the poll set or of a connection.  The   *)
(* connections negotiate the "command" protocol and no extension, and the  *)
(* sockets accept what is written to them (a send never blocks for good).  *)
(***************************************************************************)
EXTENDS Integers, FiniteSets, SequencesExt

CONSTANTS
  Conns,       \* the connections made in the life of the server
  Bucket,      \* LWS_FD_HASH of a connection's descriptor
  Buckets,     \* FD_HASHTABLE_MODULUS: buckets are 0 .. Buckets - 1
  Initially,   \* the connections established before the first post
  Unreliable,  \* the connections whose browser may leave
  Capacity,    \* MQ_LEN
  MaxPosts     \* how many messages the application posts

ASSUME OutboundAssumption ==
  /\ IsFiniteSet(Conns) /\ "stale" \notin Conns
  /\ Buckets \in Nat \ {0}
  /\ Bucket \in [Conns -> 0..(Buckets - 1)]
  /\ Initially \subseteq Conns
  /\ Unreliable \subseteq Conns
  /\ Capacity \in Nat \ {0}
  /\ MaxPosts \in Nat

\* A slot of the table that holds no live pointer.
Stale == "stale"

Threads == {"app", "svc"}

VARIABLES
  posted,    \* messages are numbered in the order they are posted
  outq,      \* the queue `out'
  dropped,   \* the messages queue_enqueue refused
  wire,      \* per connection: the messages written to its socket
  table,     \* per bucket: fd_hashtable[n].wsi[0 .. length - 1]
  fds,       \* context->fds: the connections polled, and who wants POLLOUT
  wsi,       \* per connection: the state of its struct libwebsocket
  peer,      \* per connection: what its browser has done
  pc,        \* per thread: the next step
  cur,       \* per thread: the wsi it works on (Stale: none)
  msg,       \* per thread: the message it has popped (0: none)
  slot,      \* per thread: the index into fds it has found
  walk,      \* the application's place in the table: bucket and index
  status     \* of the process: running, exited (exit(1)) or fault

vars == <<posted, outq, dropped, wire, table, fds, wsi, peer,
          pc, cur, msg, slot, walk, status>>

queueVars == <<posted, outq, dropped, wire>>
connVars == <<table, fds, wsi, peer>>
threadVars == <<pc, cur, msg, slot, walk>>

Init ==
  /\ posted = 0
  /\ outq = << >>
  /\ dropped = {}
  /\ wire = [c \in Conns |-> << >>]
  /\ table = [b \in 0..(Buckets - 1) |->
                SetToSeq({c \in Initially : Bucket[c] = b})]
  /\ fds = [i \in 1..Cardinality(Initially) |->
              [conn |-> SetToSeq(Initially)[i], out |-> FALSE]]
  /\ wsi = [c \in Conns |-> IF c \in Initially THEN "established" ELSE "none"]
  /\ peer = [c \in Conns |-> IF c \in Initially THEN "up" ELSE "absent"]
  /\ pc = [app |-> "idle", svc |-> "poll"]
  /\ cur = [t \in Threads |-> Stale]
  /\ msg = [t \in Threads |-> 0]
  /\ slot = [t \in Threads |-> 0]
  /\ walk = [bucket |-> 0, index |-> 1]
  /\ status = "running"

Alive == status = "running"

Goto(t, place) == pc' = [pc EXCEPT ![t] = place]

\* Memory the connection's struct occupied is no longer a struct.
Freed(c) == IF c = Stale THEN TRUE ELSE wsi[c] = "freed"

-----------------------------------------------------------------------------
(* headcrab_post_message: push, then notify.                               *)

\* Mutant: a full queue takes the message all the same.
PostUnchecked ==
  /\ Alive
  /\ pc["app"] = "idle"
  /\ posted < MaxPosts
  /\ posted' = posted + 1
  /\ outq' = Append(outq, posted')
  /\ walk' = [bucket |-> 0, index |-> 1]
  /\ Goto("app", "walk")
  /\ UNCHANGED <<dropped, wire, connVars, cur, msg, slot, status>>

Post ==
  /\ Alive
  /\ pc["app"] = "idle"
  /\ posted < MaxPosts
  /\ posted' = posted + 1
  /\ IF Len(outq) < Capacity
       THEN outq' = Append(outq, posted') /\ UNCHANGED dropped
       ELSE dropped' = dropped \cup {posted'} /\ UNCHANGED outq
  /\ walk' = [bucket |-> 0, index |-> 1]
  /\ Goto("app", "walk")
  /\ UNCHANGED <<wire, connVars, cur, msg, slot, status>>

-----------------------------------------------------------------------------
(* libwebsockets_broadcast: the length is read again at every turn.        *)

WalkNext ==
  /\ Alive
  /\ pc["app"] = "walk"
  /\ \/ /\ walk.bucket = Buckets
        /\ Goto("app", "idle")
        /\ UNCHANGED <<walk, cur>>
     \/ /\ walk.bucket < Buckets
        /\ walk.index > Len(table[walk.bucket])
        /\ walk' = [bucket |-> walk.bucket + 1, index |-> 1]
        /\ UNCHANGED <<pc, cur>>
     \/ /\ walk.bucket < Buckets
        /\ walk.index <= Len(table[walk.bucket])
        /\ cur' = [cur EXCEPT !["app"] = table[walk.bucket][walk.index]]
        /\ Goto("app", "filter")
        /\ UNCHANGED walk
  /\ UNCHANGED <<queueVars, connVars, msg, slot, status>>

\* Mutant: a connection that is still shaking hands is called back.
WalkFilterAll ==
  /\ Alive
  /\ pc["app"] = "filter"
  /\ LET c == cur["app"] IN
       \/ Freed(c) /\ status' = "fault" /\ UNCHANGED pc
       \/ ~Freed(c) /\ Goto("app", "pop") /\ UNCHANGED status
  /\ UNCHANGED <<queueVars, connVars, cur, msg, slot, walk>>

\* Only an established connection is called back.
WalkFilter ==
  /\ Alive
  /\ pc["app"] = "filter"
  /\ LET c == cur["app"] IN
       \/ /\ Freed(c)
          /\ status' = "fault"
          /\ UNCHANGED <<pc, walk>>
       \/ /\ ~Freed(c) /\ wsi[c] # "established"
          /\ walk' = [walk EXCEPT !.index = @ + 1]
          /\ Goto("app", "walk")
          /\ UNCHANGED status
       \/ /\ ~Freed(c) /\ wsi[c] = "established"
          /\ Goto("app", "pop")
          /\ UNCHANGED <<walk, status>>
  /\ UNCHANGED <<queueVars, connVars, cur, msg, slot>>

-----------------------------------------------------------------------------
(* callback_command, LWS_CALLBACK_BROADCAST (t = "app") and                *)
(* LWS_CALLBACK_SERVER_WRITEABLE (t = "svc").                              *)

\* Where the caller of the callback goes on.
Resume(t) ==
  IF t = "app"
    THEN Goto("app", "walk") /\ walk' = [walk EXCEPT !.index = @ + 1]
    ELSE Goto("svc", "poll") /\ UNCHANGED walk

\* Mutant: the message is taken off the wrong end.
PopNewest(t) ==
  /\ Alive
  /\ pc[t] = "pop"
  /\ IF outq = << >>
       THEN Resume(t) /\ UNCHANGED <<outq, msg>>
       ELSE /\ msg' = [msg EXCEPT ![t] = Last(outq)]
            /\ outq' = Front(outq)
            /\ Goto(t, "write")
            /\ UNCHANGED walk
  /\ UNCHANGED <<posted, dropped, wire, connVars, cur, slot, status>>

\* Mutant: the head is read but not removed.
PopPeek(t) ==
  /\ Alive
  /\ pc[t] = "pop"
  /\ IF outq = << >>
       THEN Resume(t) /\ UNCHANGED <<outq, msg>>
       ELSE /\ msg' = [msg EXCEPT ![t] = Head(outq)]
            /\ Goto(t, "write")
            /\ UNCHANGED <<outq, walk>>
  /\ UNCHANGED <<posted, dropped, wire, connVars, cur, slot, status>>

\* mq_pop, json_dumps and json_decref: the message is in this thread's hands.
Pop(t) ==
  /\ Alive
  /\ pc[t] = "pop"
  /\ IF outq = << >>
       THEN Resume(t) /\ UNCHANGED <<outq, msg>>
       ELSE /\ msg' = [msg EXCEPT ![t] = Head(outq)]
            /\ outq' = Tail(outq)
            /\ Goto(t, "write")
            /\ UNCHANGED walk
  /\ UNCHANGED <<posted, dropped, wire, connVars, cur, slot, status>>

\* libwebsocket_write refuses a connection that is not established, and send
\* may fail once the browser has reset the connection: either ends the process.
WriteFails(c) == wsi[c] # "established" \/ peer[c] = "reset"
WriteSucceeds(c) == wsi[c] = "established"

Write(t) ==
  /\ Alive
  /\ pc[t] = "write"
  /\ LET c == cur[t] IN
       \/ /\ Freed(c)
          /\ status' = "fault"
          /\ UNCHANGED <<wire, msg, pc>>
       \/ /\ ~Freed(c) /\ WriteFails(c)
          /\ status' = "exited"
          /\ UNCHANGED <<wire, msg, pc>>
       \/ /\ ~Freed(c) /\ WriteSucceeds(c)
          /\ wire' = [wire EXCEPT ![c] = Append(@, msg[t])]
          /\ msg' = [msg EXCEPT ![t] = 0]
          /\ Goto(t, "find")
          /\ UNCHANGED status
  /\ UNCHANGED <<posted, outq, dropped, connVars, cur, slot, walk>>

\* libwebsocket_callback_on_writable looks the descriptor up in the poll set,
SlotOf(c) == CHOOSE i \in DOMAIN fds : fds[i].conn = c

Find(t) ==
  /\ Alive
  /\ pc[t] = "find"
  /\ LET c == cur[t] IN
       \/ /\ Freed(c)
          /\ status' = "fault"
          /\ UNCHANGED <<slot, pc, walk>>
       \/ /\ ~Freed(c) /\ \A i \in DOMAIN fds : fds[i].conn # c
          /\ Resume(t)
          /\ UNCHANGED <<slot, status>>
       \/ /\ ~Freed(c) /\ \E i \in DOMAIN fds : fds[i].conn = c
          /\ slot' = [slot EXCEPT ![t] = SlotOf(c)]
          /\ Goto(t, "arm")
          /\ UNCHANGED <<walk, status>>
  /\ UNCHANGED <<queueVars, connVars, cur, msg>>

\* Mutant: the connection does not ask to be called back.
ArmNothing(t) ==
  /\ Alive
  /\ pc[t] = "arm"
  /\ slot' = [slot EXCEPT ![t] = 0]
  /\ Resume(t)
  /\ UNCHANGED <<queueVars, connVars, cur, msg, status>>

\* and sets POLLOUT in the entry it found, whosever it has become since.
Arm(t) ==
  /\ Alive
  /\ pc[t] = "arm"
  /\ fds' = [i \in DOMAIN fds |->
               IF i = slot[t] THEN [fds[i] EXCEPT !.out = TRUE] ELSE fds[i]]
  /\ slot' = [slot EXCEPT ![t] = 0]
  /\ Resume(t)
  /\ UNCHANGED <<queueVars, table, wsi, peer, cur, msg, status>>

Callback(t) == Pop(t) \/ Write(t) \/ Find(t) \/ Arm(t)

-----------------------------------------------------------------------------
(* libwebsocket_service, in the websocket thread: one polled event.        *)

Polling == pc["svc"] = "poll"

SvcPollOut(c) ==
  /\ Alive
  /\ Polling
  /\ wsi[c] = "established" /\ peer[c] # "reset"
  /\ \E i \in DOMAIN fds :
       /\ fds[i] = [conn |-> c, out |-> TRUE]
       /\ fds' = [fds EXCEPT ![i].out = FALSE]
  /\ cur' = [cur EXCEPT !["svc"] = c]
  /\ Goto("svc", "pop")
  /\ UNCHANGED <<queueVars, table, wsi, peer, msg, slot, walk, status>>

\* accept and insert_wsi: wsi[length++] = new_wsi leaves the order of the two
\* writes to the compiler, so the length may grow before the slot is filled.
SvcAccept(c) ==
  /\ Alive
  /\ Polling
  /\ wsi[c] = "none" /\ peer[c] # "absent"
  /\ wsi' = [wsi EXCEPT ![c] = "http"]
  /\ \/ /\ table' = [table EXCEPT ![Bucket[c]] = Append(@, c)]
        /\ fds' = Append(fds, [conn |-> c, out |-> FALSE])
        /\ UNCHANGED <<pc, cur>>
     \/ /\ table' = [table EXCEPT ![Bucket[c]] = Append(@, Stale)]
        /\ cur' = [cur EXCEPT !["svc"] = c]
        /\ Goto("svc", "insert")
        /\ UNCHANGED fds
  /\ UNCHANGED <<queueVars, peer, msg, slot, walk, status>>

SvcInsert ==
  /\ Alive
  /\ pc["svc"] = "insert"
  /\ LET c == cur["svc"] IN
       /\ table' = [table EXCEPT ![Bucket[c]] = Append(Front(@), c)]
       /\ fds' = Append(fds, [conn |-> c, out |-> FALSE])
  /\ Goto("svc", "poll")
  /\ UNCHANGED <<queueVars, wsi, peer, cur, msg, slot, walk, status>>

\* The handshake completes; LWS_CALLBACK_ESTABLISHED does nothing.
SvcEstablish(c) ==
  /\ Alive
  /\ Polling
  /\ wsi[c] = "http" /\ peer[c] = "up"
  /\ wsi' = [wsi EXCEPT ![c] = "established"]
  /\ UNCHANGED <<queueVars, table, fds, peer, threadVars, status>>

\* libwebsocket_close_and_free_session, after a close frame or a hang-up.
SvcClose(c) ==
  /\ Alive
  /\ Polling
  /\ wsi[c] \in {"http", "established"} /\ peer[c] \in {"closing", "reset"}
  /\ wsi' = IF wsi[c] = "established" /\ peer[c] = "closing"
              THEN [wsi EXCEPT ![c] = "closing"] ELSE wsi
  /\ cur' = [cur EXCEPT !["svc"] = c]
  /\ Goto("svc", "shift")
  /\ UNCHANGED <<queueVars, table, fds, peer, msg, slot, walk, status>>

\* The first slot that holds the connection is taken out.
Without(s, c) ==
  IF c \in ToSet(s) THEN RemoveAt(s, CHOOSE i \in DOMAIN s : s[i] = c) ELSE s

\* The poll set when the entry of a connection is taken out of it.
Unpolled(c) ==
  IF \E i \in DOMAIN fds : fds[i].conn = c THEN RemoveAt(fds, SlotOf(c)) ELSE fds

\* delete_from_fd moves the later slots down, the one past the end included,
SvcShift ==
  /\ Alive
  /\ pc["svc"] = "shift"
  /\ table' = [table EXCEPT ![Bucket[cur["svc"]]] =
                 Append(Without(@, cur["svc"]), Stale)]
  /\ Goto("svc", "cut")
  /\ UNCHANGED <<queueVars, fds, wsi, peer, cur, msg, slot, walk, status>>

\* then lowers the length; the poll set loses its entry the same way.
SvcCut ==
  /\ Alive
  /\ pc["svc"] = "cut"
  /\ table' = [table EXCEPT ![Bucket[cur["svc"]]] = Front(@)]
  /\ fds' = Unpolled(cur["svc"])
  /\ Goto("svc", "dead")
  /\ UNCHANGED <<queueVars, wsi, peer, cur, msg, slot, walk, status>>

SvcDead ==
  /\ Alive
  /\ pc["svc"] = "dead"
  /\ wsi' = [wsi EXCEPT ![cur["svc"]] = "dead"]
  /\ Goto("svc", "free")
  /\ UNCHANGED <<queueVars, table, fds, peer, cur, msg, slot, walk, status>>

SvcFree ==
  /\ Alive
  /\ pc["svc"] = "free"
  /\ wsi' = [wsi EXCEPT ![cur["svc"]] = "freed"]
  /\ Goto("svc", "poll")
  /\ UNCHANGED <<queueVars, table, fds, peer, cur, msg, slot, walk, status>>

-----------------------------------------------------------------------------
(* The browsers.                                                           *)

PeerConnect(c) ==
  /\ Alive
  /\ peer[c] = "absent"
  /\ peer' = [peer EXCEPT ![c] = "up"]
  /\ UNCHANGED <<queueVars, table, fds, wsi, threadVars, status>>

PeerLeave(c) ==
  /\ Alive
  /\ c \in Unreliable
  /\ \/ peer[c] = "up" /\ peer' = [peer EXCEPT ![c] = "closing"]
     \/ peer[c] \in {"up", "closing"} /\ peer' = [peer EXCEPT ![c] = "reset"]
  /\ UNCHANGED <<queueVars, table, fds, wsi, threadVars, status>>

-----------------------------------------------------------------------------
AppWalk == WalkNext \/ WalkFilter

Closing == SvcInsert \/ SvcShift \/ SvcCut \/ SvcDead \/ SvcFree

Next ==
  \/ Post \/ WalkNext \/ WalkFilter
  \/ \E t \in Threads : Pop(t) \/ Write(t) \/ Find(t) \/ Arm(t)
  \/ \E c \in Conns :
       \/ SvcPollOut(c) \/ SvcAccept(c) \/ SvcEstablish(c) \/ SvcClose(c)
       \/ PeerConnect(c) \/ PeerLeave(c)
  \/ SvcInsert \/ SvcShift \/ SvcCut \/ SvcDead \/ SvcFree

Spec == Init /\ [][Next]_vars

\* Both threads keep running.  One pass of libwebsocket_service handles every
\* descriptor that is ready, so none is passed over for ever: strong fairness
\* per connection.  Browsers that are expected do connect.
Fairness ==
  /\ WF_vars(AppWalk)
  /\ \A t \in Threads : WF_vars(Callback(t))
  /\ WF_vars(Closing)
  /\ \A c \in Conns :
       /\ SF_vars(SvcPollOut(c))
       /\ SF_vars(SvcAccept(c))
       /\ SF_vars(SvcEstablish(c))
       /\ SF_vars(SvcClose(c))
       /\ WF_vars(PeerConnect(c))

FairSpec == Spec /\ Fairness

-----------------------------------------------------------------------------
(* Correctness.                                                            *)

PCs == {"idle", "walk", "filter", "pop", "write", "find", "arm",
        "poll", "insert", "shift", "cut", "dead", "free"}

Numbers == 1..MaxPosts

\* The shapes of the queue, the table of connections, the poll set and the two
\* threads' registers.
TypeOK ==
  /\ posted \in 0..MaxPosts
  /\ outq \in Seq(Numbers) /\ Len(outq) <= Capacity
  /\ dropped \subseteq Numbers
  /\ wire \in [Conns -> Seq(Numbers)]
  /\ table \in [0..(Buckets - 1) -> Seq(Conns \cup {Stale})]
  /\ fds \in Seq([conn : Conns, out : BOOLEAN])
  /\ wsi \in [Conns -> {"none", "http", "established", "closing", "dead", "freed"}]
  /\ peer \in [Conns -> {"absent", "up", "closing", "reset"}]
  /\ pc \in [Threads -> PCs]
  /\ cur \in [Threads -> Conns \cup {Stale}]
  /\ msg \in [Threads -> 0..MaxPosts]
  /\ slot \in [Threads -> 0..Cardinality(Conns)]
  /\ walk.bucket \in 0..Buckets /\ walk.index \in Nat \ {0}
  /\ status \in {"running", "exited", "fault"}

Written(m) == \E c \in Conns : m \in ToSet(wire[c])
Held(m) == \E t \in Threads : msg[t] = m

PlacesIn(s, m) == {i \in DOMAIN s : s[i] = m}

\* Every place where message m is.
Places(m) ==
  {<<"dropped", d>> : d \in dropped \cap {m}}
    \cup {<<"waits", i>> : i \in PlacesIn(outq, m)}
    \cup {<<"held", t>> : t \in {u \in Threads : msg[u] = m}}
    \cup UNION {{<<"written", c, i>> : i \in PlacesIn(wire[c], m)} : c \in Conns}

\* Every message posted is in exactly one place: refused by the full queue,
\* waiting in it, in the hands of one thread, or written once to one
\* connection.  Two threads that pop never get the same message, and a message
\* goes to one browser, not to all of them.
OnePlace == \A m \in 1..posted : Cardinality(Places(m)) = 1

\* A message is overtaken only while a thread holds it: whatever is written
\* while it waits in the queue is older.  At most one thread holds one message
\* when the other writes, so the order seen by a browser is off by that one.
OvertakenIsHeld ==
  \A m \in Numbers, n \in Numbers :
    m < n /\ n \in 1..posted /\ (Written(n) \/ Held(n)) /\ m \notin dropped
      => Written(m) \/ Held(m)

\* The server ends itself (exit(1)), or touches a connection that is freed, only
\* after some browser has gone: a failed write is never caused by the two threads
\* writing at once, nor by a connection that is still shaking hands.  Before that,
\* what can go wrong is that headcrab_post_message reads the slot of a connection
\* that the other thread is inserting.
Gone == \E c \in Conns : peer[c] \in {"closing", "reset"}

ExitAfterLoss ==
  /\ status = "exited" => Gone
  /\ status = "fault" => Gone \/ cur["app"] = Stale

Established == \E c \in Conns : wsi[c] = "established"
BroadcastBegins == pc["app"] = "walk" /\ walk = [bucket |-> 0, index |-> 1]

\* If no browser leaves, a message posted while one is established makes the
\* whole queue drain, whatever had waited there for a browser, although each
\* callback takes one message and the threads set and clear POLLOUT with no
\* lock (or the process has died walking a table that was being changed).
Drained ==
  [](~Gone) => \A m \in Numbers :
    (BroadcastBegins /\ Established /\ m \in ToSet(outq))
      ~> (Written(m) \/ status # "running")

\* headcrab.h:139: headcrab_post_message "Posts a message to the client".
PostedIsSent ==
  \A m \in Numbers :
    (posted >= m /\ m \notin dropped) ~> (Written(m) \/ status # "running")

=============================================================================
