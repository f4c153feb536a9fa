----------------------------- MODULE Lifecycle -----------------------------
(***************************************************************************)
(* Starting and stopping headcrab: headcrab_init and headcrab_shutdown in  *)
(* the application thread, and the websocket thread that one starts and    *)
(* the other waits for.  They share three variables with no lock: running, *)
(* tid and context.                                                        *)
(*                                                                         *)
(* The context's table of connections is kept by bucket, because           *)
(* libwebsocket_context_destroy walks it while closing a socket takes it   *)
(* out; headcrab's own sockets are in it with the browsers' connections.   *)
(* The dispatch table that an init allocates is DispatchTable's Init; what *)
(* the websocket thread does with a message is Inbound's and Outbound's.   *)
(* malloc, socket and pthread_create do not fail; bind fails when the port *)
(* is taken.                                                               *)
(***************************************************************************)
EXTENDS Integers, FiniteSets, SequencesExt

CONSTANTS
  Conns,      \* the connections browsers make
  Listener,   \* the listening socket
  Proxies,    \* the sockets that listen for broadcasts, one per protocol
  Bucket,     \* LWS_FD_HASH of each one's descriptor
  Buckets,    \* FD_HASHTABLE_MODULUS
  MaxInits    \* how often headcrab_init is called

Sockets == Conns \cup Proxies \cup {Listener}

ASSUME LifecycleAssumption ==
  /\ Listener \notin Conns \cup Proxies /\ Conns \cap Proxies = {}
  /\ IsFiniteSet(Conns) /\ IsFiniteSet(Proxies)
  /\ Buckets \in Nat \ {0}
  /\ Bucket \in [Sockets -> 0..(Buckets - 1)]
  /\ MaxInits \in Nat

VARIABLES
  careful,   \* the application inits when it is down, posts and shuts down when up
  app,       \* the application's next step: idle, create, proxies, spawn, stop, join
  inits,     \* calls of headcrab_init; the nth makes context n and thread n
  result,    \* of the last init: none, success, fail
  down,      \* headcrab_shutdown has been called since then
  running,   \* the flag the websocket thread looks at
  context,   \* the context it is to serve, 0 for NULL
  owner,     \* protocols[].owning_server, 0 for NULL
  alive,     \* the contexts allocated and not freed
  port,      \* who listens on the port: nobody, other, headcrab
  tid,       \* the thread to join, 0 before the first
  thread,    \* per thread: its next step
  using,     \* per thread: the context it has passed to libwebsockets
  table,     \* per context and bucket: the sockets in its table
  state,     \* per connection: none, http, ws, told to close, closed
  closed,    \* per context: the sockets that destroying it has closed
  walk,      \* per thread: the place of libwebsocket_context_destroy in it
  status     \* of the process: running or fault

appVars == <<careful, app, inits, result, down, running, tid>>
lwsVars == <<context, owner, alive, port, table, state, closed>>
vars == <<appVars, lwsVars, thread, using, walk, status>>

Contexts == 1..MaxInits

EmptyTable == [b \in 0..(Buckets - 1) |-> << >>]

Init ==
  /\ careful \in BOOLEAN
  /\ app = "idle"
  /\ inits = 0
  /\ result = "none"
  /\ down = FALSE
  /\ running = TRUE
  /\ context = 0
  /\ owner = 0
  /\ alive = {}
  /\ port \in {"nobody", "other"}
  /\ tid = 0
  /\ thread = [t \in Contexts |-> "none"]
  /\ using = [t \in Contexts |-> 0]
  /\ table = [n \in Contexts |-> EmptyTable]
  /\ state = [c \in Conns |-> "none"]
  /\ closed = [n \in Contexts |-> {}]
  /\ walk = [t \in Contexts |-> [bucket |-> 0, index |-> 1]]
  /\ status = "running"

Alive == status = "running"

\* An init has succeeded and nothing has been shut down since.
Up == result = "success" /\ ~down

-----------------------------------------------------------------------------
(* The application thread.                                                 *)

\* headcrab_init, up to libwebsocket_create_context.
HeadcrabInit ==
  /\ Alive /\ app = "idle"
  /\ inits < MaxInits
  /\ careful => ~Up
  /\ inits' = inits + 1
  /\ result' = "none"
  /\ down' = FALSE
  /\ app' = "create"
  /\ UNCHANGED <<careful, running, tid, lwsVars, thread, using, walk, status>>

\* Mutant: it is not noticed that bind fails.
CreateAnyway ==
  /\ Alive /\ app = "create"
  /\ port' = "headcrab"
  /\ owner' = inits
  /\ alive' = alive \cup {inits}
  /\ table' = [table EXCEPT ![inits][Bucket[Listener]] = << Listener >>]
  /\ app' = "proxies"
  /\ UNCHANGED <<careful, inits, result, down, running, tid, context, state, closed,
                 thread, using, walk, status>>

\* libwebsocket_create_context: a new context, which is to own the protocols,
\* listens.
Create ==
  /\ Alive /\ app = "create"
  /\ port = "nobody"
  /\ port' = "headcrab"
  /\ owner' = inits
  /\ alive' = alive \cup {inits}
  /\ table' = [table EXCEPT ![inits][Bucket[Listener]] = << Listener >>]
  /\ app' = "proxies"
  /\ UNCHANGED <<careful, inits, result, down, running, tid, context, state, closed,
                 thread, using, walk, status>>

Keeps(n, s) == \E i \in DOMAIN table[n][Bucket[s]] : table[n][Bucket[s]][i] = s

\* Its loop over the protocols gives each a socket that listens for broadcasts.
CreateProxy(p) ==
  /\ Alive /\ app = "proxies"
  /\ ~Keeps(inits, p)
  /\ table' = [table EXCEPT ![inits][Bucket[p]] = Append(@, p)]
  /\ UNCHANGED <<appVars, context, owner, alive, port, state, closed, thread, using, walk,
                 status>>

CreateReturns ==
  /\ Alive /\ app = "proxies"
  /\ \A p \in Proxies : Keeps(inits, p)
  /\ context' = inits
  /\ app' = "spawn"
  /\ UNCHANGED <<careful, inits, result, down, running, tid, owner, alive, port, table,
                 state, closed, thread, using, walk, status>>

\* It returns NULL, which is stored in context all the same, and
\* headcrab_init calls headcrab_shutdown.
CreateFails ==
  /\ Alive /\ app = "create"
  /\ port # "nobody"
  /\ context' = 0
  /\ app' = "stop"
  /\ UNCHANGED <<careful, inits, result, down, running, tid, owner, alive, port, table,
                 state, closed, thread, using, walk, status>>

\* pthread_create, and headcrab_init returns HC_SUCCESS.
Spawn ==
  /\ Alive /\ app = "spawn"
  /\ tid' = inits
  /\ thread' = [thread EXCEPT ![inits] = "loop"]
  /\ result' = "success"
  /\ app' = "idle"
  /\ UNCHANGED <<careful, inits, down, running, lwsVars, using, walk, status>>

\* Mutant: the websocket thread is not told to stop.
ShutdownSilent ==
  /\ Alive
  /\ app = "stop" \/ (app = "idle" /\ (careful => Up))
  /\ down' = TRUE
  /\ app' = "join"
  /\ UNCHANGED <<careful, inits, result, running, tid, lwsVars, thread, using, walk, status>>

\* headcrab_shutdown and websocket_shutdown, called by the application or by a
\* failed headcrab_init.
Shutdown ==
  /\ Alive
  /\ app = "stop" \/ (app = "idle" /\ (careful => Up))
  /\ running' = FALSE
  /\ down' = TRUE
  /\ app' = "join"
  /\ UNCHANGED <<careful, inits, result, tid, lwsVars, thread, using, walk, status>>

JoinReturns ==
  /\ app' = "idle"
  /\ result' = IF result = "none" THEN "fail" ELSE result
  /\ UNCHANGED status

\* Mutant: nobody waits for the thread.
JoinAtOnce ==
  /\ Alive /\ app = "join"
  /\ JoinReturns
  /\ UNCHANGED <<careful, inits, down, running, tid, lwsVars, thread, using, walk>>

Joinable == tid # 0 /\ thread[tid] # "joined"

\* pthread_join.  Joining no thread, or one already joined, is undefined: it
\* returns an error or crashes.
Join ==
  /\ Alive /\ app = "join"
  /\ \/ /\ Joinable /\ thread[tid] = "done"
        /\ thread' = [thread EXCEPT ![tid] = "joined"]
        /\ JoinReturns
     \/ /\ ~Joinable
        /\ \/ JoinReturns
           \/ status' = "fault" /\ UNCHANGED <<app, result>>
        /\ UNCHANGED thread
  /\ UNCHANGED <<careful, inits, down, running, tid, lwsVars, using, walk>>

\* headcrab_post_message: libwebsockets_broadcast reads the owner's table.
Post ==
  /\ Alive /\ app = "idle"
  /\ careful => Up
  /\ status' = IF owner \in alive THEN status ELSE "fault"
  /\ UNCHANGED <<appVars, lwsVars, thread, using, walk>>

-----------------------------------------------------------------------------
(* The websocket thread.                                                   *)

At(t, place) == Alive /\ thread[t] = place
Goto(t, place) == thread' = [thread EXCEPT ![t] = place]

\* while (running) libwebsocket_service(context, 50); then destroy it.
Loop(t) ==
  /\ At(t, "loop")
  /\ using' = [using EXCEPT ![t] = context]
  /\ walk' = [walk EXCEPT ![t] = [bucket |-> 0, index |-> 1]]
  /\ Goto(t, IF running THEN "service" ELSE "destroy")
  /\ UNCHANGED <<appVars, lwsVars, status>>

\* libwebsocket_service ignores a NULL context and returns within 50 ms.
ServiceReturns(t) ==
  /\ At(t, "service")
  /\ using[t] = 0 \/ using[t] \in alive
  /\ Goto(t, "loop")
  /\ UNCHANGED <<appVars, lwsVars, using, walk, status>>

\* Mutant: a connection is accepted again.
AcceptAgain(t, c) ==
  /\ At(t, "service") /\ using[t] \in alive
  /\ state[c] \in {"none", "http"}
  /\ Len(table[using[t]][Bucket[c]]) < 3
  /\ state' = [state EXCEPT ![c] = "http"]
  /\ table' = [table EXCEPT ![using[t]][Bucket[c]] = Append(@, c)]
  /\ UNCHANGED <<appVars, context, owner, alive, port, closed, thread, using, walk,
                 status>>

Accept(t, c) ==
  /\ At(t, "service") /\ using[t] \in alive
  /\ state[c] = "none"
  /\ state' = [state EXCEPT ![c] = "http"]
  /\ table' = [table EXCEPT ![using[t]][Bucket[c]] = Append(@, c)]
  /\ UNCHANGED <<appVars, context, owner, alive, port, closed, thread, using, walk,
                 status>>

Establish(t, c) ==
  /\ At(t, "service") /\ using[t] \in alive
  /\ state[c] = "http"
  /\ state' = [state EXCEPT ![c] = "ws"]
  /\ UNCHANGED <<appVars, context, owner, alive, port, table, closed, thread, using,
                 walk, status>>

\* libwebsocket_context_destroy visits the slots of the table, and hands each
\* socket to libwebsocket_close_and_free_session.
DestroyFaults(t) ==
  /\ At(t, "destroy")
  /\ using[t] \notin alive
  /\ status' = "fault"
  /\ UNCHANGED <<appVars, lwsVars, thread, using, walk>>

InTable(t) == walk[t].bucket < Buckets
Slots(t) == table[using[t]][walk[t].bucket]
Slot(t) == Slots(t)[walk[t].index]
Advance(t) == walk' = [walk EXCEPT ![t].index = @ + 1]

\* An established connection is sent a close frame, and stays open in its slot.
DestroyTells(t) ==
  /\ At(t, "destroy") /\ using[t] \in alive
  /\ InTable(t) /\ walk[t].index <= Len(Slots(t))
  /\ Slot(t) \in Conns /\ state[Slot(t)] = "ws"
  /\ state' = [state EXCEPT ![Slot(t)] = "told"]
  /\ Advance(t)
  /\ UNCHANGED <<appVars, context, owner, alive, port, table, closed, thread, using,
                 status>>

\* Any other socket is closed and taken out, and so is an established connection
\* whose close frame cannot be written.  The slot that the socket leaves to its
\* successor is behind the walk.
DestroyCloses(t) ==
  /\ At(t, "destroy") /\ using[t] \in alive
  /\ InTable(t) /\ walk[t].index <= Len(Slots(t))
  /\ state' = [c \in Conns |-> IF c = Slot(t) THEN "closed" ELSE state[c]]
  /\ closed' = [closed EXCEPT ![using[t]] = @ \cup {Slot(t)}]
  /\ port' = IF Slot(t) = Listener THEN "nobody" ELSE port
  /\ table' = [table EXCEPT ![using[t]][walk[t].bucket] = RemoveAt(@, walk[t].index)]
  /\ Advance(t)
  /\ UNCHANGED <<appVars, context, owner, alive, thread, using, status>>

DestroyNextBucket(t) ==
  /\ At(t, "destroy") /\ using[t] \in alive
  /\ InTable(t) /\ walk[t].index > Len(Slots(t))
  /\ walk' = [walk EXCEPT ![t] = [bucket |-> @.bucket + 1, index |-> 1]]
  /\ UNCHANGED <<appVars, lwsVars, thread, using, status>>

\* Mutant: the buckets after the first are not visited.
DestroyFreesEarly(t) ==
  /\ At(t, "destroy") /\ using[t] \in alive
  /\ walk[t].bucket > 0
  /\ alive' = alive \ {using[t]}
  /\ Goto(t, "done")
  /\ UNCHANGED <<appVars, context, owner, port, table, state, closed, using, walk, status>>

\* The table goes with the context: whoever is left in it is never closed.
\* context and owning_server are not reset.
DestroyFrees(t) ==
  /\ At(t, "destroy") /\ using[t] \in alive
  /\ walk[t].bucket = Buckets
  /\ alive' = alive \ {using[t]}
  /\ Goto(t, "done")
  /\ UNCHANGED <<appVars, context, owner, port, table, state, closed, using, walk, status>>

Destroying(t) ==
  \/ DestroyFaults(t) \/ DestroyTells(t) \/ DestroyCloses(t)
  \/ DestroyNextBucket(t) \/ DestroyFrees(t)

Next ==
  \/ HeadcrabInit \/ Create \/ (\E p \in Proxies : CreateProxy(p)) \/ CreateReturns
  \/ CreateFails \/ Spawn \/ Shutdown \/ Join \/ Post
  \/ \E t \in Contexts :
       \/ Loop(t) \/ ServiceReturns(t)
       \/ \E c \in Conns : Accept(t, c) \/ Establish(t, c)
       \/ DestroyFaults(t) \/ DestroyTells(t) \/ DestroyCloses(t)
       \/ DestroyNextBucket(t) \/ DestroyFrees(t)

Spec == Init /\ [][Next]_vars

\* Both threads run on; libwebsocket_service returns, its poll having a timeout.
FairSpec ==
  /\ Spec
  /\ WF_vars(Create \/ CreateReturns \/ CreateFails \/ Spawn \/ Join)
  /\ WF_vars(\E p \in Proxies : CreateProxy(p))
  /\ WF_vars(app = "stop" /\ Shutdown)
  /\ \A t \in Contexts :
       WF_vars(Loop(t)) /\ WF_vars(ServiceReturns(t)) /\ WF_vars(Destroying(t))

-----------------------------------------------------------------------------
(* Correctness.                                                            *)

ThreadSteps == {"none", "loop", "service", "destroy", "done", "joined"}

\* The values of the variables; no socket is in the table twice.
TypeOK ==
  /\ careful \in BOOLEAN
  /\ app \in {"idle", "create", "proxies", "spawn", "stop", "join"}
  /\ inits \in 0..MaxInits
  /\ result \in {"none", "success", "fail"}
  /\ down \in BOOLEAN /\ running \in BOOLEAN
  /\ context \in 0..MaxInits /\ owner \in 0..MaxInits /\ tid \in 0..MaxInits
  /\ alive \subseteq Contexts
  /\ port \in {"nobody", "other", "headcrab"}
  /\ thread \in [Contexts -> ThreadSteps]
  /\ using \in [Contexts -> 0..MaxInits]
  /\ table \in [Contexts -> [0..(Buckets - 1) -> Seq(Sockets)]]
  /\ \A n \in Contexts, b \in 0..(Buckets - 1) : IsInjective(table[n][b])
  /\ state \in [Conns -> {"none", "http", "ws", "told", "closed"}]
  /\ closed \in [Contexts -> SUBSET Sockets]
  /\ walk \in [Contexts -> [bucket : 0..Buckets, index : 1..(Cardinality(Sockets) + 1)]]
  /\ status \in {"running", "fault"}

\* Under a careful application, the context that the websocket thread serves or
\* takes apart is one it may still use: only that thread frees it, and only when
\* its loop is over.
ServedIsAlive ==
  careful => \A t \in Contexts :
    thread[t] \in {"service", "destroy"} => using[t] \in alive /\ status # "fault"

\* Whatever the order of the calls, a thread works on the context of the init
\* that started it, or on none: two threads never serve or free the same one.
ContextPerThread == \A t \in Contexts : using[t] \in {0, t}

\* A connection that the destruction of a context has passed over: a socket of
\* its bucket was closed before it, and moved it to a place already visited.
PassedOver(n, c) == Keeps(n, c) /\ \E s \in closed[n] : Bucket[s] = Bucket[c]

\* When the headcrab_shutdown of a careful application has returned, the thread
\* is gone, its context is freed and the port can be listened on again, wherever
\* the sockets are in the table.  Every connection is closed or was sent a close
\* frame, unless it shares its bucket with a socket closed before it; one that was
\* sent the frame keeps its socket when the context is freed.  It is less than
\* headcrab.h:79 says, "disconnect clients", and libwebsockets.c:2069, "closes any
\* active connections".
ShutdownIsComplete ==
  careful /\ down /\ app = "idle" =>
    /\ alive = {} /\ port # "headcrab"
    /\ \A t \in Contexts : thread[t] \in {"none", "joined"}
    /\ \A c \in Conns : \/ state[c] \in {"none", "told", "closed"}
                        \/ \E n \in Contexts : PassedOver(n, c)

\* The headcrab_shutdown that a careful application calls returns, however the
\* thread is occupied.  The one a failed headcrab_init calls may join no thread.
ShutdownReturns ==
  (careful /\ app = "join" /\ result = "success") ~> (app = "idle")

\* headcrab.h:71: headcrab_init starts the web server: from its success to
\* the next shutdown a thread serves, if the application is careful.
ServesWhenUp ==
  careful /\ Up => thread[inits] \in {"loop", "service"} /\ running

=============================================================================
