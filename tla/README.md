# headcrab.js in TLA+

Models, model-checking runs and proofs for headcrab.js: a C library that lets a
native application be driven from a web page over a WebSocket. This directory
holds the TLA+ modules, their TLC configurations, the proofs and
`PROJECT.json`, which lists every run, which source lines each definition
stands for, the hazards of the code and the properties that watch them.

Paths below are relative to the repository (`src/` in `PROJECT.json`).

## 1. The system

```
  browser                      server process
  headcrab.js  --- command --> websocket thread --- queue `in' ---> application thread
   issue                       callback_command                     headcrab_handle_commands
   replyhandler                  (RECEIVE)                             dispatch -> dispatch_table_execute
       ^                                                                  -> the application's functions
       |                       callback_command                               |
       +------- reply -------- (BROADCAST, SERVER_WRITEABLE) <-- queue `out' <-- headcrab_post_message
                               in EITHER thread
```

Two threads. The *application thread* calls everything in `inc/headcrab.h`. The
*websocket thread* is started by `headcrab_init` and runs
`libwebsocket_service` until a flag says stop. They share the two queues, the
flag and the context pointer, and, because `headcrab_post_message` calls
`libwebsockets_broadcast` itself, the whole of libwebsockets' connection table.
Only the queues have a lock.

### Components

| component | state | operations | what is hard | what makes it correct |
|---|---|---|---|---|
| Bounded queue (`src/queue.h`, `src/headcrab_mqueue.c`) | array, `size`, `in`, `out`, mutex; two instances of 100 slots | `queue_enqueue`, `queue_dequeue`, `queue_size`; `mq_push`, `mq_pop` | two threads; three fields changed one after the other; three early returns under a mutex | atomic FIFO that refuses what does not fit; the mutex is given back |
| Outbound path (`headcrab_post_message`, `websocket_notify`, `callback_command`, libwebsockets' broadcast, accept, close, POLLOUT) | queue `out`, the table of connections (hash buckets of wsi pointers), the poll set, the wsi's state | post, walk the table, pop, write, ask for POLLOUT; accept, establish, close | the walk and the callback run in both threads with no lock; a table that shifts under an index; freed structs; a failed write calls `exit(1)` | no message duplicated, none lost but by a full queue, bounded overtaking, the queue drains, no exit without a cause |
| Inbound path (`callback_command` RECEIVE, `headcrab_handle_commands`, `dispatch`) | queue `in`, jansson values and their reference counts | receive, parse, push; pop, check, copy the seqID, run, post, release | ownership passes through queues; NULL means both "empty" and "unparsable"; the text's length is passed as the parser's flags | nothing freed is used; commands run in order; replies carry their command's seqID; the queue empties |
| Dispatch table (`src/headcrab_dispatch.c`) | list of nodes (name, object), each with a list of handlers | bind, clear, rebind, execute | handlers call the library again: the list grows under its own walk, and walks nest; and clearing, rebinding, absent ops and second objects do not do what is documented | one node per name, each binding in one place, every handler called once, in order and on its object, preOps and postOps paired |
| Startup and shutdown (`headcrab_init`, `headcrab_shutdown`, `websocket_*`) | `running`, `tid`, `context`, `owning_server`, the port | init, create a context, spawn; stop, join; destroy the context | three unlocked variables; a failed init shuts down; the destroying walk removes from the table it walks, and a close frame may fail | shutdown returns, with the thread gone and the context freed; a served context is alive; clients are closed or told |
| Browser client (`src/headcrab.js`) | `nextSeqID`, `expectedCommands`, `connection` | `connect`, `issue`, `replyhandler` | replies missing, repeated, reordered; callbacks that issue, connect again or throw; seqIDs start again | the right callback, once; every answered command's callback is called |
| Service loop (`libwebsocket_service`, `libwebsocket_service_fd`, `libwebsocket_read`, `libwebsocket_parse`; `callback_http`) | the poll set, the pass's index, per connection the state, the header parser and its buffers | poll, visit each entry: accept, read, hang up; answer a request, shake hands, close | the poll set grows and shrinks under the pass; sockets block; a connection serves several requests with one parser | `recv` only where something is; callback_command hears of each session's beginning and end; a connection's first request gets its own answer; nobody is passed over for ever |
| Frames (`libwebsocket_rx_sm`, `libwebsocket_write`) | parse state, opcode, remaining length, key and its index, a buffer of 4096 bytes | one byte of a header, of a length, of a key, of a payload; spill; write | fragments at any byte, three forms of a length, a buffer that fills inside a frame, a reply between two bytes | each frame is read once, whole, unmasked and in order; what is written is framed as a browser reads it |
| Round trip | all of the above | | three threads, three queues, losses | what the page assumes of its server is what the server does |
| jansson (`lib/`) | | | | third-party: reference counts and the flags of `json_loads` |
| Logging | a function pointer | print | | not modelled |
| Examples (`examples/`) | | | | used for the inputs (what bindings and handlers look like) |

## 2. Modules

| module | models | composed with |
|---|---|---|
| `LinearFifo` | what a queue promises: an atomic FIFO of bounded length with calls and returns | |
| `PthreadQueue` | `queue.h` statement by statement | implements `LinearFifo` (`INSTANCE`, refinement mapping `Contents`, `Pending`, `Result`) |
| `Outbound` | the way out, in two threads | uses a queue as one step, which `PthreadQueue` justifies |
| `Inbound` | the way in and the ownership of values | likewise; an `out` that somebody empties |
| `Registry` | what the table of bindings promises: a map from names to handlers | |
| `DispatchTable` | `headcrab_dispatch.c` and its callers in `headcrab.c` | implements `Registry` |
| `Lifecycle` | init, shutdown, the thread, the context | |
| `JsClient` | the page's side, over a server that does what the other modules show of it | |
| `Service` | the service loop: accept, read, close, requests and handshakes | its connections are the ones `Outbound` has as joining and leaving |
| `FrameReader` | what reading frames promises: whole frames, in order | |
| `Framing` | the frame reader byte by byte, and the writer | implements `FrameReader` |
| `Headcrab` | the round trip: the page, both queues, the application thread, both writers | its page's actions are `JsClient`'s; implements `JsClient` |
| `PthreadQueueProofs`, `DispatchTableProofs`, `OutboundProofs`, `InboundProofs`, `LifecycleProofs`, `JsClientProofs`, `ServiceProofs`, `FramingProofs` | proofs about the module of that name; in `JsClientProofs` also about `Headcrab` | |
| `MC...` | constants for TLC, nothing else | |

How state and actions correspond to code:

- **PthreadQueue.** `buffer size in out mutex` are `queue_t`'s fields; `pc` is the
  statement a thread is at, `local` the value it carries. `EnqLock EnqCheck EnqFull
  EnqStore EnqCount EnqAdvance EnqUnlock` are the lines 39-52 of `queue.h`, and so
  on. `Free` is no thread. The condition variables are signalled and never waited
  for, so they have no state.
- **Outbound.** `table` is `fd_hashtable`, `fds` the poll set, `wsi` each
  connection's struct (`freed` is freed memory; touching it makes `status` `fault`).
  A step is one access to something shared. `SvcAccept` has two forms because
  `wsi[length++] = new_wsi` does not order its two writes. `Post` is
  `headcrab_post_message` up to the walk, which is `WalkNext`/`WalkFilter`; `Pop
  Write Find Arm` are `callback_command`, in the thread `t` it runs in.
- **Inbound.** A text is a kind (`command`, `garbage`, `trailing`, ...) and a length
  modulo 8, because `json_loads(in, len, &error)` passes the length where the flags
  go: three of its bits decide whether some texts are accepted. `root`, `args` and
  `reply` are reference counts. `Begin` is `dispatch` from its `json_incref` to the
  lookup; `Op` is the application's function up to the return of
  `headcrab_post_message`. What it then does with the reply is one of two actions:
  `PostedLeft` leaves it (`examples/boids`), `PostedDecref` gives it up
  (`examples/u_s`); `Handlers` says which handlers an application has. `Release` is
  the `json_decref` of `dispatch`.
- **DispatchTable.** `Registry` is written from `headcrab.h` and from the comments and
  logs of `headcrab_dispatch.c`, not from what the list does: an op is called on its
  binding's object, clearing removes, rebinding changes the object, an absent op is
  logged and passed by, and nothing crashes. `Implements` says where the list departs
  from it: three crashes (`Crashes`), and whatever comes once a name has been given a
  second object (`OneObject`). `nodes` is the linked list in its order, `stack` the nested
  activations of `dispatch_table_execute` (nesting comes from a function that calls
  `headcrab_handle_commands`). A step ends where the application's code gets
  control. Clearing a bound name and rebinding leave defined behaviour and end in
  `status = "fault"` (see section 5).
- **Lifecycle.** The nth init makes context n and thread n. `careful` says whether
  the application inits only when it is down and posts and shuts down only when it
  is up; it is chosen once, so that one run has both. `alive` are the contexts not
  freed; `table` has in its buckets the listening socket, the broadcast listener of
  each protocol (`CreateProxy`) and the connections; `walk` is the pair of loop
  variables of `libwebsocket_context_destroy`. An established connection is sent a
  close frame and stays where it is (`DestroyTells`) or, if that fails, is closed like
  every other socket (`DestroyCloses`), which moves its bucket. `closed` is what a
  context's destruction has closed, so that `PassedOver` can say who was skipped.
  Joining no thread, or one already joined, is undefined: an error return or a
  crash.
- **JsClient.** `expected` is `expectedCommands`, with the number of the command for
  its callback. `Receive` runs to the call of the callback, `Return` is the `delete`
  after it; between the two the callback may `Issue` and `Connect`. `Worlds` are the
  environments: how often the page connects, how many commands it issues, how many
  messages a handler posts (`replied` counts them), whether anything may be lost,
  and whether callbacks throw. The initial state picks one.
- **Service.** `fds` is the poll set with the `revents` of the last `poll`; `pass`
  is the loop variable of `libwebsocket_service`, 0 while the thread is in `poll`.
  `session` is a wsi's `state`, `parser` its parse state and the headers kept so
  far. The text of the headers is abstracted to lines (a request line, `Host`,
  `Upgrade`, a protocol, the end); what `libwebsocket_parse` does with a line's
  bytes is `Parse`, and `ParseAll` takes the lines that one `recv` returns. What
  browsers ask is a constant: `IsRequest` says what a request looks like, and
  `BrowsersAssumption` that a request that names the protocol `command` is a
  handshake, as only `headcrab.js`'s `WebSocket` makes one. `told` is what
  `callback_command` has heard of, `answers` what `callback_http` was called with.
  `recv` on a socket with nothing to read ends in `status = "blocked"`: the sockets
  are blocking ones.
- **Framing.** `FrameReader` is written from what `parsers.c:432` says, that payload is
  passed on as it comes, ignoring FIN, so continuations are data and an empty frame is
  just passed over. `ReadsFrames` says where the machine departs from it: it drops
  continuations (`SkipsContinuation`), and it no longer reads frames behind an empty
  one (`NoneEmpty`). Header, length and key bytes are numbers and are taken one by one;
  payload is a run of bytes (which frame's, from where, how many), taken as far as
  nothing happens, or after its first byte. `clear` says whether the key and its
  index at that byte undo the browser's masking. `Spill...` are the cases of
  `spill:` in `parsers.c`; `Written` is `libwebsocket_write` for revision 13.
- **Headcrab.** `up` are the commands on their way, `inq` and `outq` the queues,
  `cur` the command dispatched, `posts` its messages so far, `held` the messages
  popped and not yet written, with the thread that has them. `Requests`, `Replied`
  and `Posted` map this state to the server that `JsClient` assumes. A world that is
  not `lossy` is one in which the queues have places for all that is issued and
  posted (`Fits`).

### Not modelled

- Of libwebsockets: extensions (`deflate-stream` is registered, and used only with a
  browser that asks for it; `x-google-mux` is compiled in only if `configure` is asked to), SSL,
  proxies, the client side, forking, the protocol revisions before 13 (a browser that
  `headcrab.js` runs in sends 13), and the timeout on a close that the server
  began, which headcrab never does but when a context is freed. A send that
  blocks for good is left out.
- Of jansson: lexing, printing, hashing.
- Failures of `malloc`, `socket` and `pthread_create`; logging; the arithmetic and
  the drawing of the examples; build files.
- Most of the repository's lines are vendored and unreachable from headcrab: zlib
  (`win32port/zlib`), the multiplexing and deflate extensions, the client side,
  libwebsockets' own test programs, and the parts of jansson that only compute.
  The map covers headcrab's own library almost entirely, and about a twelfth of
  all the lines; the rest holds none of this system's behaviour.

## 3. Runs

Twelve configurations. The state counts are distinct states.

| run | bounds | states | shows |
|---|---|---|---|
| `PthreadQueueRing` | 3 threads, 2 slots, one pointer and NULL | 556188 | ring consistent (`TypeOK`, `QueueInv`), implements the FIFO (`Linearizable`), mutex given back (`LockReleased`) |
| `OutboundLossy` | 2 connections in one bucket, both join and may leave, 3 posts, queue of 2 | 358034 | `OnePlace`, `OvertakenIsHeld`, `ExitAfterLoss`, `Drained` |
| `OutboundSurvivor` | 2 connected, one leaves, 1 post | violation | `PostedIsSent` fails: the browser that stays is passed over |
| `InboundCommands` | all ten kinds of text, eight lengths, 3 texts, queues of 2 and 1, handlers that leave their replies or give them up | 346338 | `OwnedIsAlive`, `ExecutedInOrder`, `ReplyToItsCommand`, `EventuallyDispatched` |
| `InboundHandlesAll` | commands and unparsable texts, 2 texts | violation | `HandlesAllCommands` fails |
| `DispatchReentrant` | 2 names, 2 verbs, 2 objects, 2 bindings, 3 commands nested two deep; clearing, rebinding, absent ops | 88526 | `TableInv`, `PreAndPostPair`, `PassedAreCalled`, `Implements` |
| `LifecycleCalls` | 3 inits, each followed by a shutdown, or calls in any order; port free or taken; 4 connections, the listening socket and 2 broadcast listeners in 2 buckets | 40423 | `ServedIsAlive`, `ContextPerThread`, `ShutdownIsComplete`, `ShutdownReturns` |
| `LifecycleAgain` | a second init after a shutdown | violation | `ServesWhenUp` fails |
| `JsWorlds` | 4 worlds: 2 connections, 2 commands, loss and exceptions; 1 connection with 3 commands or 2 replies each, and loss; 1 that loses nothing, with 3 commands and 2 replies | 55772 | `OnlyReconnectConfuses`, `RightCallbackOnce`, `Remembered`, `Answered` |
| `ServiceChurn` | 3 browsers, places for two, one asks up to twice out of 3 requests, two are mute | 127784 | `NeverBlocked`, `UserIsTold`, `AnswersTheRequest`, `EventuallyClosed`, `EventuallyAccepted` |
| `FramingStream` | 3 frames out of 17, fragments and empty ones among them, at the lengths 0 to 4, 125, 126, 4096, 4098, 65536 (`MaxLen`); 1 reply | 406135 | `WireIsFramed`, `ReadsFrames`, `EventuallyPassedOn` |
| `RoundTrips` | 5 pages, queues of 2 | 95364 | `Implements`, `RoundTrip` |

Why the bounds are enough. A ring of two slots fills, empties and wraps both
indices within three operations, and the third thread makes two wait for one
mutex; the proofs of section 4 remove these bounds. In `Outbound` two
connections in one bucket are the fewest with which a removal shifts a slot;
three posts fill a queue of two while nobody is connected, and let both threads
hold a message while a third waits. In `Inbound` three texts put one in the
handler, one in the queue and one refused. In `DispatchTable` two bindings with
three commands let a handler bind to the list it is called from, and be called
by a command inside a command; two objects and a name bound twice are the case of
`OneObject`. In `Lifecycle` two buckets for seven sockets make every connection share
one with headcrab's own sockets and with other connections, established or not, so
that a walk passes over some; two inits are a restart; three let
a thread of the first meet a context of the third. In `JsClient` three commands
and two replies each let replies be repeated and swapped while a third command is
issued. In `Service` the third browser waits for a place, is accepted in the pass
that closes another, and is behind the entry that closes; two requests on a
connection leave the parser as the first left it. In `Framing` two frames show
what one leaves behind for the next and three what is left after a control frame
between two pieces of data; the lengths are those at which a form of the length,
a byte of it, or the buffer changes. In `Headcrab` three commands overflow a
queue of two while the first is dispatched, and two connections let a reply go to
the other one.

`DispatchTable` faults stop it, `ExitAfterLoss` is about the process that ends
itself, and the bounds stop the rest: hence `CHECK_DEADLOCK FALSE` except for
`PthreadQueueRing`, whose threads call for ever: there TLC also shows that the
queue never deadlocks.

### Fairness

- `PthreadQueue`: weak, for each thread's steps inside an operation: a runnable
  thread runs. Nothing is assumed of who gets the mutex next, nor that anybody
  ever calls, so `LockReleased` is not about a waiting thread's turn.
- `Service`: weak for the loop as a whole, and nothing else: neither for any
  connection, nor for the browsers. That each connection has its turn is what
  `EventuallyClosed` and `EventuallyAccepted` show.
- `Outbound`: weak for the two threads' own steps; strong per connection for
  the service loop's events: one pass handles every descriptor that `poll`
  reports but the one behind a closing entry, and that one is there at the next
  pass, as `Service` shows. Browsers that are expected do connect; that one leaves
  is not assumed.
- `Framing`: weak for the reader: the loop reads what has arrived.
- `Inbound`: weak for the call of `headcrab_handle_commands`, which the
  application makes in its loop (`examples/boids/src/simulate.c`), and for the
  steps inside it. That texts arrive or replies are sent is not assumed.
- `Lifecycle`: weak for both threads; `libwebsocket_service(context, 50)` has a
  timeout, so it returns. A failed init goes on to its shutdown. `ShutdownReturns`
  is about a careful application.
- `JsClient`: the browser delivers events, callbacks end, the server serves and
  sends. `Answered` is about the worlds that lose nothing.
- `Headcrab`: weak for each part, each justified by a module above: the loop reads
  (`Service`), the application handles commands and its handlers return
  (`Inbound`), what is posted with a browser connected is popped and written
  (`Outbound`'s `Drained`).

## 4. Proofs

Checked by TLAPS for all values of the constants that satisfy the modules'
assumptions: `CapacityAssumption` and `FreeAssumption` (a queue has a slot, `Free`
is no thread); `DispatchAssumption`; `InboundAssumption`; `OutboundAssumption` and
`LifecycleAssumption` (finitely many connections, each in a bucket);
`JsClientAssumption`; `ServiceAssumption`, `RequestsAssumption` (requests are
sequences of header lines) and `BrowsersAssumption` (of the form that browsers
give them); `FramingAssumption` (lengths have 63 bits, as RFC 6455, 5.2, has them;
all that is sent on a connection is less than a `size_t` counts; the buffer holds
the payload of a control frame); `HeadcrabAssumption`. TLC evaluates each of them on
the instances. Two theorems have a hypothesis that their statement names:
`LeavingIsSafe`, that handlers leave what they post, and `RoundTripRefinement`, whose
`Fits` is `HeadcrabAssumption`.

`PthreadQueueProofs`:

- `TypeCorrect`, `RingConsistent`: `Spec => []TypeOK`, `Spec => []QueueInv`, from
  `Invariance`: `IInv == TypeOK /\ QueueInv` is inductive. Neither half is by
  itself: `size` stays within the capacity because the check made under the
  mutex still holds when it is acted upon (`CheckedInv`), which needs that
  only the owner of the mutex is in a critical section (`OwnerInv`); the
  index equation (`IndexInv`) needs the range of the indices. `StepPreserves`
  has one step per statement of `queue.h`; the arithmetic modulo the capacity is
  in lemmas (`WrapOnce`, `SuccMod`, `StartMod`, `SlotsDiffer`).
- `Refinement`: `Spec => Linearizable`. `Contents` reads the array from `First`,
  the slot of the oldest element; `ContentsAppend` and `ContentsTail` show what
  the enqueue's and the dequeue's linearization points do to it, `Invisible` and
  `Returns` that the other steps are stutters or returns.

`DispatchTableProofs`:

- `TableConsistent`: `Spec => []TableInv`. `IInv` adds to `TableInv` what makes it
  inductive: the nodes are well formed, the number of bindings made is in its range,
  and every handler's id has been given out (`IdsAreGiven`), so that a new id is
  new. `BindFound` and `BindNew` are the two outcomes of `add_or_find_node`;
  `RebindKeeps` is the assignment before a fault; every other action leaves the
  table (`SameTable`).
- `PrePostPaired` (`PreAndPostPair`) and `TypeCorrect` (`TypeOK`). `CallsInv` adds
  what makes the pairs inductive: an activation is at a handler of its node, or past
  the last one (`Placed`), and a binding not yet made has called nothing.
  `InProgress(i, k)` is the set whose size a pair's count must be. A step of the
  innermost activation adds it to that set, or removes it, exactly when it counts
  (`MoveKeeps`); a new binding has a fresh id and a place where no activation is
  (`TableGrows`). That ids differ also bounds the handlers of a node
  (`HandlersAreFew`, by the pigeonhole principle), hence where a walk can be.
- `PassedCalled` (`PassedAreCalled`). `TraceInv` adds to it that an activation
  inside a call made that call last (`AtItsLastCall`). What was called and the
  handlers of the verb that were passed grow together, when a call begins; a binding
  comes behind every place of a walk, and a nested command has a list of calls of
  its own.
- `Refinement`: `Spec => Implements`, from `TraceInv`. The mapping gives each handler
  the object of its node, which is the one `Registry` has for it while `OneObject`
  holds (`BindMap`). It reads the last handler called off
  each activation; `LastFacts` says that those of its verb up to there are exactly
  those it has passed, so what is due in `Registry` is what the walk has still to
  come to. The frames map to `Registry`'s one by one (`ImageOf`): a call and a
  return of a handler are the abstract ones, passing over a handler of another verb
  is a stutter. Clearing is a stutter or one of the three crashes (`ClearRefines`); an
  op that is absent, and rebinding, are the others.

`InboundProofs`: `TypeCorrect`, `NothingFreedIsUsed` (`OwnedIsAlive`), `InOrder`
(`ExecutedInOrder`), `Addressing` (`ReplyToItsCommand`), `LeavingIsSafe`.

- A value is owned by exactly who has it: the queue `in` (`QueueOwns`), the dispatch
  that runs (`DispatchOwns`), a reply on its way (`RepliesAreOwned`). That is
  inductive only with the order of the queue (`QueueIsSorted`: no value is in it
  twice, none is older than what was taken). `ExecutedBefore` and
  `RepliesAreAddressed` carry the order and the seqID.
- A reply whose handler gave it up (`givenUp`) owns nothing any more; the others do,
  so a fault needs such a handler. `LeavingIsSafe`: where there is none, nothing that
  was destroyed is ever used or queued (`DestroyedIsUnused`).

`OutboundProofs`: `TypeCorrect`, `EachInOnePlace` (`OnePlace`), `Overtaking`
(`OvertakenIsHeld`), `SurvivesWithoutLoss` (`ExitAfterLoss`), for any number of
connections, buckets and posts.

- `EachInOnePlace` says that the set of places of a message, a tagged union of the
  queue's, the threads' hands, the wires' and the refused, is a singleton.
  `Complete` gives one, and `Once` that there is no second: what was refused, sent
  or is held is in no other of these, and in its own once; a queue that is ordered
  has no message twice. `TypeCorrect` adds that no connection is polled twice, since
  only its acceptance puts one into the poll set (`PollSet`), and that a slot found
  in it is one of its slots (`Bounded`).
- `Ordered`: what the two threads hold is older than what is queued
  (`OldestFirst`), and everything sent, held or queued accounts for all that was
  posted (`Complete`). `BeforeLoss`: until a browser goes, no slot is stale and
  what a thread looks at is a connection that lives. `OwnSteps`: each thread is at
  a statement of its own.

`LifecycleProofs`: `TypeCorrect`, `ContextsNotShared` (`ContextPerThread`),
`ServedStaysAlive` (`ServedIsAlive`), `ShutdownCompletes` (`ShutdownIsComplete`), for
any number of inits, connections and protocols, and any table.

- What keeps two threads apart is the port: the listening socket has one place, in
  one context, while the port is held (`OneListener`), whoever serves has it
  (`ServersListen`), so an init before that fails. `OneThread` is the careful
  application: at most one thread is not joined, and it owns the context in use.
- `TypeCorrect` needs where sockets are: in a bucket are only sockets of that
  bucket, none of them twice, and no connection that was not yet accepted
  (`Placed`).
  A bucket without repetition fits into `Cardinality(Sockets)`, which bounds the
  walk (`RowFits`, `WalkFits`).
- `ShutdownCompletes`: `Pending` says that what is still open is in the table of the
  one context (`Keeps`) and is either ahead of the walk (`InFront`) or was passed over
  because a socket of its bucket has been closed (`Passed`). Closing a socket moves
  those behind it down by one, so one of them lands in the place that the walk leaves
  (`VisitPends`), which is how a connection comes to be passed over. At the last
  bucket nothing is ahead, and the context is freed. The listening socket is the first
  of its bucket, and is never passed over.

`JsClientProofs`: `TypeCorrect`, `ReconnectAlone` (`OnlyReconnectConfuses`),
`OwnCallbackOnce` (`RightCallbackOnce`), `StaysRegistered` (`Remembered`).

- `SentIsNumbered` and `ExpectedIsLatest` tie a seqID on its way to the commands
  that were issued with it and to what the table has under it; `OneConnection`
  says that with one connection the seqID is the command's number, `NotAgain` that
  a callback that returned is not called again.
- `RoundTripRefinement` is `Fits => (Spec => Implements)` of `Headcrab`, for any page,
  any number of connections, commands and replies, and queues of any size. What a
  connection's commands are is a filter of `inq`; `OfAppend` and `OfHead` are what it
  does when a command comes to its end and leaves its head. With them a command that
  moves from a connection to `in` (`ReceiveMaps`) or from there to the application
  (`DispatchStutters`) is where it was, because connections deliver in order and `in`
  does; a message that a thread takes is (`PopStutters`); and a thread writes one of
  the first two messages, since two threads hold two at most (`WriteSends`, `TwoHeld`).
- What that needs of the states is `TripInv`: what is on its way was issued on its
  connection (`AreIssued`), and nothing is in two places (`AreOnce`). That nothing is
  lost where there are places enough counts both ways: `in` holds each command once
  (`InFits`), and `out` no more than all commands are owed, less what those that
  still wait will have (`NoneTooMany`, `OutFits`).
- With `ReconnectAlone`, `OwnCallbackOnce` and `StaysRegistered`, which are about
  `JsClient`'s `Spec`, the callbacks are the right ones over the server as it is.

`ServiceProofs`: `TypeCorrect`, `ReadsWhatIsThere` (`NeverBlocked`),
`UserKnowsSessions` (`UserIsTold`), `AnswersRequests` (`AnswersTheRequest`), for any
number of connections, places and requests.

- `NeverBlocked` is about the entries not yet visited: each still has what `poll`
  found for it (`StillReady`), because a connection has one entry (`PolledOnce`) and
  only its own visit takes bytes from it, and because a new one has no events.
  `OneByOne` is the same of those that wait to be accepted.
- `AnswersRequests` rests on `Served`: what is buffered is the rest of the last
  request, and the parser has what that one's first lines leave in it (`Progress`):
  of the first request on a connection its URI, and of any a protocol or an
  `Upgrade` only if it has them. A session not established has all its requests
  answered, or waits for the rest of one (`AllAnswered`, `OneWaits`). That
  `ParseAll` keeps `Progress` however many lines it is given is an induction
  over data: `ParseAllRun` names the function that the recursion
  defines, and `Climb` goes along it. `Climb` is induction up to a number, over a
  set and not an operator, and is proved from the pigeonhole principle.
- `TypeCorrect` needs `AllPolled`, that the poll set has an entry for each session,
  to count the entries (`Counted`: with `PolledOnce` they are as many as the
  sessions and the listening socket).

`FramingProofs`: `TypeCorrect`, `WireFramed` (`WireIsFramed`), `Refinement`
(`ReadsFrames`), for any frames and texts, any number of them, any longest payload
and any buffer. The argument is the inductive `IInv`:

- `Streams`: what is left of the stream is what is left of the encoding of the
  frames sent, from a place in one of them on; `Synced`: that place determines the
  machine's state, the bytes of it still to come, and what opcode, length, key and
  index have by then. Neither is inductive alone. `Astray` is what is true behind a
  frame without payload: the reader has counted down from 0, and what it waits for is
  longer than all that can be sent, so it never finds an end.
- `WireFramed`: `Decode` gives back the kind and the length that `Written` was given.
  It rests on `Number` undoing `Octets`, byte by byte (`Shifted`), for the three forms
  of a length; the same lemmas make the reader's length the sender's.
- `Refinement`: `Spec => ReadsFrames`. One lemma for each action: a byte of a header,
  of a length, of a key or into the buffer is a stutter of `FrameReader`, but for the
  length of a control frame that is too long (`Refuse`); the cases of `spill:` are
  `PassOn`, `Answer` and `Drop`, or skip a continuation; what a browser sends is
  `Send`, and a text that headcrab sends a stutter. The last byte of the header of an
  empty frame makes the machine `Lost`, and behind it `NoneEmpty` is false.
- The folds (`Total`, `Number`, `Shifted`, and `FrameReader`'s count of answers) are
  recursive functions, and `Climb` gives the inductions, as in `ServiceProofs`.

Only model-checked, and why:

- liveness (`LockReleased`, `Drained`, `EventuallyDispatched`, `ShutdownReturns`,
  `Answered`, `EventuallyClosed`, `EventuallyAccepted`, `EventuallyPassedOn`,
  `RoundTrip`) and `ENABLED`: beyond the prover.

## 5. Where code and documents disagree

Three disagreements are runs that TLC must find violated:

- `OutboundSurvivor`: `delete_from_fd` shifts a bucket's slots while
  `libwebsockets_broadcast` walks them by index in the other thread. The
  connection behind the one that closes is passed over and a message posted
  for it waits until the next post.
- `InboundHandlesAll`: a text that does not parse is pushed as NULL, and
  `headcrab_handle_commands` takes it for an empty queue.
- `LifecycleAgain`: `running` is cleared by `websocket_shutdown` and never set
  again; a later `headcrab_init` returns success and serves nobody.

Others met while modelling are part of the models, and of the properties' wording:

- The broadcast runs in the application thread, although the comment above it
  (`libwebsockets.c:3119`) says that it is called in the poll thread's context.
- A message posted before any browser is established is sent only at the next
  post (`LWS_CALLBACK_ESTABLISHED` asks for nothing): `Drained` is about what is in
  the queue when a message is posted with a browser established.
- `dispatch` increments the reference count of `args` and never decrements it;
  its early returns release nothing (`Begin`, `RejectHeader`, `RejectSeqID`).
- A command whose `args` are missing or no object gets a reply with seqID 0:
  `ReplyToItsCommand` is about the others.
- The handlers of `examples/u_s` give up a message they have posted
  (`unnamed_scientist.c:65`), which then is in the queue with no reference, or was
  already written and freed; jansson (`apiref.rst:178`) says of such a value that it
  "can no longer be used". `PostedDecref` is this handler, and `OwnedIsAlive` says
  that freed memory is used only after one of its kind.
- `headcrab.h` promises four things of the table that the list does not do:
  "clear all verb bindings for an object" (`headcrab.h:117`) stores through NULL for a
  name that is bound; "change the object memory binding" (`headcrab.h:125`) runs off
  the first node; a binding without an op, as `examples/boids` makes for `pause`, is
  logged (`headcrab_dispatch.c:215`) and called all the same; and `_target`, "the
  object that will be manipulated by the function" (`headcrab.h:97`), is the one given
  with the first binding of the name, and NULL for the global name. `Registry` has
  what is promised, and `Implements` names these four as the only departures: the
  first three as `Crashes`, the last as the end of `OneObject`.
- A failed `headcrab_init` joins a thread that may never have been started
  (`Join`, second disjunct).
- `libwebsocket_context_destroy` "closes any active connections"
  (`libwebsockets.c:2069`) and `headcrab_shutdown` will "disconnect clients"
  (`headcrab.h:79`), but the walk closes sockets of the bucket it walks, so a client
  that shares one with the listening socket, a broadcast listener, an unfinished
  handshake or a connection whose close frame fails may be passed over; and an
  established connection is sent a close frame and its socket left open when the
  context is freed. `ShutdownIsComplete` says exactly this much (`PassedOver`, `told`).
- A continuation frame is dropped, although `parsers.c:432` says "We pass payload
  through to userland as soon as we get it, ignoring FIN.  It's up to userland to
  buffer it up if it wants to see a whole unfragmented block": of a fragmented text
  only the first fragment arrives. `FrameReader` passes it on, and `ReadsFrames` names
  the exception (`SkipsContinuation`).
- At the end of a frame without payload the reader counts down from 0 and takes what
  follows for payload, so a close without payload is not answered and a text behind an
  empty one never arrives. `FrameReader` passes over such a frame; `ReadsFrames` holds
  up to the first one (`NoneEmpty`) and says nothing of what comes behind it.
- The second request on a connection is answered with the first one's URI, because
  the end of the first one's headers is still in the parser's buffer (`stale`):
  `AnswersTheRequest` is about the first answer.
- What arrives in one `recv` with the end of the headers is dropped.
- A reply goes to whichever browser is called back, not to the one that asked:
  `RoundTrip` is about pages with one connection.
- `connect` starts the seqIDs again and keeps `expectedCommands`:
  `OnlyReconnectConfuses` says exactly what can go wrong then, `Remembered` holds
  for one connection only.

## 6. Plan

Done: the queue, the way out, the way in, the dispatch table, the lifecycle, the
browser client, the service loop, frames, and the round trip; the refinements of
`LinearFifo`, `Registry`, `FrameReader` and `JsClient`; proofs about all of them.
Every invariant and action property and every refinement that a run checks and finds
to hold is the subject of a theorem.

Not begun:

1. An abstract specification of the lifecycle (down, up, stopping) that
   `Lifecycle` implements for a careful application.
2. The timeouts of libwebsockets, for a server that closes connections itself.
