------------------------------ MODULE Headcrab ------------------------------
(***************************************************************************)
(* The whole round trip: the page of JsClient over the server that the     *)
(* other modules describe, with its two bounded queues (PthreadQueue), the *)
(* application thread that takes commands from one and posts replies to    *)
(* the other (Inbound, DispatchTable), and the two threads that take       *)
(* replies and write them (Outbound).                                      *)
(*                                                                         *)
(* The page's actions are JsClient's, conjoined with what they do to the   *)
(* connections.  The server's are those of the modules above, as coarse as *)
(* those modules show them to be: a queue operation is one step, texts are *)
(* well-formed commands, and what a thread does between two operations of  *)
(* a queue is its own.                                                     *)
(***************************************************************************)
EXTENDS Integers, SequencesExt

CONSTANTS
  MaxConnects,   \* as in JsClient
  MaxIssues,
  Worlds,
  InCapacity,    \* MQ_LEN, of `in'
  OutCapacity    \* MQ_LEN, of `out'

\* The queues have places, and where nothing may be lost one for each command and
\* one for each message.
Fits ==
  /\ InCapacity \in Nat \ {0} /\ OutCapacity \in Nat \ {0}
  /\ \A w \in Worlds : ~w.lossy =>
       w.issues <= InCapacity /\ w.issues * w.replies <= OutCapacity

ASSUME HeadcrabAssumption == Fits

VARIABLES
  world, connects, socket, nextSeqID, expected, issued, incoming, handling, called,
             \* the page and its browser, as in JsClient
  up,        \* per connection: the commands sent and not yet received
  inq,       \* the queue `in'
  cur,       \* the command that is dispatched, 0 for none
  posts,     \* the messages its handlers have posted
  outq,      \* the queue `out'
  held,      \* the messages popped and not yet written, and by which thread
  status     \* of the process: running or exited

pageVars == <<world, connects, socket, nextSeqID, expected, issued, handling, called>>
serverVars == <<inq, cur, posts, outq, held, status>>
vars == <<pageVars, incoming, up, serverVars>>

Conns == 1..MaxConnects
Threads == {"app", "svc"}

\* Of the commands, those that were issued on connection c.
Of(log, c, commands) ==
  LET upto[k \in 0..Len(commands)] ==
        IF k = 0 THEN << >>
        ELSE IF log[commands[k]].conn = c THEN Append(upto[k - 1], commands[k])
        ELSE upto[k - 1]
  IN upto[Len(commands)]

\* Where JsClient's server has a connection's commands, its first command's
\* messages, and all messages.
Current == IF cur = 0 THEN << >> ELSE << cur >>
Requests ==
  [c \in Conns |-> Of(issued, c, Current) \o Of(issued, c, inq) \o up[c]]
Replied == [c \in Conns |-> IF Of(issued, c, Current) # << >> THEN posts ELSE 0]
Posted == [i \in DOMAIN held |-> held[i].message] \o outq

Client == INSTANCE JsClient WITH
  requests <- Requests, replied <- Replied, posted <- Posted

Init ==
  /\ up = [c \in Conns |-> << >>]
  /\ inq = << >> /\ cur = 0 /\ posts = 0
  /\ outq = << >> /\ held = << >>
  /\ status = "running"
  /\ issued = << >>
  /\ Client!Init

Alive == status = "running"

-----------------------------------------------------------------------------
(* The page: connect, issue, replyhandler and its callbacks.               *)

\* What the page does leaves the server alone, but for the command it sends.
ByItself == UNCHANGED <<serverVars, up, issued>>

Page ==
  /\ ByItself
  /\ \/ Client!Connect \/ Client!Return \/ Client!Throw
     \/ \E c \in Conns : Client!Open(c) \/ Client!Close(c) \/ Client!Receive(c)

Issue(wanted) ==
  /\ UNCHANGED serverVars
  /\ issued' = Append(issued, [conn |-> connects, seqID |-> nextSeqID, wanted |-> wanted])
  /\ \/ UNCHANGED up
     \/ connects > 0 /\ up' = [up EXCEPT ![connects] = Append(@, Len(issued'))]
  /\ Client!Issue(wanted)

-----------------------------------------------------------------------------
(* The websocket thread, LWS_CALLBACK_RECEIVE.                             *)

\* What was sent on a connection that is closed since may arrive, or never.
Receive(c) ==
  /\ Alive
  /\ up[c] # << >>
  /\ up' = [up EXCEPT ![c] = Tail(@)]
  /\ inq' = IF Len(inq) < InCapacity THEN Append(inq, Head(up[c])) ELSE inq
  /\ UNCHANGED <<pageVars, incoming, cur, posts, outq, held, status>>

-----------------------------------------------------------------------------
(* The application thread: headcrab_handle_commands and the handlers.      *)

\* Mutant: the newest command is taken first.
DispatchNewest ==
  /\ Alive
  /\ cur = 0 /\ inq # << >>
  /\ cur' = Last(inq)
  /\ inq' = Front(inq)
  /\ posts' = 0
  /\ UNCHANGED <<pageVars, incoming, up, outq, held, status>>

Dispatch ==
  /\ Alive
  /\ cur = 0 /\ inq # << >>
  /\ cur' = Head(inq)
  /\ inq' = Tail(inq)
  /\ posts' = 0
  /\ UNCHANGED <<pageVars, incoming, up, outq, held, status>>

\* A handler posts, unless `out' is full.  While headcrab_post_message walks the
\* connections this thread may hold a message, so it does not post another.
Holds(t) == \E i \in DOMAIN held : held[i].by = t

Post ==
  /\ Alive
  /\ cur # 0 /\ posts < world.replies
  /\ ~Holds("app")
  /\ posts' = posts + 1
  /\ \E type \in (IF world.lossy THEN {"response", "other"} ELSE {"response"}) :
       outq' = IF Len(outq) < OutCapacity
                 THEN Append(outq, [to |-> cur, type |-> type]) ELSE outq
  /\ UNCHANGED <<pageVars, incoming, up, inq, cur, held, status>>

\* Mutant: a handler that has posted nothing is done.
DoneSilently ==
  /\ Alive
  /\ cur # 0
  /\ ~Holds("app")
  /\ cur' = 0
  /\ posts' = 0
  /\ UNCHANGED <<pageVars, incoming, up, inq, outq, held, status>>

Done ==
  /\ Alive
  /\ cur # 0
  /\ ~Holds("app")
  /\ world.lossy \/ posts > 0
  /\ cur' = 0
  /\ posts' = 0
  /\ UNCHANGED <<pageVars, incoming, up, inq, outq, held, status>>

-----------------------------------------------------------------------------
(* callback_command, LWS_CALLBACK_BROADCAST (t = "app", which is within a   *)
(* post) and LWS_CALLBACK_SERVER_WRITEABLE (t = "svc").                     *)

Reachable == \E c \in Conns : socket[c] # "none"

Pop(t) ==
  /\ Alive
  /\ Reachable
  /\ t = "app" => cur # 0 /\ posts > 0
  /\ ~Holds(t)
  /\ outq # << >>
  /\ outq' = Tail(outq)
  /\ held' = Append(held, [by |-> t, message |-> Head(outq)])
  /\ UNCHANGED <<pageVars, incoming, up, inq, cur, posts, status>>

\* The message goes to the connection that was called back, whichever asked;
\* on one that the browser has closed it is lost, or ends the process.
Write(t, c) ==
  /\ Alive
  /\ \E i \in DOMAIN held :
       /\ held[i].by = t
       /\ \/ /\ socket[c] \in {"connecting", "open"}
             /\ incoming' = [incoming EXCEPT ![c] = Append(@, held[i].message)]
             /\ held' = RemoveAt(held, i)
             /\ UNCHANGED status
          \/ /\ socket[c] = "closed"
             /\ held' = RemoveAt(held, i)
             /\ UNCHANGED <<incoming, status>>
          \/ /\ socket[c] = "closed"
             /\ status' = "exited"
             /\ UNCHANGED <<incoming, held>>
  /\ UNCHANGED <<pageVars, up, inq, cur, posts, outq>>

Next ==
  \/ Page
  \/ \E wanted \in BOOLEAN : Issue(wanted)
  \/ Dispatch \/ Post \/ Done
  \/ \E c \in Conns : Receive(c)
  \/ \E t \in Threads : Pop(t) \/ \E c \in Conns : Write(t, c)

Spec == Init /\ [][Next]_vars

\* The page's events are delivered and its callbacks return; the websocket thread
\* reads (Service); the application handles commands and its handlers return
\* (Inbound); what is posted with a browser connected is popped and written
\* (Outbound's Drained), by either thread.
FairSpec ==
  /\ Spec
  /\ WF_vars(ByItself /\ Client!Return)
  /\ \A c \in Conns :
       /\ WF_vars(ByItself /\ (Client!Open(c) \/ Client!Receive(c)))
       /\ WF_vars(socket[c] # "closed" /\ Receive(c))
  /\ WF_vars(Dispatch) /\ WF_vars(Post \/ Done)
  /\ WF_vars(\E t \in Threads : Pop(t))
  /\ \A t \in Threads : WF_vars(\E c \in Conns : Write(t, c))

-----------------------------------------------------------------------------
(* Correctness.                                                            *)

\* JsClient assumes of the server what this server does: the page's commands are
\* executed in the order of their connection or lost, messages reach the page in
\* order but for one, each at most once, and the page's tables and what is on its
\* way have their types.
Implements == Client!Spec /\ []Client!TypeOK

\* With one connection that stays open, and fewer commands than the queues have
\* places, the callback of every command that was sent is called in the end:
\* through both queues and three threads nothing waits for ever.
RoundTrip == Client!Answered

=============================================================================
