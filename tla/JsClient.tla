------------------------------ MODULE JsClient ------------------------------
(***************************************************************************)
(* headcrab.js: the commands a page issues and the callbacks that wait for *)
(* their replies.                                                          *)
(*                                                                         *)
(* A page runs one piece of script at a time: an event is handled to its   *)
(* end before the next one.  But the callback that handles a reply is the  *)
(* application's, and may itself issue commands or connect anew.           *)
(*                                                                         *)
(* The server is what the other modules show of it: commands are executed  *)
(* in the order of a connection (Inbound), a verb with several handlers    *)
(* may post several replies (DispatchTable), commands and replies may be   *)
(* refused by a full queue, and a reply may overtake another by one and go *)
(* to whichever browser is connected (Outbound).  Headcrab puts the server *)
(* of those modules in its place and is shown to implement this one.       *)
(***************************************************************************)
EXTENDS Integers, SequencesExt

CONSTANTS
  MaxConnects,     \* how often a page connects
  MaxIssues,       \* how many commands it issues
  Worlds           \* the pages and servers considered

\* A world: how often the page connects, how many commands it issues, how many
\* messages the server posts for one, whether connections close and commands or
\* replies may be missing, and whether a callback may end with an exception.
ASSUME JsClientAssumption ==
  /\ MaxConnects \in Nat /\ MaxIssues \in Nat
  /\ Worlds \subseteq
       [connects : 0..MaxConnects, issues : 0..MaxIssues, replies : Nat, lossy : BOOLEAN,
        throws : BOOLEAN]

VARIABLES
  world,       \* which of the Worlds this is
  connects,    \* calls of connect; `connection' is the last one's
  socket,      \* per connection: its readyState
  nextSeqID,
  expected,    \* expectedCommands: per seqID the callback's command, 0 for none
  issued,      \* the commands issued, in order, and where and as what
  requests,    \* per connection: the commands the server has not executed yet
  replied,     \* per connection: the messages posted for the first of them
  posted,      \* the replies that wait in the server
  incoming,    \* per connection: the messages that wait in the browser
  handling,    \* the callback that runs and the seqID it was found under
  called       \* the callbacks called, each with the command of the reply

vars == <<world, connects, socket, nextSeqID, expected, issued, requests, replied,
          posted, incoming, handling, called>>

serverVars == <<requests, replied, posted>>

Conns == 1..MaxConnects
Commands == 1..MaxIssues
None == [callback |-> 0, seqID |-> 0]

Init ==
  /\ world \in Worlds
  /\ connects = 0
  /\ socket = [c \in Conns |-> "none"]
  /\ nextSeqID = 0
  /\ expected = [id \in 0..MaxIssues |-> 0]
  /\ issued = << >>
  /\ requests = [c \in Conns |-> << >>]
  /\ replied = [c \in Conns |-> 0]
  /\ posted = << >>
  /\ incoming = [c \in Conns |-> << >>]
  /\ handling = None
  /\ called = << >>

-----------------------------------------------------------------------------
(* The page.                                                               *)

\* connect: seqIDs start again; expectedCommands and the old connection stay.
Connect ==
  /\ connects < world.connects
  /\ connects' = connects + 1
  /\ nextSeqID' = 0
  /\ socket' = [socket EXCEPT ![connects'] = "connecting"]
  /\ UNCHANGED <<world, expected, issued, serverVars, incoming, handling, called>>

\* Mutant: the sequence number is not advanced.
IssueSameID(wanted) ==
  LET k == Len(issued) + 1 IN
  /\ k <= world.issues
  /\ connects > 0 /\ socket[connects] = "open"
  /\ issued' = Append(issued, [conn |-> connects, seqID |-> nextSeqID, wanted |-> wanted])
  /\ expected' = [expected EXCEPT ![nextSeqID] = IF wanted THEN k ELSE 0]
  /\ requests' = [requests EXCEPT ![connects] = Append(@, k)]
  /\ UNCHANGED <<world, connects, socket, nextSeqID, replied, posted, incoming, handling, called>>

\* issue: the callback is registered first.  send throws without an open or
\* closing connection, and the exception may end the callback it is called in;
\* on a closed connection it does nothing.
Issue(wanted) ==
  LET k == Len(issued) + 1
      throws == IF connects = 0 THEN TRUE ELSE socket[connects] = "connecting"
  IN
  /\ k <= world.issues
  /\ issued' = Append(issued, [conn |-> connects, seqID |-> nextSeqID, wanted |-> wanted])
  /\ expected' = [expected EXCEPT ![nextSeqID] = IF wanted THEN k ELSE 0]
  /\ IF throws
       THEN /\ handling' \in {handling, None}
            /\ UNCHANGED <<nextSeqID, requests>>
       ELSE /\ nextSeqID' = nextSeqID + 1
            /\ requests' = [requests EXCEPT ![connects] =
                              IF socket[connects] = "open" THEN Append(@, k) ELSE @]
            /\ UNCHANGED handling
  /\ UNCHANGED <<world, connects, socket, replied, posted, incoming, called>>

Idle == handling = None

\* onmessage and replyhandler, up to the callback.
Receive(c) ==
  /\ Idle
  /\ socket[c] = "open"
  /\ incoming[c] # << >>
  /\ incoming' = [incoming EXCEPT ![c] = Tail(@)]
  /\ LET message == Head(incoming[c])
         id == issued[message.to].seqID
     IN IF message.type = "response" /\ expected[id] # 0
          THEN /\ handling' = [callback |-> expected[id], seqID |-> id]
               /\ called' = Append(called, [callback |-> expected[id], reply |-> message.to])
          ELSE UNCHANGED <<handling, called>>
  /\ UNCHANGED <<world, connects, socket, nextSeqID, expected, issued, serverVars>>

\* Mutant: the callback is not removed.
ReturnKeeps ==
  /\ ~Idle
  /\ handling' = None
  /\ UNCHANGED <<world, connects, socket, nextSeqID, expected, issued, serverVars,
                 incoming, called>>

\* Mutant: whatever is expected is removed.
ReturnForgets ==
  /\ ~Idle
  /\ expected' = [id \in DOMAIN expected |-> 0]
  /\ handling' = None
  /\ UNCHANGED <<world, connects, socket, nextSeqID, issued, serverVars, incoming, called>>

\* The callback has returned, and what its seqID stands for now is removed.
Return ==
  /\ ~Idle
  /\ expected' = [expected EXCEPT ![handling.seqID] = 0]
  /\ handling' = None
  /\ UNCHANGED <<world, connects, socket, nextSeqID, issued, serverVars, incoming, called>>

Throw ==
  /\ world.throws
  /\ ~Idle
  /\ handling' = None
  /\ UNCHANGED <<world, connects, socket, nextSeqID, expected, issued, serverVars,
                 incoming, called>>

-----------------------------------------------------------------------------
(* The browser's sockets and the server.                                   *)

Open(c) ==
  /\ Idle
  /\ socket[c] = "connecting"
  /\ socket' = [socket EXCEPT ![c] = "open"]
  /\ UNCHANGED <<world, connects, nextSeqID, expected, issued, serverVars, incoming,
                 handling, called>>

Close(c) ==
  /\ world.lossy /\ Idle
  /\ socket[c] \in {"connecting", "open"}
  /\ socket' = [socket EXCEPT ![c] = "closed"]
  /\ UNCHANGED <<world, connects, nextSeqID, expected, issued, serverVars, incoming,
                 handling, called>>

\* A handler of the command that is executed posts a message, of any type.
Post(c) ==
  /\ requests[c] # << >>
  /\ replied[c] < world.replies
  /\ replied' = [replied EXCEPT ![c] = @ + 1]
  /\ \/ \E type \in (IF world.lossy THEN {"response", "other"} ELSE {"response"}) :
          posted' = Append(posted, [to |-> Head(requests[c]), type |-> type])
     \/ world.lossy /\ UNCHANGED posted
  /\ UNCHANGED <<world, connects, socket, nextSeqID, expected, issued, requests, incoming,
                 handling, called>>

\* All its handlers have run.
Done(c) ==
  /\ requests[c] # << >>
  /\ world.lossy \/ replied[c] > 0
  /\ requests' = [requests EXCEPT ![c] = Tail(@)]
  /\ replied' = [replied EXCEPT ![c] = 0]
  /\ UNCHANGED <<world, connects, socket, nextSeqID, expected, issued, posted, incoming,
                 handling, called>>

Serve(c) == Post(c) \/ Done(c)

\* A command that is not executed yet is lost.
Lose(c) ==
  /\ world.lossy
  /\ \E i \in DOMAIN requests[c] :
       /\ i = 1 => replied[c] = 0
       /\ requests' = [requests EXCEPT ![c] = RemoveAt(@, i)]
  /\ UNCHANGED <<world, connects, socket, nextSeqID, expected, issued, replied, posted,
                 incoming, handling, called>>

\* One of the two oldest messages is written to a connection, whichever asked,
\* which the page may not know to be open yet; or to another browser.
Send(c) ==
  /\ posted # << >>
  /\ \E i \in {1, 2} \cap DOMAIN posted :
       /\ posted' = RemoveAt(posted, i)
       /\ \/ /\ socket[c] \in {"connecting", "open"}
             /\ incoming' = [incoming EXCEPT ![c] = Append(@, posted[i])]
          \/ world.lossy /\ UNCHANGED incoming
  /\ UNCHANGED <<world, connects, socket, nextSeqID, expected, issued, requests, replied,
                 handling, called>>

Next ==
  \/ Connect \/ (\E wanted \in BOOLEAN : Issue(wanted)) \/ Return \/ Throw
  \/ \E c \in Conns : Receive(c) \/ Open(c) \/ Close(c) \/ Post(c) \/ Done(c) \/ Lose(c) \/ Send(c)

Spec == Init /\ [][Next]_vars

\* The browser handles its events, callbacks end, and the server serves and
\* sends what it has.
FairSpec ==
  /\ Spec
  /\ WF_vars(Return)
  /\ \A c \in Conns :
       WF_vars(Receive(c)) /\ WF_vars(Open(c)) /\ WF_vars(Serve(c)) /\ WF_vars(Send(c))

-----------------------------------------------------------------------------
(* Correctness.                                                            *)

Messages == [to : Commands, type : {"response", "other"}]

\* The shapes of the tables and of the queues; no callback is called that was
\* not registered.
TypeOK ==
  /\ world \in Worlds
  /\ connects \in 0..MaxConnects
  /\ socket \in [Conns -> {"none", "connecting", "open", "closed"}]
  /\ nextSeqID \in 0..MaxIssues
  /\ expected \in [0..MaxIssues -> 0..MaxIssues]
  /\ issued \in Seq([conn : 0..MaxConnects, seqID : 0..MaxIssues, wanted : BOOLEAN])
  /\ requests \in [Conns -> Seq(Commands)]
  /\ replied \in [Conns -> 0..world.replies]
  /\ posted \in Seq(Messages)
  /\ incoming \in [Conns -> Seq(Messages)]
  /\ handling \in [callback : 0..MaxIssues, seqID : 0..MaxIssues]
  /\ called \in Seq([callback : Commands, reply : Commands])

Called(k) == \E i \in DOMAIN called : called[i].callback = k

\* If the page connects once and its callbacks return, every callback is called for the reply to
\* its own command, and once, however many replies the server posts, in
\* whatever order they arrive and whatever the callbacks issue meanwhile.
RightCallbackOnce ==
  world.connects = 1 /\ ~world.throws => \A i \in DOMAIN called :
    /\ called[i].callback = called[i].reply
    /\ \A j \in DOMAIN called : called[i].callback = called[j].callback => i = j

\* If the page connects again a callback may get another command's reply, but
\* only one that was issued under the same seqID on an earlier connection.
OnlyReconnectConfuses ==
  \A i \in DOMAIN called :
    LET k == issued[called[i].callback]
        r == issued[called[i].reply]
    IN called[i].callback # called[i].reply => r.conn < k.conn /\ r.seqID = k.seqID

\* headcrab.js:43: "if a reply is expected, we need to remember that": if the
\* page connects once, the callback of a command whose reply is still on its way
\* is registered.
OnItsWay(k) ==
  \/ \E c \in Conns : k \in ToSet(requests[c])
  \/ \E m \in ToSet(posted) \cup UNION {ToSet(incoming[c]) : c \in Conns} : m.to = k
Remembered ==
  world.connects = 1 => \A k \in DOMAIN issued :
    issued[k].wanted /\ OnItsWay(k) /\ ~Called(k) => expected[issued[k].seqID] = k

Steady == world.connects = 1 /\ ~world.lossy /\ ~world.throws

\* With one connection that stays open, one browser and a server that answers,
\* the callback of every command that was sent is called in the end.
Answered ==
  \A k \in Commands :
    (Steady /\ \E c \in Conns : k \in ToSet(requests[c]) /\ issued[k].wanted)
      ~> Called(k)

=============================================================================
