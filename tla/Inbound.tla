------------------------------ MODULE Inbound ------------------------------
(***************************************************************************)
(* The path of a command from the browser to its handler and of the reply  *)
(* back to the queue `out'.                                                *)
(*                                                                         *)
(* The websocket thread parses each piece of text it receives and pushes   *)
(* what json_loads returned, NULL included, on the queue `in'.  The        *)
(* application thread empties the queue when it calls                      *)
(* headcrab_handle_commands: dispatch checks a command, runs its handler,  *)
(* which may post a reply, and gives up the command.  Whoever pops the     *)
(* reply writes it and gives it up.                                        *)
(*                                                                         *)
(* Granularity.  A queue operation is one step (PthreadQueue shows it is   *)
(* atomic); everything else a thread does between two of them touches      *)
(* values that it alone can reach, or a reply it has shared.               *)
(*                                                                         *)
(* Values are jansson's: a command is a root object and, inside it, its    *)
(* "args".  Each has a reference count; 0 is freed memory.                 *)
(***************************************************************************)
EXTENDS Integers, FiniteSets, SequencesExt

CONSTANTS
  Texts,           \* the kinds of text the browser sends, among AllTexts
  Handlers,        \* what handlers do with a reply they posted: leave or decref
  MaxReceived,     \* how many pieces of text are received
  InCapacity,      \* MQ_LEN, of `in'
  OutCapacity      \* MQ_LEN, of `out'

\* What a text holds once parsed: a command whose args are an object, some
\* other value, or missing; an object that is not a command; other JSON.
Commands == {"command", "otherArgs", "noArgs"}
Shapes == Commands \cup {"badSeqID", "badHeader", "array", "scalar"}
\* The texts that jansson's flags decide about, and one that is not JSON.
AllTexts == Shapes \cup {"trailing", "duplicate", "garbage"}

ASSUME InboundAssumption ==
  /\ Texts \subseteq AllTexts
  /\ Handlers \subseteq {"leave", "decref"}
  /\ MaxReceived \in Nat
  /\ InCapacity \in Nat \ {0}
  /\ OutCapacity \in Nat \ {0}

VARIABLES
  received,   \* pieces of text received; a value is named by their number
  shape,      \* per value: its shape, "null" if json_loads returned NULL
  root,       \* per value: the reference count of the whole
  args,       \* per value: the reference count of its args, and the seqID there
  inq,        \* the queue `in' of values, 0 for NULL
  outq,       \* the queue `out' of replies
  reply,      \* per value: the reference count of the reply to it
  sent,       \* the replies written to the browser
  pc,         \* the application thread's next step
  cur,        \* the command it dispatches
  due,        \* what `in' held when headcrab_handle_commands was called
  executed,   \* the commands whose handler has run, in order
  givenUp,    \* the commands whose handler gave up the reply it had posted
  status      \* of the process: running or fault (it used freed memory)

vars == <<received, shape, root, args, inq, outq, reply, sent, pc, cur, due,
          executed, givenUp, status>>

Numbers == 1..MaxReceived

Init ==
  /\ received = 0
  /\ shape = [n \in Numbers |-> "null"]
  /\ root = [n \in Numbers |-> 0]
  /\ args = [n \in Numbers |-> [refs |-> 0, seqID |-> 0]]
  /\ inq = << >>
  /\ outq = << >>
  /\ reply = [n \in Numbers |-> 0]
  /\ sent = << >>
  /\ pc = "idle"
  /\ cur = 0
  /\ due = {}
  /\ executed = << >>
  /\ givenUp = {}
  /\ status = "running"

Alive == status = "running"

WithArgs == {"command", "otherArgs", "badSeqID", "badHeader"}
HasArgs(n) == shape[n] \in WithArgs

-----------------------------------------------------------------------------
(* callback_command, LWS_CALLBACK_RECEIVE, in the websocket thread.        *)

\* json_loads is given the length of the text for its flags.
JSON_REJECT_DUPLICATES == 1
JSON_DISABLE_EOF_CHECK == 2
JSON_DECODE_ANY == 4
Flag(flags, bit) == (flags \div bit) % 2 = 1

Rejected(text, flags) ==
  \/ text = "garbage"
  \/ text = "scalar" /\ ~Flag(flags, JSON_DECODE_ANY)
  \/ text = "trailing" /\ ~Flag(flags, JSON_DISABLE_EOF_CHECK)
  \/ text = "duplicate" /\ Flag(flags, JSON_REJECT_DUPLICATES)

json_loads(text, flags) ==
  CASE Rejected(text, flags) -> "null"
    [] ~Rejected(text, flags) /\ text \in {"trailing", "duplicate"} -> "command"
    [] OTHER -> text

\* Mutant: a full queue takes the text all the same.
ReceiveUnchecked(text, len) ==
  LET n == received + 1
      loaded == json_loads(text, len)
  IN
  /\ Alive
  /\ received < MaxReceived
  /\ received' = n
  /\ shape' = [shape EXCEPT ![n] = loaded]
  /\ root' = [root EXCEPT ![n] = IF loaded = "null" THEN 0 ELSE 1]
  /\ args' = [args EXCEPT ![n].refs = IF loaded \in WithArgs THEN 1 ELSE 0]
  /\ inq' = Append(inq, IF loaded = "null" THEN 0 ELSE n)
  /\ UNCHANGED <<outq, reply, sent, pc, cur, due, executed, givenUp, status>>

\* A frame longer than libwebsockets' buffer arrives as several texts.
Receive(text, len) ==
  LET n == received + 1
      loaded == json_loads(text, len)
  IN
  /\ Alive
  /\ received < MaxReceived
  /\ received' = n
  /\ shape' = [shape EXCEPT ![n] = loaded]
  /\ root' = [root EXCEPT ![n] = IF loaded = "null" THEN 0 ELSE 1]
  /\ args' = [args EXCEPT ![n].refs = IF loaded \in WithArgs THEN 1 ELSE 0]
  /\ inq' = IF Len(inq) < InCapacity
              THEN Append(inq, IF loaded = "null" THEN 0 ELSE n)
              ELSE inq
  /\ UNCHANGED <<outq, reply, sent, pc, cur, due, executed, givenUp, status>>

-----------------------------------------------------------------------------
(* headcrab_handle_commands, in the application thread.                    *)

HandleCommands ==
  /\ Alive
  /\ pc = "idle"
  /\ pc' = "pop"
  /\ due' = ToSet(inq) \ {0}
  /\ UNCHANGED <<received, shape, root, args, inq, outq, reply, sent, cur,
                 executed, givenUp, status>>

\* Mutant: a NULL ends the loop and stays in the queue.
PopKeepsNull ==
  /\ Alive
  /\ pc = "pop"
  /\ IF (IF inq = << >> THEN TRUE ELSE Head(inq) = 0)
       THEN /\ pc' = "idle"
            /\ UNCHANGED <<inq, cur>>
       ELSE /\ cur' = Head(inq)
            /\ inq' = Tail(inq)
            /\ pc' = "dispatch"
  /\ UNCHANGED <<received, shape, root, args, outq, reply, sent, due, executed,
                 givenUp, status>>

\* Mutant: the newest command is taken first.
PopNewest ==
  /\ Alive
  /\ pc = "pop"
  /\ \/ /\ inq = << >>
        /\ pc' = "idle"
        /\ UNCHANGED <<inq, cur>>
     \/ /\ inq # << >>
        /\ inq' = Front(inq)
        /\ IF Last(inq) = 0
             THEN pc' = "idle" /\ UNCHANGED cur
             ELSE pc' = "dispatch" /\ cur' = Last(inq)
  /\ UNCHANGED <<received, shape, root, args, outq, reply, sent, due, executed,
                 givenUp, status>>

\* mq_pop returns NULL for an empty queue and for a NULL that was pushed.
Pop ==
  /\ Alive
  /\ pc = "pop"
  /\ \/ /\ inq = << >>
        /\ pc' = "idle"
        /\ UNCHANGED <<inq, cur>>
     \/ /\ inq # << >>
        /\ inq' = Tail(inq)
        /\ IF Head(inq) = 0
             THEN pc' = "idle" /\ UNCHANGED cur
             ELSE pc' = "dispatch" /\ cur' = Head(inq)
  /\ UNCHANGED <<received, shape, root, args, outq, reply, sent, due, executed,
                 givenUp, status>>

\* dispatch returns early: the message is left as it is,
RejectHeader ==
  /\ Alive
  /\ pc = "dispatch"
  /\ shape[cur] \in {"array", "scalar", "badHeader"}
  /\ pc' = "pop"
  /\ UNCHANGED <<received, shape, root, args, inq, outq, reply, sent, cur, due,
                 executed, givenUp, status>>

\* or with one more reference to its args.
RejectSeqID ==
  /\ Alive
  /\ pc = "dispatch"
  /\ shape[cur] = "badSeqID"
  /\ args' = [args EXCEPT ![cur].refs = @ + 1]
  /\ pc' = "pop"
  /\ UNCHANGED <<received, shape, root, inq, outq, reply, sent, cur, due,
                 executed, givenUp, status>>

\* Releasing the root releases what it owns.
Decref(n) ==
  /\ root' = [root EXCEPT ![n] = @ - 1]
  /\ args' = IF root[n] = 1 /\ HasArgs(n)
               THEN [args EXCEPT ![n].refs = @ - 1] ELSE args

\* Mutant: the seqID is not copied into the args.
BeginNoSeqID ==
  /\ Alive
  /\ pc = "dispatch"
  /\ shape[cur] \in Commands
  /\ args' = IF HasArgs(cur) THEN [args EXCEPT ![cur].refs = @ + 1] ELSE args
  /\ \E found \in BOOLEAN : pc' = IF found THEN "op" ELSE "release"
  /\ UNCHANGED <<received, shape, root, inq, outq, reply, sent, cur, due,
                 executed, givenUp, status>>

\* A well-formed command: a reference to its args, the seqID set in them (when
\* they are an object), and the lookup of a handler.
Begin ==
  /\ Alive
  /\ pc = "dispatch"
  /\ shape[cur] \in Commands
  /\ args' = [args EXCEPT
       ![cur].refs = IF HasArgs(cur) THEN @ + 1 ELSE @,
       ![cur].seqID = IF shape[cur] = "command" THEN cur ELSE @]
  /\ \E found \in BOOLEAN : pc' = IF found THEN "op" ELSE "release"
  /\ UNCHANGED <<received, shape, root, inq, outq, reply, sent, cur, due,
                 executed, givenUp, status>>

\* The handler, called with the command's strings and args still in use.
\* json_integer_value of an absent seqID is 0.
Op ==
  /\ Alive
  /\ pc = "op"
  /\ executed' = Append(executed, cur)
  /\ IF root[cur] = 0 \/ (HasArgs(cur) /\ args[cur].refs = 0)
       THEN status' = "fault" /\ UNCHANGED <<reply, outq, pc>>
       ELSE /\ UNCHANGED status
            /\ \/ pc' = "release" /\ UNCHANGED <<reply, outq>>
               \/ /\ reply' = [reply EXCEPT ![cur] = 1]
                  /\ outq' = IF Len(outq) < OutCapacity
                       THEN Append(outq, [to |-> cur, seqID |-> args[cur].seqID])
                       ELSE outq
                  /\ pc' = "posted"
  /\ UNCHANGED <<received, shape, root, args, inq, sent, cur, due, givenUp>>

\* headcrab_post_message has returned to the handler.  That of examples/boids
\* returns as well: the reply belongs to whoever pops it.
PostedLeft ==
  /\ Alive
  /\ pc = "posted" /\ "leave" \in Handlers
  /\ pc' = "release"
  /\ UNCHANGED <<received, shape, root, args, inq, outq, reply, sent, cur, due,
                 executed, givenUp, status>>

\* That of examples/u_s gives the reply up, whether the queue took it or not and
\* whether or not it has been written meanwhile.
PostedDecref ==
  /\ Alive
  /\ pc = "posted" /\ "decref" \in Handlers
  /\ givenUp' = givenUp \cup {cur}
  /\ IF reply[cur] > 0
       THEN reply' = [reply EXCEPT ![cur] = @ - 1] /\ pc' = "release" /\ UNCHANGED status
       ELSE status' = "fault" /\ UNCHANGED <<reply, pc>>
  /\ UNCHANGED <<received, shape, root, args, inq, outq, sent, cur, due,
                 executed>>

Posted == PostedLeft \/ PostedDecref

Release ==
  /\ Alive
  /\ pc = "release"
  /\ Decref(cur)
  /\ pc' = "pop"
  /\ UNCHANGED <<received, shape, inq, outq, reply, sent, cur, due, executed,
                 givenUp, status>>

Handling ==
  Pop \/ RejectHeader \/ RejectSeqID \/ Begin \/ Op \/ Posted \/ Release

-----------------------------------------------------------------------------
(* callback_command, LWS_CALLBACK_BROADCAST or _SERVER_WRITEABLE, in either *)
(* thread: the reply is popped, written and given up.                       *)

\* Mutant: the reply is given up before its text is made.
SendDecrefsFirst ==
  /\ Alive
  /\ outq # << >>
  /\ outq' = Tail(outq)
  /\ LET r == Head(outq) IN
       \/ /\ reply[r.to] > 1
          /\ sent' = Append(sent, r)
          /\ UNCHANGED status
       \/ /\ reply[r.to] \in {0, 1}
          /\ status' = "fault"
          /\ UNCHANGED sent
  /\ UNCHANGED <<received, shape, root, args, reply, inq, pc, cur, due,
                 executed, givenUp>>

Send ==
  /\ Alive
  /\ outq # << >>
  /\ outq' = Tail(outq)
  /\ LET r == Head(outq) IN
       \/ /\ reply[r.to] > 0
          /\ reply' = [reply EXCEPT ![r.to] = @ - 1]
          /\ sent' = Append(sent, r)
          /\ UNCHANGED status
       \/ /\ reply[r.to] = 0
          /\ status' = "fault"
          /\ UNCHANGED <<reply, sent>>
  /\ UNCHANGED <<received, shape, root, args, inq, pc, cur, due, executed,
                 givenUp>>

-----------------------------------------------------------------------------
Next ==
  \/ \E text \in Texts, len \in 0..7 : Receive(text, len)
  \/ HandleCommands
  \/ Pop \/ RejectHeader \/ RejectSeqID \/ Begin \/ Op \/ Posted \/ Release
  \/ Send

Spec == Init /\ [][Next]_vars

\* The application calls headcrab_handle_commands again and again, and the call
\* runs on.
FairSpec ==
  /\ Spec
  /\ WF_vars(HandleCommands)
  /\ WF_vars(Handling)

-----------------------------------------------------------------------------
(* Correctness.                                                            *)

PCs == {"idle", "pop", "dispatch", "op", "posted", "release"}

Replies == [to : Numbers, seqID : 0..MaxReceived]

\* The values each variable takes.
TypeOK ==
  /\ received \in 0..MaxReceived
  /\ shape \in [Numbers -> Shapes \cup {"null"}]
  /\ root \in [Numbers -> {0, 1}]
  /\ args \in [Numbers -> [refs : 0..2, seqID : 0..MaxReceived]]
  /\ inq \in Seq(0..MaxReceived) /\ Len(inq) <= InCapacity
  /\ outq \in Seq(Replies) /\ Len(outq) <= OutCapacity
  /\ reply \in [Numbers -> {0, 1}]
  /\ sent \in Seq(Replies)
  /\ pc \in PCs /\ cur \in 0..MaxReceived /\ (pc \notin {"idle", "pop"} => cur # 0)
  /\ due \subseteq Numbers
  /\ executed \in Seq(Numbers) /\ givenUp \subseteq Numbers
  /\ status \in {"running", "fault"}

InUse(n) == pc \in {"dispatch", "op", "posted", "release"} /\ cur = n

\* Whatever a queue or a running dispatch refers to is still allocated, the
\* args of a command included, whatever the other handlers do: a reply in `out'
\* has lost its last reference only if its own handler gave it up after posting,
\* and freed memory is used only after a handler has.
OwnedIsAlive ==
  /\ status = "fault" => givenUp # {}
  /\ \A n \in Numbers :
       n \in ToSet(inq) \/ InUse(n)
         => root[n] > 0 /\ (HasArgs(n) => args[n].refs > 0)
  /\ \A i \in DOMAIN outq : outq[i].to \notin givenUp => reply[outq[i].to] > 0

\* Handlers run in the order in which the commands were received, each once,
\* whatever was lost or refused between them.
ExecutedInOrder ==
  \A i, j \in DOMAIN executed : i < j => executed[i] < executed[j]

\* A reply to a command whose args are an object carries that command's seqID,
\* so the browser gives it to the callback that waits for it.
ReplyToItsCommand ==
  \A r \in ToSet(outq) \cup ToSet(sent) :
    shape[r.to] = "command" => r.seqID = r.to

\* Every command that `in' took is dispatched in the end, although a text that
\* does not parse makes headcrab_handle_commands return early.
EventuallyDispatched ==
  \A n \in Numbers : n \in ToSet(inq) ~> (n \notin ToSet(inq) \/ status = "fault")

\* headcrab.h:134: headcrab_handle_commands handles all commands received since
\* the last call: when it returns, none that it found waiting still waits.
HandlesAllCommands == pc = "idle" => due \cap ToSet(inq) = {}

=============================================================================
