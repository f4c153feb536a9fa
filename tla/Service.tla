------------------------------ MODULE Service ------------------------------
(***************************************************************************)
(* The life of a connection in libwebsockets, as the websocket thread      *)
(* serves it: libwebsocket_service polls the sockets and passes once over  *)
(* those that have something, while accepting appends to the poll set and  *)
(* closing takes out of its middle.  A connection begins as HTTP; the end  *)
(* of a request's headers either calls callback_http, which sends a file,  *)
(* or shakes hands and makes it a websocket of callback_command.           *)
(*                                                                         *)
(* Sockets block: recv with nothing to read stops the thread for good.     *)
(*                                                                         *)
(* Headers are abstracted to lines; what libwebsocket_parse does with the  *)
(* bytes of a line is one step of Parse.  The frames of an open websocket  *)
(* are text, which is passed on, and those that end it: Framing has their  *)
(* bytes.  POLLOUT and the other thread are Outbound's; no timeout is      *)
(* pending on a connection that headcrab serves.                           *)
(***************************************************************************)
EXTENDS Integers, FiniteSets, SequencesExt

CONSTANTS
  Conns,        \* the connections browsers make; one that is gone may come again
  Listener,     \* the listening socket
  MaxClients,   \* MAX_CLIENTS
  Requests,     \* per connection: what may be asked, sequences of header lines
  MaxAsked      \* bound: requests on one connection

ASSUME ServiceAssumption ==
  /\ Listener \notin Conns
  /\ MaxClients \in Nat \ {0}
  /\ MaxAsked \in Nat

VARIABLES
  fds,       \* the poll set: sockets and what the last poll found
  pass,      \* libwebsocket_service's n, 0 in poll
  session,   \* per connection: the state of its wsi, none if there is no wsi
  parser,    \* per connection: the parser and the headers it has kept
  told,      \* the connections that callback_command takes for established
  answers,   \* per connection: the URIs that callback_http has answered
  backlog,   \* the connections that wait to be accepted
  net,       \* per connection: the browser's end
  asked,     \* per connection: the requests sent
  buffered,  \* per connection: what was sent and not yet received
  status     \* running, or blocked in recv

sessionVars == <<session, parser, told, answers>>
netVars == <<backlog, net, asked, buffered>>
vars == <<fds, pass, sessionVars, netVars, status>>

\* The header lines; a request line holds the URI.
Uris == {"/", "/favicon.ico"}
Headers == {"Host", "Upgrade", "command", "chat"}
Lines == Uris \cup Headers \cup {"end"}
Frames == {"text", "close"}

ASSUME RequestsAssumption == \A c \in Conns : Requests[c] \subseteq Seq(Lines)

\* A request is a request line, headers and an empty line.  Who names the
\* protocol "command" is headcrab.js, in the handshake of a WebSocket, which
\* its browser makes: Host first, then Upgrade and the rest.
IsRequest(request) ==
  /\ Len(request) >= 2
  /\ request[1] \in Uris
  /\ \A i \in 2..(Len(request) - 1) : request[i] \in Headers
  /\ request[Len(request)] = "end"
  /\ "command" \in ToSet(request) =>
       request[2] = "Host" /\ "Upgrade" \in ToSet(request)

ASSUME BrowsersAssumption == \A c \in Conns : \A r \in Requests[c] : IsRequest(r)

NewParser ==
  [complete |-> FALSE, stale |-> FALSE, uri |-> "", upgrade |-> FALSE,
   protocol |-> << >>]

Entry(s, revents) == [sock |-> s, revents |-> revents]

Init ==
  /\ fds = << Entry(Listener, "none") >>
  /\ pass = 0
  /\ session = [c \in Conns |-> "none"]
  /\ parser = [c \in Conns |-> NewParser]
  /\ told = {}
  /\ answers = [c \in Conns |-> << >>]
  /\ backlog = << >>
  /\ net = [c \in Conns |-> "absent"]
  /\ asked = [c \in Conns |-> << >>]
  /\ buffered = [c \in Conns |-> << >>]
  /\ status = "running"

Alive == status = "running"

-----------------------------------------------------------------------------
(* libwebsocket_parse, a line at a time.                                   *)

\* After a request that was answered the end of its headers stays in the name
\* buffer, so no name is recognised before the next colon.
Parse(p, line) ==
  CASE p.complete -> p
    [] p.stale /\ line \in Uris -> p
    [] p.stale /\ line \notin Uris -> [p EXCEPT !.stale = FALSE]
    [] ~p.stale /\ line \in Uris -> [p EXCEPT !.uri = line]
    [] ~p.stale /\ line = "Upgrade" -> [p EXCEPT !.upgrade = TRUE]
    [] ~p.stale /\ line \in {"command", "chat"} -> [p EXCEPT !.protocol = Append(@, line)]
    [] ~p.stale /\ line = "end" -> [p EXCEPT !.complete = TRUE]
    [] OTHER -> p

\* One line after the other.
ParseAll(p, lines) ==
  LET after[k \in 0..Len(lines)] ==
        IF k = 0 THEN p ELSE Parse(after[k - 1], lines[k])
  IN after[Len(lines)]

\* What libwebsocket_read decides once the headers are complete: to answer, to
\* shake hands, or to close.
Supported(p) == p.protocol = << "command" >>

-----------------------------------------------------------------------------
(* libwebsocket_service.                                                   *)

Ready(s) ==
  IF s = Listener THEN IF backlog # << >> THEN "in" ELSE "none"
  ELSE CASE net[s] = "reset" -> "hup"
         [] net[s] # "reset" /\ (buffered[s] # << >> \/ net[s] = "closed") -> "in"
         [] OTHER -> "none"

Poll ==
  /\ Alive /\ pass = 0
  /\ \E i \in DOMAIN fds : Ready(fds[i].sock) # "none"
  /\ fds' = [i \in DOMAIN fds |-> Entry(fds[i].sock, Ready(fds[i].sock))]
  /\ pass' = 1
  /\ UNCHANGED <<sessionVars, netVars, status>>

PassEnds ==
  /\ Alive /\ pass > Len(fds)
  /\ pass' = 0
  /\ UNCHANGED <<fds, sessionVars, netVars, status>>

Visiting(s, revents) ==
  /\ Alive
  /\ pass \in DOMAIN fds
  /\ fds[pass] = Entry(s, revents)

Skip(s) ==
  /\ Visiting(s, "none")
  /\ pass' = pass + 1
  /\ UNCHANGED <<fds, sessionVars, netVars, status>>

\* Mutant: a new entry keeps the events of the one that was there before.
AcceptInherits ==
  /\ Visiting(Listener, "in")
  /\ Len(fds) < MaxClients
  /\ LET c == Head(backlog) IN
       /\ session' = [session EXCEPT ![c] = "http"]
       /\ fds' = Append(fds, Entry(c, "in"))
  /\ backlog' = Tail(backlog)
  /\ pass' = pass + 1
  /\ UNCHANGED <<parser, told, answers, net, asked, buffered, status>>

\* Mutant: a new wsi is the memory of an old one, not cleared.
AcceptDirty ==
  /\ Visiting(Listener, "in")
  /\ Len(fds) < MaxClients
  /\ LET c == Head(backlog) IN
       /\ session' = [session EXCEPT ![c] = "http"]
       /\ parser' = [parser EXCEPT ![c] =
                       [NewParser EXCEPT !.stale = TRUE, !.uri = "/favicon.ico"]]
       /\ fds' = Append(fds, Entry(c, "none"))
  /\ backlog' = Tail(backlog)
  /\ pass' = pass + 1
  /\ UNCHANGED <<told, answers, net, asked, buffered, status>>

\* The listening socket: the oldest that waits gets a new wsi and the last
\* entry, with no events, which this very pass still comes to.
Accept ==
  /\ Visiting(Listener, "in")
  /\ Len(fds) < MaxClients
  /\ LET c == Head(backlog) IN
       /\ session' = [session EXCEPT ![c] = "http"]
       /\ fds' = Append(fds, Entry(c, "none"))
  /\ backlog' = Tail(backlog)
  /\ pass' = pass + 1
  /\ UNCHANGED <<parser, told, answers, net, asked, buffered, status>>

\* Mutant: the listening socket is not polled again when there is no place.
TooBusyStops ==
  /\ Visiting(Listener, "in")
  /\ Len(fds) >= MaxClients
  /\ fds' = SelectSeq(fds, LAMBDA e : e.sock # Listener)
  /\ UNCHANGED <<pass, sessionVars, netVars, status>>

\* "too busy to accept new client": it is left waiting.
TooBusy ==
  /\ Visiting(Listener, "in")
  /\ Len(fds) >= MaxClients
  /\ pass' = pass + 1
  /\ UNCHANGED <<fds, sessionVars, netVars, status>>

\* Mutant: the user hears only of sessions that were established at the end.
CloseQuietly(c, old) ==
  /\ session' = [session EXCEPT ![c] = "none"]
  /\ told' = IF old = "established" THEN told \ {c} ELSE told
  /\ parser' = [parser EXCEPT ![c] = NewParser]
  /\ answers' = [answers EXCEPT ![c] = << >>]
  /\ fds' = RemoveAt(fds, pass)
  /\ net' = [net EXCEPT ![c] = "absent"]
  /\ asked' = [asked EXCEPT ![c] = << >>]
  /\ buffered' = [buffered EXCEPT ![c] = << >>]

\* Mutant: the entry is left in the poll set.
CloseKeepsEntry(c, old) ==
  /\ session' = [session EXCEPT ![c] = "none"]
  /\ told' = IF old \in {"established", "returned"} THEN told \ {c} ELSE told
  /\ parser' = [parser EXCEPT ![c] = NewParser]
  /\ answers' = [answers EXCEPT ![c] = << >>]
  /\ net' = [net EXCEPT ![c] = "absent"]
  /\ asked' = [asked EXCEPT ![c] = << >>]
  /\ buffered' = [buffered EXCEPT ![c] = << >>]
  /\ UNCHANGED fds

\* libwebsocket_close_and_free_session of the connection that is visited: the
\* entries behind move down, so this pass does not come to the next one.
\* callback_command hears CLOSED if it had heard of the session; the wsi is
\* freed with its headers.
Close(c, old) ==
  /\ session' = [session EXCEPT ![c] = "none"]
  /\ told' = IF old \in {"established", "returned"} THEN told \ {c} ELSE told
  /\ parser' = [parser EXCEPT ![c] = NewParser]
  /\ answers' = [answers EXCEPT ![c] = << >>]
  /\ fds' = RemoveAt(fds, pass)
  /\ net' = [net EXCEPT ![c] = "absent"]
  /\ asked' = [asked EXCEPT ![c] = << >>]
  /\ buffered' = [buffered EXCEPT ![c] = << >>]

HangUp(c) ==
  /\ Visiting(c, "hup")
  /\ Close(c, session[c])
  /\ pass' = pass + 1
  /\ UNCHANGED <<backlog, status>>

\* recv returns 0 when the browser has closed, and blocks when it has not.
ReadNothing(c) ==
  /\ Visiting(c, "in")
  /\ buffered[c] = << >>
  /\ \/ /\ net[c] # "open"
        /\ Close(c, session[c])
        /\ pass' = pass + 1
        /\ UNCHANGED status
     \/ /\ net[c] = "open"
        /\ status' = "blocked"
        /\ UNCHANGED <<fds, pass, sessionVars, net, asked, buffered>>
  /\ UNCHANGED backlog

\* recv returns the first n pieces of what has arrived.
Received(c, n) == SubSeq(buffered[c], 1, n)
Left(c, n) == SubSeq(buffered[c], n + 1, Len(buffered[c]))
Parsed(c, n) == ParseAll([parser[c] EXCEPT !.complete = FALSE], Received(c, n))

Reading(c, n) ==
  /\ Visiting(c, "in")
  /\ n \in DOMAIN buffered[c]

\* libwebsocket_read of headers: they go on,
ReadHeaders(c, n) ==
  /\ Reading(c, n) /\ session[c] \in {"http", "headers"}
  /\ ~Parsed(c, n).complete
  /\ session' = [session EXCEPT ![c] = "headers"]
  /\ parser' = [parser EXCEPT ![c] = Parsed(c, n)]
  /\ buffered' = [buffered EXCEPT ![c] = Left(c, n)]
  /\ pass' = pass + 1
  /\ UNCHANGED <<fds, told, answers, backlog, net, asked, status>>

\* or were a request, which callback_http answers by its URI; anything received
\* with the end of the headers is lost,
ReadRequest(c, n) ==
  /\ Reading(c, n) /\ session[c] \in {"http", "headers"}
  /\ Parsed(c, n).complete /\ ~Parsed(c, n).upgrade
  /\ session' = [session EXCEPT ![c] = "http"]
  /\ parser' = [parser EXCEPT ![c] = [Parsed(c, n) EXCEPT !.stale = TRUE]]
  /\ answers' = [answers EXCEPT ![c] = Append(@, Parsed(c, n).uri)]
  /\ buffered' = [buffered EXCEPT ![c] = Left(c, n)]
  /\ pass' = pass + 1
  /\ UNCHANGED <<fds, told, backlog, net, asked, status>>

\* or a handshake that is accepted: 101 Switching Protocols is sent, and the
\* headers are not looked at again,
ReadHandshake(c, n) ==
  /\ Reading(c, n) /\ session[c] \in {"http", "headers"}
  /\ Parsed(c, n).complete /\ Parsed(c, n).upgrade /\ Supported(Parsed(c, n))
  /\ session' = [session EXCEPT ![c] = "established"]
  /\ parser' = [parser EXCEPT ![c] = NewParser]
  /\ told' = told \cup {c}
  /\ buffered' = [buffered EXCEPT ![c] = Left(c, n)]
  /\ pass' = pass + 1
  /\ UNCHANGED <<fds, answers, backlog, net, asked, status>>

\* or one that is not.
ReadRefused(c, n) ==
  /\ Reading(c, n) /\ session[c] \in {"http", "headers"}
  /\ Parsed(c, n).complete /\ Parsed(c, n).upgrade /\ ~Supported(Parsed(c, n))
  /\ Close(c, "headers")
  /\ pass' = pass + 1
  /\ UNCHANGED <<backlog, status>>

\* libwebsocket_read of frames: text goes to callback_command, a close frame is
\* returned and ends the session.
Ending(frames) == SelectSeq(frames, LAMBDA f : f # "text")

\* Mutant: the service returns once it has passed a text on.
ReadTextReturns(c, n) ==
  /\ Reading(c, n) /\ session[c] = "established"
  /\ Ending(Received(c, n)) = << >>
  /\ buffered' = [buffered EXCEPT ![c] = Left(c, n)]
  /\ pass' = 0
  /\ UNCHANGED <<fds, sessionVars, backlog, net, asked, status>>

ReadText(c, n) ==
  /\ Reading(c, n) /\ session[c] = "established"
  /\ Ending(Received(c, n)) = << >>
  /\ buffered' = [buffered EXCEPT ![c] = Left(c, n)]
  /\ pass' = pass + 1
  /\ UNCHANGED <<fds, sessionVars, backlog, net, asked, status>>

ReadEnd(c, n) ==
  /\ Reading(c, n) /\ session[c] = "established"
  /\ Ending(Received(c, n)) # << >>
  /\ Close(c, "returned")
  /\ pass' = pass + 1
  /\ UNCHANGED <<backlog, status>>

-----------------------------------------------------------------------------
(* The browsers.                                                           *)

Connect(c) ==
  /\ net[c] = "absent"
  /\ net' = [net EXCEPT ![c] = "open"]
  /\ backlog' = Append(backlog, c)
  /\ UNCHANGED <<fds, pass, sessionVars, asked, buffered, status>>

\* A client asks again on the same connection only when it has an answer.
Ask(c, request) ==
  /\ net[c] = "open" /\ session[c] # "established"
  /\ Len(asked[c]) < MaxAsked
  /\ asked[c] # << >> => session[c] # "none" /\ Len(answers[c]) = Len(asked[c])
  /\ asked' = [asked EXCEPT ![c] = Append(@, request)]
  /\ buffered' = [buffered EXCEPT ![c] = @ \o request]
  /\ UNCHANGED <<fds, pass, sessionVars, backlog, net, status>>

\* A browser sends frames when it has the answer to its handshake; bound: one
\* at a time, a longer text being more of the same.
SendFrame(c, frame) ==
  /\ net[c] = "open" /\ session[c] = "established"
  /\ buffered[c] = << >>
  /\ buffered' = [buffered EXCEPT ![c] = Append(@, frame)]
  /\ UNCHANGED <<fds, pass, sessionVars, backlog, net, asked, status>>

Leave(c) ==
  /\ net[c] = "open"
  /\ \E how \in {"closed", "reset"} : net' = [net EXCEPT ![c] = how]
  /\ UNCHANGED <<fds, pass, sessionVars, backlog, asked, buffered, status>>

-----------------------------------------------------------------------------
\* What arrives together: a line, or all; more lines are like the lines by turns.
Pieces(c) == {1, Len(buffered[c])} \ {0}

Loop ==
  \/ Poll \/ PassEnds \/ Accept \/ TooBusy
  \/ \E s \in Conns \cup {Listener} : Skip(s)
  \/ \E c \in Conns :
       \/ HangUp(c) \/ ReadNothing(c)
       \/ \E n \in Pieces(c) :
            \/ ReadHeaders(c, n) \/ ReadRequest(c, n) \/ ReadHandshake(c, n)
            \/ ReadRefused(c, n) \/ ReadText(c, n) \/ ReadEnd(c, n)

Browser ==
  \E c \in Conns :
    \/ Connect(c) \/ Leave(c)
    \/ \E request \in Requests[c] : Ask(c, request)
    \/ \E frame \in Frames : SendFrame(c, frame)

Next == Loop \/ Browser

Spec == Init /\ [][Next]_vars

\* The websocket thread calls libwebsocket_service again and again.  Nothing is
\* assumed of the browsers, nor for any connection in particular.
FairSpec == Spec /\ WF_vars(Loop)

-----------------------------------------------------------------------------
(* Correctness.                                                            *)

Sockets == Conns \cup {Listener}

\* The values of the variables; the poll set holds the listening socket and
\* those of the sessions, each once.
TypeOK ==
  /\ fds \in Seq([sock : Sockets, revents : {"none", "in", "hup"}])
  /\ Len(fds) <= MaxClients
  /\ Len(fds) = 1 + Cardinality({c \in Conns : session[c] # "none"})
  /\ {fds[i].sock : i \in DOMAIN fds}
       = {Listener} \cup {c \in Conns : session[c] # "none"}
  /\ pass \in 0..(MaxClients + 1)
  /\ session \in [Conns -> {"none", "http", "headers", "established"}]
  /\ told \subseteq Conns
  /\ answers \in [Conns -> Seq(Uris)]
  /\ backlog \in Seq(Conns) /\ IsInjective(backlog)
  /\ net \in [Conns -> {"absent", "open", "closed", "reset"}]
  /\ \A c \in Conns : asked[c] \in Seq(Requests[c])
  /\ buffered \in [Conns -> Seq(Lines \cup Frames)]
  /\ status \in {"running", "blocked"}

\* libwebsockets.c:1608: "make sure NO events are seen yet on this new socket":
\* the thread never calls recv where nothing is to come, although entries
\* appear, move and disappear while it goes through the poll set.
NeverBlocked == status = "running"

\* callback_command knows of exactly the sessions that are established: it is
\* told of each one's beginning, and of its end on every path that ends it.
UserIsTold ==
  told = {c \in Conns : session[c] = "established"}

UriOf(request) == Head(request)

\* The first answer on a connection is for the URI that was asked there, not
\* for what an earlier connection, or nobody, has asked, and nothing is answered
\* twice; a websocket is established only where the last request asks for
\* protocol "command", whatever was asked on the connection before.
AnswersTheRequest ==
  \A c \in Conns :
    /\ session[c] # "none" /\ answers[c] # << >> =>
         /\ answers[c][1] = UriOf(asked[c][1])
         /\ Len(answers[c]) <= Len(asked[c])
    /\ session[c] = "established" =>
         {"Upgrade", "command"} \subseteq ToSet(Last(asked[c]))

\* A connection that its browser has closed is closed here, all it had sent
\* having been read: a pass may leave out the entry behind one that is closed,
\* but not for ever, however many come and go.
EventuallyClosed ==
  \A c \in Conns :
    (session[c] # "none" /\ net[c] \in {"closed", "reset"}) ~> (session[c] = "none")

\* A browser that waits is accepted in the end, unless the poll set stays full
\* of connections that do not leave.
EventuallyAccepted ==
  (<>[](Len(fds) >= MaxClients))
    \/ \A c \in Conns : (c \in ToSet(backlog)) ~> (c \notin ToSet(backlog))

=============================================================================
