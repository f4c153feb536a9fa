---------------------------- MODULE FrameReader ----------------------------
(***************************************************************************)
(* What reading the frames of a websocket promises, in the words of        *)
(* parsers.c:432 "We pass payload through to userland as soon as we get    *)
(* it, ignoring FIN": the payload of every text and binary frame and of    *)
(* every continuation of one goes to callback_command, once, in order and  *)
(* in pieces of at most MaxRx bytes.  A ping is answered with its own      *)
(* payload, a close frame is returned and ends the connection, and a pong  *)
(* and the opcodes that mean nothing are dropped.                          *)
(***************************************************************************)
EXTENDS Integers, Sequences

CONSTANTS
  Frames,   \* what a browser may send
  MaxRx     \* MAX_USER_RX_BUFFER

VARIABLES
  sent,      \* the frames sent
  read,      \* how many of them have been read
  passed,    \* bytes of the next one that callback_command has already got
  received,  \* what callback_command has got, piece by piece
  answers,   \* the payloads of the pongs and of the close frame written
  open

vars == <<sent, read, passed, received, answers, open>>

Init ==
  /\ sent = << >>
  /\ read = 0 /\ passed = 0
  /\ received = << >> /\ answers = << >>
  /\ open = TRUE

\* n bytes of the payload of frame i, from a place on, unmasked.
Piece(i, from, n) ==
  << [frame |-> i, part |-> "payload", from |-> from, n |-> n, clear |-> TRUE] >>

Data == {0, 1, 2}
Control == 8..15

Send(frame) ==
  /\ sent' = Append(sent, frame)
  /\ UNCHANGED <<read, passed, received, answers, open>>

Reads(opcodes) ==
  /\ open
  /\ read < Len(sent)
  /\ sent[read + 1].opcode \in opcodes

\* As much as there is of a data frame, but at most MaxRx.
PassOn ==
  /\ Reads(Data)
  /\ sent[read + 1].len > 0
  /\ LET left == sent[read + 1].len - passed
         n == IF left < MaxRx THEN left ELSE MaxRx
     IN /\ received' = Append(received, Piece(read + 1, passed, n))
        /\ IF n = left
             THEN read' = read + 1 /\ passed' = 0
             ELSE read' = read /\ passed' = passed + n
  /\ UNCHANGED <<sent, answers, open>>

\* There is nothing to pass on of a data frame with no payload.
PassOver ==
  /\ Reads(Data)
  /\ sent[read + 1].len = 0
  /\ read' = read + 1
  /\ UNCHANGED <<sent, passed, received, answers, open>>

Answer ==
  /\ Reads({8, 9})
  /\ LET len == sent[read + 1].len IN
       /\ len <= 125
       /\ answers' = Append(answers, IF len = 0 THEN << >> ELSE Piece(read + 1, 0, len))
  /\ read' = read + 1
  /\ open' = (sent[read + 1].opcode = 9)
  /\ UNCHANGED <<sent, passed, received>>

\* Pongs and the opcodes that mean nothing.
Drop ==
  /\ Reads({3, 4, 5, 6, 7} \cup (Control \ {8, 9}))
  /\ read' = read + 1
  /\ UNCHANGED <<sent, passed, received, answers, open>>

\* A control frame that is too long ends the connection.
Refuse ==
  /\ Reads(Control)
  /\ sent[read + 1].len > 125
  /\ open' = FALSE
  /\ UNCHANGED <<sent, read, passed, received, answers>>

Next ==
  \/ \E frame \in Frames : Send(frame)
  \/ PassOn \/ PassOver \/ Answer \/ Drop \/ Refuse

Spec == Init /\ [][Next]_vars

=============================================================================
