------------------------------ MODULE Framing ------------------------------
(***************************************************************************)
(* The bytes of a websocket's frames, protocol revision 13, as             *)
(* libwebsocket_rx_sm takes them one by one and libwebsocket_write makes   *)
(* them.                                                                   *)
(*                                                                         *)
(* Header and key bytes are numbers.  A payload is a run: whose bytes they *)
(* are, from where and how many; what its bytes are does not matter, only  *)
(* whether they come out as they went in.  The machine is the same however *)
(* recv cuts the stream, so a run is taken at once as far as nothing       *)
(* happens, or after its first byte.                                       *)
(*                                                                         *)
(* The browser asks for no extension.  Revisions 0 to 8 are left out, and  *)
(* so is the close that the server begins, which only destroying the       *)
(* context does (Lifecycle).                                               *)
(***************************************************************************)
EXTENDS Integers, FiniteSets, SequencesExt

CONSTANTS
  Frames,      \* what a browser may send
  MaxLen,      \* bound: the longest payload
  MaxRx,       \* MAX_USER_RX_BUFFER
  SizeMax,     \* the largest size_t
  MaxFrames,   \* bound: frames the browser sends
  Replies,     \* the lengths of the texts that headcrab sends
  MaxReplies   \* bound: texts it sends

\* A length less its lowest bytes.
Shifted(len) ==
  LET shifted[i \in 0..8] == IF i = 0 THEN len ELSE shifted[i - 1] \div 256 IN shifted

\* A frame as a browser makes it: the key is << >> if it is not masked.  Lengths
\* have 63 bits, and all that is sent on a connection is less than a size_t counts.
ASSUME FramingAssumption ==
  /\ MaxRx \in Nat /\ MaxRx >= 125 /\ Shifted(MaxRx)[7] < 128
  /\ MaxLen \in Nat /\ Shifted(MaxLen)[7] < 128
  /\ MaxFrames \in Nat /\ MaxReplies \in Nat
  /\ SizeMax \in Nat /\ MaxFrames * (MaxLen + 14) <= SizeMax
  /\ Replies \subseteq 0..MaxLen
  /\ \A f \in Frames :
       /\ f.opcode \in 0..15 /\ f.fin \in BOOLEAN /\ f.len \in 0..MaxLen
       /\ f.key = << >> \/ (Len(f.key) = 4 /\ f.key \in Seq(0..255))

VARIABLES
  stream,    \* what the browser has sent and was not taken yet
  sent,      \* the frames it has sent
  rx,        \* lws_rx_parse_state, and the bytes of it still to come
  opcode,    \* of this frame
  masked,    \* this_frame_masked
  length,    \* rx_packet_length
  nonce,     \* frame_masking_nonce_04
  maskIndex, \* frame_mask_index & 3
  buffer,    \* rx_user_buffer, as runs
  received,  \* what callback_command has got
  wire,      \* the frames written
  open       \* the session is established

parserVars == <<rx, opcode, masked, length, nonce, maskIndex>>
vars == <<stream, sent, parserVars, buffer, received, wire, open>>

Init ==
  /\ stream = << >> /\ sent = << >>
  /\ rx = [state |-> "NEW", left |-> 0]
  /\ opcode = 0 /\ masked = FALSE /\ length = 0
  /\ nonce = <<0, 0, 0, 0>> /\ maskIndex = 0
  /\ buffer = << >> /\ received = << >> /\ wire = << >>
  /\ open = TRUE

-----------------------------------------------------------------------------
(* Bytes.                                                                  *)

\* A length as so many bytes, the highest first, and back.
Octets(len, count) == [i \in 1..count |-> Shifted(len)[count - i] % 256]

Number(octets) ==
  LET upto[k \in 0..Len(octets)] == IF k = 0 THEN 0 ELSE 256 * upto[k - 1] + octets[k]
  IN upto[Len(octets)]

\* The header and the key of a browser's frame: RFC 6455, 5.2.
Extended(len) == IF len < 126 THEN 0 ELSE IF len <= 65535 THEN 2 ELSE 8

Header(f) ==
  << (IF f.fin THEN 128 ELSE 0) + f.opcode,
     (IF f.key = << >> THEN 0 ELSE 128) +
       (CASE Extended(f.len) = 0 -> f.len [] Extended(f.len) = 2 -> 126 [] OTHER -> 127) >>
  \o Octets(f.len, Extended(f.len)) \o f.key

Byte(i, k, value) ==
  [frame |-> i, part |-> "header", from |-> k - 1, n |-> 1, value |-> value]
Payload(i, len) == [frame |-> i, part |-> "payload", from |-> 0, n |-> len, value |-> 0]

Encode(i, f) ==
  [k \in DOMAIN Header(f) |-> Byte(i, k, Header(f)[k])]
    \o (IF f.len = 0 THEN << >> ELSE << Payload(i, f.len) >>)

\* And how a browser reads the header of a frame.
Decode(header) ==
  LET len7 == header[2] % 128 IN
  [fin |-> header[1] \div 128 = 1, opcode |-> header[1] % 16,
   masked |-> header[2] \div 128 = 1,
   len |-> CASE len7 = 126 /\ Len(header) = 4 -> Number(SubSeq(header, 3, 4))
             [] len7 = 127 /\ Len(header) = 10 -> Number(SubSeq(header, 3, 10))
             [] len7 < 126 /\ Len(header) = 2 -> len7
             [] OTHER -> -1]

-----------------------------------------------------------------------------
(* libwebsocket_write, by the server, of a whole message.                  *)

Text == 1
Close == 8
Ping == 9
Pong == 10

Total(runs) ==
  LET upto[k \in 0..Len(runs)] == IF k = 0 THEN 0 ELSE upto[k - 1] + runs[k].n
  IN upto[Len(runs)]

\* Mutant: the short form one too far.
LengthBytesOffByOne(len) ==
  CASE len <= 126 -> << len >>
    [] 127 <= len /\ len <= 65535 -> << 126, (len \div 256) % 256, len % 256 >>
    [] OTHER -> << 127 >> \o Octets(len, 8)

LengthBytes(len) ==
  CASE len < 126 -> << len >>
    [] 126 <= len /\ len <= 65535 -> << 126, (len \div 256) % 256, len % 256 >>
    [] OTHER -> << 127 >> \o Octets(len, 8)

\* Nothing is sent of an empty text.
Written(kind, runs) ==
  IF Total(runs) = 0 /\ kind # Close THEN << >>
  ELSE << [header |-> << 128 + kind >> \o LengthBytes(Total(runs)),
           kind |-> kind, payload |-> runs] >>

Reply(len) ==
  /\ open
  /\ Len(SelectSeq(wire, LAMBDA w : w.kind = Text)) < MaxReplies
  /\ wire' = wire \o Written(Text,
       << [frame |-> 0, part |-> "reply", from |-> 0, n |-> len, clear |-> TRUE] >>)
  /\ UNCHANGED <<stream, sent, parserVars, buffer, received, open>>

-----------------------------------------------------------------------------
(* libwebsocket_rx_sm.                                                     *)

Goto(state, left) == rx' = [state |-> state, left |-> left]

Takes(state) ==
  /\ open
  /\ stream # << >>
  /\ rx.state = state

\* The next byte, where one of a header or a key is expected.
c == Head(stream).value
OneByte == stream' = Tail(stream)

\* LWS_RXPS_NEW and handle_first; the nonce is all zero until a key comes.
FirstByte ==
  /\ Takes("NEW")
  /\ OneByte
  /\ opcode' = c % 16
  /\ nonce' = <<0, 0, 0, 0>>
  /\ Goto("HDR_LEN", 0)
  /\ UNCHANGED <<sent, masked, length, maskIndex, buffer, received, wire, open>>

\* Where the bytes of the length have come.
AfterLength(isMasked) ==
  IF isMasked THEN Goto("KEY", 4) ELSE Goto("PAYLOAD", 0)

LengthByte ==
  /\ Takes("HDR_LEN")
  /\ OneByte
  /\ masked' = (c >= 128)
  /\ LET len7 == c % 128 IN
       \/ /\ len7 < 126
          /\ length' = len7
          /\ AfterLength(masked')
          /\ UNCHANGED open
       \/ /\ len7 >= 126 /\ opcode < 8
          /\ length' = 0
          /\ Goto("LEN", IF len7 = 126 THEN 2 ELSE 8)
          /\ UNCHANGED open
       \/ /\ len7 >= 126 /\ opcode >= 8
          /\ open' = FALSE
          /\ UNCHANGED <<rx, length>>
  /\ UNCHANGED <<sent, opcode, nonce, maskIndex, buffer, received, wire>>

\* LEN16_2 and LEN16_1, or LEN64_8 to LEN64_1, the first of them below 128.
ExtendedLength ==
  /\ Takes("LEN")
  /\ OneByte
  /\ IF rx.left = 8 /\ c >= 128
       THEN open' = FALSE /\ UNCHANGED <<rx, length>>
       ELSE /\ length' = 256 * length + c
            /\ IF rx.left > 1 THEN Goto("LEN", rx.left - 1) ELSE AfterLength(masked)
            /\ UNCHANGED open
  /\ UNCHANGED <<sent, opcode, masked, nonce, maskIndex, buffer, received, wire>>

\* Mutant: the mask goes on where the last frame left it.
KeyByteNoReset ==
  /\ Takes("KEY")
  /\ OneByte
  /\ nonce' = [nonce EXCEPT ![5 - rx.left] = c]
  /\ IF rx.left > 1 THEN Goto("KEY", rx.left - 1) ELSE Goto("PAYLOAD", 0)
  /\ UNCHANGED <<sent, opcode, masked, length, maskIndex, buffer, received, wire, open>>

KeyByte ==
  /\ Takes("KEY")
  /\ OneByte
  /\ nonce' = [nonce EXCEPT ![5 - rx.left] = c]
  /\ IF rx.left > 1
       THEN Goto("KEY", rx.left - 1) /\ UNCHANGED maskIndex
       ELSE Goto("PAYLOAD", 0) /\ maskIndex' = 0
  /\ UNCHANGED <<sent, opcode, masked, length, buffer, received, wire, open>>

AllZero == nonce = <<0, 0, 0, 0>>

\* The bytes come out right if what is xored with them is what the browser has.
Clear(run) ==
  run.part = "payload" =>
    LET key == sent[run.frame].key IN
    IF key = << >> \/ key = <<0, 0, 0, 0>> THEN AllZero
    ELSE nonce = key /\ maskIndex = run.from % 4

Taken(run, n) ==
  [frame |-> run.frame, part |-> run.part, from |-> run.from, n |-> n,
   clear |-> Clear(run)]

\* A run behind the runs in the buffer, joined with the last where it goes on.
Put(runs, run) ==
  IF runs = << >> THEN << run >>
  ELSE LET before == Last(runs) IN
       IF before = [run EXCEPT !.from = before.from, !.n = before.n]
          /\ before.part = "payload" /\ before.from + before.n = run.from
         THEN Append(Front(runs), [before EXCEPT !.n = @ + run.n])
         ELSE Append(runs, run)

LeastOf(S) == CHOOSE n \in S : \A m \in S : n <= m

\* --rx_packet_length of 0 is the largest size_t.
ToEnd == IF length = 0 THEN SizeMax + 1 ELSE length
Room == MaxRx - Total(buffer)
Most == LeastOf({Head(stream).n, ToEnd, Room})

Counts ==
  CASE stream = << >> -> {}
    [] stream # << >> /\ Head(stream).from = 0 -> {1, Most}
    [] OTHER -> {Most}

\* What is left of the stream, the length and the mask when n bytes were taken.
Consume(n) ==
  /\ stream' = IF n = Head(stream).n THEN Tail(stream)
               ELSE [stream EXCEPT ![1] = [Head(stream) EXCEPT !.from = @ + n, !.n = @ - n]]
  /\ length' = ToEnd - n
  /\ maskIndex' = IF AllZero THEN maskIndex ELSE (maskIndex + n) % 4
  /\ IF n = ToEnd THEN Goto("NEW", 0) ELSE UNCHANGED rx
  /\ UNCHANGED <<sent, opcode, masked, nonce>>

Filled(n) == Put(buffer, Taken(Head(stream), n))

\* Mutant: only the end of a frame empties the buffer.
SpillsAtEnd(n) == n = ToEnd

\* Mutant: the end of a frame does not go to "spill".
SpillsWhenFull(n) == n = Room

Spills(n) == n = ToEnd \/ n = Room

PayloadBytes(n) ==
  /\ Takes("PAYLOAD")
  /\ ~Spills(n)
  /\ Consume(n)
  /\ buffer' = Filled(n)
  /\ UNCHANGED <<received, wire, open>>

\* spill: the end of the frame, or a full buffer.
Spilling(n, opcodes) ==
  /\ Takes("PAYLOAD")
  /\ Spills(n)
  /\ opcode \in opcodes
  /\ Consume(n)
  /\ buffer' = << >>

SpillClose(n) ==
  /\ Spilling(n, {Close})
  /\ wire' = wire \o Written(Close, Filled(n))
  /\ open' = FALSE
  /\ UNCHANGED received

SpillPing(n) ==
  /\ Spilling(n, {Ping})
  /\ wire' = wire \o Written(Pong, Filled(n))
  /\ UNCHANGED <<received, open>>

SpillData(n) ==
  /\ Spilling(n, {1, 2})
  /\ received' = Append(received, Filled(n))
  /\ UNCHANGED <<wire, open>>

\* A pong, or "Unhandled extended opcode ... ignoring frame".
SpillOther(n) ==
  /\ Spilling(n, 0..15 \ {1, 2, Close, Ping})
  /\ UNCHANGED <<received, wire, open>>

-----------------------------------------------------------------------------
BrowserSends(f) ==
  /\ Len(sent) < MaxFrames
  /\ sent' = Append(sent, f)
  /\ stream' = stream \o Encode(Len(sent'), f)
  /\ UNCHANGED <<parserVars, buffer, received, wire, open>>

Rx ==
  \/ FirstByte \/ LengthByte \/ ExtendedLength \/ KeyByte
  \/ \E n \in Counts :
       PayloadBytes(n) \/ SpillClose(n) \/ SpillPing(n) \/ SpillData(n) \/ SpillOther(n)

Next ==
  \/ Rx
  \/ \E f \in Frames : BrowserSends(f)
  \/ \E len \in Replies : Reply(len)

Spec == Init /\ [][Next]_vars

\* The websocket thread reads what has arrived.
FairSpec == Spec /\ WF_vars(Rx)

-----------------------------------------------------------------------------
(* Correctness.                                                            *)

Runs ==
  [frame : 0..MaxFrames, part : {"header", "payload", "reply"}, from : Nat,
   n : Nat \ {0}, clear : BOOLEAN]

\* The values of the variables; the buffer is never full between two bytes, a
\* size_t never leaves its range, and what is written has a header of at most
\* LWS_SEND_BUFFER_PRE_PADDING bytes.
TypeOK ==
  /\ sent \in Seq(Frames) /\ Len(sent) <= MaxFrames
  /\ stream \in Seq([frame : 1..MaxFrames, part : {"header", "payload"}, from : Nat,
                     n : Nat \ {0}, value : 0..255])
  /\ rx.state \in {"NEW", "HDR_LEN", "LEN", "KEY", "PAYLOAD"} /\ rx.left \in 0..8
  /\ opcode \in 0..15 /\ masked \in BOOLEAN /\ length \in 0..SizeMax
  /\ nonce \in [1..4 -> 0..255] /\ maskIndex \in 0..3
  /\ buffer \in Seq(Runs) /\ Total(buffer) < MaxRx
  /\ received \in Seq(Seq(Runs))
  /\ \A w \in ToSet(wire) :
       w.kind \in {Text, Close, Pong} /\ w.payload \in Seq(Runs) /\ Len(w.header) <= 14
  /\ open \in BOOLEAN

\* The frames whose bytes were taken, and how much of the next one was passed on.
Read == IF stream = << >> THEN Len(sent) ELSE Head(stream).frame - 1

Passed ==
  IF received = << >> THEN 0
  ELSE LET last == Last(Last(received)) IN
       IF last.frame = Read + 1 THEN last.from + last.n ELSE 0

\* The payloads of what was written, but for the texts.
Answered(frames) ==
  LET upto[k \in 0..Len(frames)] ==
        IF k = 0 THEN << >>
        ELSE IF frames[k].kind = Text THEN upto[k - 1]
        ELSE Append(upto[k - 1], frames[k].payload)
  IN upto[Len(frames)]

Answers == Answered(wire)

Reader == INSTANCE FrameReader WITH
  read <- Read, passed <- Passed, answers <- Answers

\* No frame up to the one being read is without a payload.  At the end of such a
\* frame the machine does not stop: it takes the next bytes of the stream for its
\* payload, SizeMax + 1 of them (parsers.c:718), and no longer reads frames.
NoneEmpty == \A i \in 1..(Read + 1) : i <= Len(sent) => sent[i].len > 0

\* A frame that goes on with a message is read to its end and dropped, because the
\* machine's switch of opcodes does not know it (parsers.c:772).
SkipsContinuation ==
  /\ Read < Len(sent)
  /\ sent[Read + 1].opcode = 0
  /\ Read' = Read + 1
  /\ UNCHANGED <<sent, Passed, received, Answers, open>>

\* parsers.c:432: "We pass payload through to userland as soon as we get it,
\* ignoring FIN.  It's up to userland to buffer it up if it wants to see a whole
\* unfragmented block": byte by byte, whatever comes between, the machine reads
\* each frame once, whole, in order and unmasked, and answers pings and the close
\* with their own payloads, up to the first empty frame; and the only frames
\* with something to pass on that it does not are continuations.
ReadsFrames ==
  Reader!Init /\ [][NoneEmpty => Reader!Next \/ SkipsContinuation]_(Reader!vars)

\* A browser reads in the header of every frame written the kind and the length
\* that was meant, at the limits of the three forms of a length, too.
WireIsFramed ==
  \A w \in ToSet(wire) :
    Decode(w.header) =
      [fin |-> TRUE, opcode |-> w.kind, masked |-> FALSE, len |-> Total(w.payload)]

\* How much of a frame callback_command has got, unmasked.
PassedOn(i) ==
  LET ofFrame(piece) ==
        SelectSeq(piece, LAMBDA run : run.frame = i /\ run.part = "payload" /\ run.clear)
      upto[k \in 0..Len(received)] ==
        IF k = 0 THEN 0 ELSE upto[k - 1] + Total(ofFrame(received[k]))
  IN upto[Len(received)]

\* A frame that goes by without the connection ending or the reader losing count.
Harmless(f) == f.len > 0 /\ f.opcode # Close /\ (f.opcode > 7 => f.len <= 125)

\* All of a text reaches callback_command in the end, without another byte having
\* to come: no rest of a frame stays in rx_user_buffer (parsers.c:718, :722),
\* whatever pongs, pings, continuations and other texts came before and come
\* behind, masked or not.
EventuallyPassedOn ==
  \A i \in 1..MaxFrames :
    (Len(sent) >= i /\ sent[i].opcode \in {1, 2} /\ \A j \in 1..i : Harmless(sent[j]))
      ~> (Len(sent) >= i /\ PassedOn(i) = sent[i].len)

=============================================================================
