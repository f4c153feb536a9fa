----------------------------- MODULE MCFraming ------------------------------
(* An instance of Framing, with the lengths at which something changes: one   *)
(* byte, the three forms of a length, and a full buffer of 4096 bytes.        *)
EXTENDS Framing

Key == <<7, 0, 255, 128>>
ZeroKey == <<0, 0, 0, 0>>
NoKey == << >>

Frame(op, len, key) == [opcode |-> op, fin |-> TRUE, len |-> len, key |-> key]

Whole ==
  { Frame(1, 1, Key), Frame(1, 125, NoKey), Frame(2, 126, ZeroKey), Frame(1, 4096, Key),
    Frame(1, 4098, Key), Frame(1, 65536, Key), Frame(3, 2, Key),
    Frame(9, 2, Key), Frame(9, 125, NoKey), Frame(9, 126, Key), Frame(10, 4, Key),
    Frame(8, 2, Key) }

\* A text in two frames, and frames with no payload.
Fragments == { [Frame(1, 3, Key) EXCEPT !.fin = FALSE], Frame(0, 3, Key) }
Empties == { Frame(8, 0, Key), Frame(1, 0, Key), Frame(9, 0, NoKey) }

Browsers == Whole \cup Fragments \cup Empties

Lengths == {126, 65536}
=============================================================================
