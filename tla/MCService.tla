----------------------------- MODULE MCService ------------------------------
(* Instances of Service: pages and scripts to fetch, a handshake as         *)
(* headcrab.js makes it, and one for a protocol nobody serves.              *)
EXTENDS Service

CONSTANTS c1, c2, c3, listener

ThreeConns == {c1, c2, c3}

Icon == << "/favicon.ico", "Host", "end" >>
Command == << "/", "Host", "Upgrade", "command", "end" >>
Chat == << "/", "Upgrade", "chat", "end" >>

\* One browser fetches, is refused, or becomes a websocket; two are mute and come
\* and go.
EachItsOwn ==
  [c \in ThreeConns |-> IF c = c1 THEN {Icon, Command, Chat} ELSE {}]
=============================================================================
