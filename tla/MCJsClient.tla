----------------------------- MODULE MCJsClient -----------------------------
(* Instances of JsClient: a page that connects again, loses messages and has *)
(* callbacks that throw; pages that connect once and lose messages, which    *)
(* may be repeated; and one whose connection stays open and whose every      *)
(* command is answered, once or twice.                                       *)
EXTENDS JsClient

RoughToSteady ==
  { [connects |-> 2, issues |-> 2, replies |-> 1, lossy |-> TRUE, throws |-> TRUE],
    [connects |-> 1, issues |-> 3, replies |-> 1, lossy |-> TRUE, throws |-> FALSE],
    [connects |-> 1, issues |-> 2, replies |-> 2, lossy |-> TRUE, throws |-> FALSE],
    [connects |-> 1, issues |-> 3, replies |-> 2, lossy |-> FALSE, throws |-> FALSE] }
=============================================================================
