----------------------------- MODULE MCHeadcrab -----------------------------
(* Instances of Headcrab: a page that connects again and loses messages, some *)
(* that fill the queues, and some whose connection stays open and that issue *)
(* no more than fits in them.                                                *)
EXTENDS Headcrab

Pages ==
  { [connects |-> 2, issues |-> 2, replies |-> 1, lossy |-> TRUE, throws |-> TRUE],
    [connects |-> 1, issues |-> 3, replies |-> 1, lossy |-> TRUE, throws |-> FALSE],
    [connects |-> 1, issues |-> 2, replies |-> 2, lossy |-> TRUE, throws |-> FALSE],
    [connects |-> 1, issues |-> 2, replies |-> 1, lossy |-> FALSE, throws |-> FALSE],
    [connects |-> 1, issues |-> 1, replies |-> 2, lossy |-> FALSE, throws |-> FALSE] }
=============================================================================
