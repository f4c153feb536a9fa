----------------------------- MODULE MCInbound -----------------------------
(* Instances of Inbound: which texts the browser sends.                      *)
EXTENDS Inbound

EveryText == AllTexts
NullOrCommand == {"command", "garbage"}
=============================================================================
