---------------------------- MODULE MCLifecycle -----------------------------
(* Instances of Lifecycle: the listening socket, that of each of the two     *)
(* protocols, and the connections, with consecutive descriptors.             *)
EXTENDS Lifecycle

CONSTANTS c1, c2, c3, c4, listener, http, command

OneConn == {c1}
FourConns == {c1, c2, c3, c4}
TwoProxies == {http, command}

Descriptor ==
  listener :> 3 @@ http :> 4 @@ command :> 5 @@ c1 :> 6 @@ c2 :> 7 @@ c3 :> 8 @@ c4 :> 9

\* Connections share buckets with headcrab's own sockets and with each other, or
\* every socket has its own.
SharedBucket == [s \in Sockets |-> Descriptor[s] % 2]
OwnBucket == [s \in Sockets |-> Descriptor[s] % 6]
=============================================================================
