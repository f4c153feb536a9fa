-------------------------- MODULE MCDispatchTable ---------------------------
(* An instance of DispatchTable: the global namespace and one named object,  *)
(* bound by an application that clears, rebinds, omits functions and gives   *)
(* the name two objects, as examples/boids/src/simulate.c:243 and :247 do.   *)
EXTENDS DispatchTable

CONSTANTS global, flock, getall, pause, boids, null

TwoNames == {global, flock}
TwoVerbs == {getall, pause}
TwoTargets == {boids, null}
Flock == {flock}

\* The bindings of boids/src/simulate.c: all three functions, and a preOp alone;
\* and an op alone, as in u_s/unnamed_scientist.c.
AllHooks == {{"pre", "op", "post"}, {"op"}, {"pre"}}
=============================================================================
