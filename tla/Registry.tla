----------------------------- MODULE Registry ------------------------------
(***************************************************************************)
(* What headcrab's table of bindings promises the application in           *)
(* headcrab.h and in the comments and logs of headcrab_dispatch.c: a map   *)
(* from names to handlers in the order they were bound.  A command calls   *)
(* the handlers of its verb in that order, once each, those bound while it *)
(* runs included; each is its preOp, its op and its postOp, of which any   *)
(* may be absent.  The op is called on the object of its binding           *)
(* (headcrab.h:97, "the object that will be manipulated by the function"), *)
(* until the name is rebound (headcrab.h:125, "change the object memory    *)
(* binding").  Clearing a name removes its handlers (headcrab.h:117,       *)
(* "clear all verb bindings for an object").  Nothing of it crashes.       *)
(*                                                                         *)
(* There is one thread, but the functions called may themselves bind and   *)
(* execute: the commands being executed form a stack.                      *)
(***************************************************************************)
EXTENDS Integers, SequencesExt

CONSTANTS
  Ids,       \* one for each binding the application makes
  Names,     \* of objects
  Global,    \* "", the name of the global namespace, always there
  Verbs,
  Targets,   \* the objects
  Hooks      \* the functions a binding may give: subsets of {"pre", "op", "post"}

VARIABLES
  handlers,  \* per name: its handlers, oldest first, each with the target it was
             \* bound with and the object that its op is called on
  runs,      \* the commands being executed, innermost last, each with the place
             \* of the handler it called last
  crashed    \* the process has left defined behaviour: never

registryVars == <<handlers, runs, crashed>>

Init ==
  /\ handlers = [n \in Names |-> << >>]
  /\ runs = << >>
  /\ crashed = FALSE

Top == Last(runs)
Current == handlers[Top.name][Top.last]

\* The handlers of its verb that the command has yet to call.
Due == {k \in DOMAIN handlers[Top.name] :
          k > Top.last /\ handlers[Top.name][k].verb = Top.verb}

\* Application code runs outside any command, or in a function that one calls.
Inside == Top.inside # "none" /\ (Top.inside = "op" => "op" \in Current.hooks)
Caller == runs # << >> => Inside

Bind(id, name, verb, target, hooks) ==
  /\ Caller
  /\ handlers' = [handlers EXCEPT ![name] =
       Append(@, [id |-> id, verb |-> verb, target |-> target, object |-> target,
                  hooks |-> hooks])]
  /\ UNCHANGED <<runs, crashed>>

\* The object becomes inaccessible; the global namespace is no object.  What
\* clearing does to a command of the object that is being executed is not said.
Clear(name) ==
  /\ Caller
  /\ name # Global
  /\ \A i \in DOMAIN runs : runs[i].name # name
  /\ handlers' = [handlers EXCEPT ![name] = << >>]
  /\ UNCHANGED <<runs, crashed>>

\* The node of the name, if there is one, uses the new object; else nothing.
Rebind(name, target) ==
  /\ Caller
  /\ handlers' = [handlers EXCEPT ![name] =
       [k \in DOMAIN handlers[name] |-> [handlers[name][k] EXCEPT !.object = target]]]
  /\ UNCHANGED <<runs, crashed>>

Execute(name, verb) ==
  /\ Caller
  /\ runs' = Append(runs, [name |-> name, verb |-> verb, last |-> 0,
                           inside |-> "none"])
  /\ UNCHANGED <<handlers, crashed>>

Running == runs # << >>
Replace(run) == Append(Front(runs), run)

\* The next handler's first function is called.
Call ==
  /\ Running
  /\ Top.inside = "none"
  /\ \E k \in Due :
       /\ \A l \in Due : k <= l
       /\ runs' = Replace([Top EXCEPT !.last = k, !.inside =
            IF "pre" \in handlers[Top.name][k].hooks THEN "pre" ELSE "op"])
  /\ UNCHANGED <<handlers, crashed>>

PreReturns ==
  /\ Running
  /\ Top.inside = "pre"
  /\ runs' = Replace([Top EXCEPT !.inside = "op"])
  /\ UNCHANGED <<handlers, crashed>>

OpReturns ==
  /\ Running
  /\ Top.inside = "op" /\ "op" \in Current.hooks
  /\ runs' = Replace([Top EXCEPT
       !.inside = IF "post" \in Current.hooks THEN "post" ELSE "none"])
  /\ UNCHANGED <<handlers, crashed>>

\* "No op handle exists!" is logged, and the command goes on.
OpAbsent ==
  /\ Running
  /\ Top.inside = "op" /\ "op" \notin Current.hooks
  /\ runs' = Replace([Top EXCEPT
       !.inside = IF "post" \in Current.hooks THEN "post" ELSE "none"])
  /\ UNCHANGED <<handlers, crashed>>

PostReturns ==
  /\ Running
  /\ Top.inside = "post"
  /\ runs' = Replace([Top EXCEPT !.inside = "none"])
  /\ UNCHANGED <<handlers, crashed>>

\* Only when no handler is left is the command done.
Done ==
  /\ Running
  /\ Top.inside = "none"
  /\ Due = {}
  /\ runs' = Front(runs)
  /\ UNCHANGED <<handlers, crashed>>

Next ==
  \/ \E id \in Ids, name \in Names, verb \in Verbs, target \in Targets,
        hooks \in Hooks : Bind(id, name, verb, target, hooks)
  \/ \E name \in Names : Clear(name)
  \/ \E name \in Names, target \in Targets : Rebind(name, target)
  \/ \E name \in Names, verb \in Verbs : Execute(name, verb)
  \/ Call \/ PreReturns \/ OpReturns \/ OpAbsent \/ PostReturns \/ Done

Spec == Init /\ [][Next]_registryVars

=============================================================================
