--------------------------- MODULE DispatchTable ---------------------------
(***************************************************************************)
(* headcrab_dispatch.c and the functions of headcrab.c that call it: the   *)
(* list of object nodes, each with its list of handlers, and the commands  *)
(* executed on it.                                                         *)
(*                                                                         *)
(* Everything runs in the application thread, but the functions that a     *)
(* command calls are the application's and may call headcrab again: bind,  *)
(* clear, rebind, or handle further commands.  The list being walked may   *)
(* change under the walk, and walks nest.                                  *)
(*                                                                         *)
(* The lists are linked in the order in which they grow, so a node is its  *)
(* index in `nodes' and a handler its index in its node; a step ends       *)
(* wherever the application's code gets control.  malloc does not fail.    *)
(***************************************************************************)
EXTENDS Integers, FiniteSets, SequencesExt

CONSTANTS
  Names, Global, Verbs, Targets, Hooks,   \* as in Registry
  NULL,          \* the object of the global name's node
  Clearable,     \* the names the application clears
  Rebindable,    \* the names it rebinds
  MaxBinds,      \* how many bindings it makes
  MaxExecutes,   \* how many commands it executes
  MaxDepth       \* how deep commands nest

ASSUME DispatchAssumption ==
  /\ Global \in Names
  /\ NULL \in Targets
  /\ Hooks \subseteq SUBSET {"pre", "op", "post"}
  /\ Clearable \subseteq Names
  /\ Rebindable \subseteq Names
  /\ MaxBinds \in Nat /\ MaxExecutes \in Nat /\ MaxDepth \in Nat

VARIABLES
  nodes,      \* dispatch_table
  stack,      \* the activations of dispatch_table_execute, innermost last
  binds,      \* how many bindings have been made
  executes,   \* how many commands have been executed
  open,       \* per binding: its preOps that returned, less its postOps
  status      \* of the process: running or fault

vars == <<nodes, stack, binds, executes, open, status>>

Ids == 1..MaxBinds

\* dispatch_table_init: the node of the global namespace.
Init ==
  /\ nodes = << [name |-> Global, object |-> NULL, handlers |-> << >>] >>
  /\ stack = << >>
  /\ binds = 0
  /\ executes = 0
  /\ open = [id \in Ids |-> 0]
  /\ status = "running"

Alive == status = "running"

Found(name) == {i \in DOMAIN nodes : nodes[i].name = name}
Bound(name) == Found(name) # {}
find_node(name) == CHOOSE i \in Found(name) : \A j \in Found(name) : i <= j

Top == Last(stack)
Handlers == nodes[Top.node].handlers
Handler == Handlers[Top.next]

\* Application code has control: outside any command or in a function called.
Inside == Top.at # "match" /\ (Top.at = "op" => "op" \in Handler.hooks)
Caller == Alive /\ (stack # << >> => Inside)

-----------------------------------------------------------------------------
(* What the application calls.                                             *)

\* Mutant: a node is added for each binding.
BindAnew(name, verb, target, hooks) ==
  LET h == [id |-> binds + 1, verb |-> verb, target |-> target, hooks |-> hooks]
  IN
  /\ Caller
  /\ binds < MaxBinds
  /\ binds' = binds + 1
  /\ nodes' = Append(nodes, [name |-> name, object |-> target, handlers |-> << h >>])
  /\ UNCHANGED <<stack, executes, open, status>>

\* Mutant: the new handler is put in front of the list.
BindFirst(name, verb, target, hooks) ==
  LET h == [id |-> binds + 1, verb |-> verb, target |-> target, hooks |-> hooks]
  IN
  /\ Caller
  /\ binds < MaxBinds
  /\ binds' = binds + 1
  /\ nodes' = IF Bound(name)
       THEN [nodes EXCEPT ![find_node(name)].handlers = << h >> \o @]
       ELSE Append(nodes, [name |-> name, object |-> target, handlers |-> << h >>])
  /\ UNCHANGED <<stack, executes, open, status>>

\* headcrab_bind_object (a NULL verb returns at once) and dispatch_table_add:
\* add_or_find_node, then node_add_handler.
Bind(name, verb, target, hooks) ==
  LET h == [id |-> binds + 1, verb |-> verb, target |-> target, hooks |-> hooks]
  IN
  /\ Caller
  /\ binds < MaxBinds
  /\ binds' = binds + 1
  /\ nodes' = IF Bound(name)
       THEN [nodes EXCEPT ![find_node(name)].handlers = Append(@, h)]
       ELSE Append(nodes, [name |-> name, object |-> target, handlers |-> << h >>])
  /\ UNCHANGED <<stack, executes, open, status>>

\* headcrab_clear_all_object_bindings: nothing for the global name, and
\* dispatch_table_remove stores through prev_node, which it never sets.
Clear(name) ==
  /\ Caller
  /\ status' = IF name # Global /\ Bound(name) THEN "fault" ELSE status
  /\ UNCHANGED <<nodes, stack, binds, executes, open>>

\* headcrab_rebind_object: dispatch_table_rebind compares the first node, then
\* moves the pointer past it, and past the memory it points to.
Rebind(name, target) ==
  /\ Caller
  /\ nodes' = IF nodes[1].name = name
                THEN [nodes EXCEPT ![1].object = target] ELSE nodes
  /\ status' = "fault"
  /\ UNCHANGED <<stack, binds, executes, open>>

\* Mutant: an unknown target is not noticed.
ExecuteUnchecked(name, verb) ==
  /\ Caller
  /\ executes < MaxExecutes
  /\ Len(stack) < MaxDepth
  /\ executes' = executes + 1
  /\ stack' = Append(stack, [node |-> IF Bound(name) THEN find_node(name) ELSE 0,
                             verb |-> verb, next |-> 1,
                             at |-> IF Bound(name) THEN "match" ELSE "pre",
                             called |-> << >>])
  /\ UNCHANGED <<nodes, binds, open, status>>

\* dispatch_table_execute, called by dispatch: nothing for an unknown target.
Execute(name, verb) ==
  /\ Caller
  /\ executes < MaxExecutes
  /\ Len(stack) < MaxDepth
  /\ executes' = executes + 1
  /\ stack' = IF Bound(name)
       THEN Append(stack, [node |-> find_node(name), verb |-> verb, next |-> 1,
                           at |-> "match", called |-> << >>])
       ELSE stack
  /\ UNCHANGED <<nodes, binds, open, status>>

-----------------------------------------------------------------------------
(* The loop of dispatch_table_execute.                                     *)

Replace(frame) == Append(Front(stack), frame)
GoOn(frame) == [frame EXCEPT !.next = @ + 1, !.at = "match"]

At(place) == Alive /\ stack # << >> /\ Top.at = place

\* The handler is compared; its preOp, or else its op, is called.  A NULL op is
\* logged, and called all the same.
Match ==
  /\ At("match")
  /\ Top.next <= Len(Handlers)
  /\ stack' = Replace(
       IF Handler.verb # Top.verb
         THEN GoOn(Top)
         ELSE [Top EXCEPT !.called = Append(@, Handler.id),
                          !.at = IF "pre" \in Handler.hooks THEN "pre" ELSE "op"])
  /\ UNCHANGED <<nodes, binds, executes, open, status>>

PreReturns ==
  /\ At("pre")
  /\ open' = [open EXCEPT ![Handler.id] = @ + 1]
  /\ stack' = Replace([Top EXCEPT !.at = "op"])
  /\ UNCHANGED <<nodes, binds, executes, status>>

\* Mutant: the postOp is forgotten.
OpReturnsForGood ==
  /\ At("op")
  /\ \/ /\ "op" \notin Handler.hooks
        /\ status' = "fault"
        /\ UNCHANGED stack
     \/ /\ "op" \in Handler.hooks
        /\ stack' = Replace(GoOn(Top))
        /\ UNCHANGED status
  /\ UNCHANGED <<nodes, binds, executes, open>>

OpReturns ==
  /\ At("op")
  /\ \/ /\ "op" \notin Handler.hooks
        /\ status' = "fault"
        /\ UNCHANGED stack
     \/ /\ "op" \in Handler.hooks
        /\ stack' = Replace(IF "post" \in Handler.hooks
                              THEN [Top EXCEPT !.at = "post"] ELSE GoOn(Top))
        /\ UNCHANGED status
  /\ UNCHANGED <<nodes, binds, executes, open>>

PostReturns ==
  /\ At("post")
  /\ open' = [open EXCEPT ![Handler.id] = @ - 1]
  /\ stack' = Replace(GoOn(Top))
  /\ UNCHANGED <<nodes, binds, executes, status>>

\* Mutant: the loop ends at the first handler of the verb.
ReturnEarly ==
  /\ At("match")
  /\ Top.next > Len(Handlers) \/ Top.called # << >>
  /\ stack' = Front(stack)
  /\ UNCHANGED <<nodes, binds, executes, open, status>>

Return ==
  /\ At("match")
  /\ Top.next > Len(Handlers)
  /\ stack' = Front(stack)
  /\ UNCHANGED <<nodes, binds, executes, open, status>>

Next ==
  \/ \E name \in Names, verb \in Verbs, target \in Targets, hooks \in Hooks :
       Bind(name, verb, target, hooks)
  \/ \E name \in Clearable : Clear(name)
  \/ \E name \in Rebindable, target \in Targets : Rebind(name, target)
  \/ \E name \in Names, verb \in Verbs : Execute(name, verb)
  \/ Match \/ PreReturns \/ OpReturns \/ PostReturns \/ Return

Spec == Init /\ [][Next]_vars

-----------------------------------------------------------------------------
(* Correctness.                                                            *)

Binding == [id : Ids, verb : Verbs, target : Targets, hooks : Hooks]

\* The shapes of the table, of the stack and of the counters.
TypeOK ==
  /\ nodes \in Seq([name : Names, object : Targets, handlers : Seq(Binding)])
  /\ stack \in Seq([node : 1..Len(nodes), verb : Verbs, next : 1..(MaxBinds + 1),
                    at : {"match", "pre", "op", "post"}, called : Seq(Ids)])
  /\ Len(stack) <= MaxDepth
  /\ binds \in 0..MaxBinds
  /\ executes \in 0..MaxExecutes
  /\ open \in [Ids -> Int]
  /\ status \in {"running", "fault"}

\* The global node is the first, no name has two nodes, and every binding made
\* is in exactly one of them: a command finds all the handlers of its target,
\* whatever the functions that were called in the meantime have bound.
FirstIsGlobal == nodes[1].name = Global
NamesAreUnique ==
  \A i, j \in DOMAIN nodes : nodes[i].name = nodes[j].name => i = j
Id(i, k) == nodes[i].handlers[k].id
BindingsAreKept ==
  \A id \in 1..binds :
    \E i \in DOMAIN nodes : \E k \in DOMAIN nodes[i].handlers : Id(i, k) = id
BindingsAreUnique ==
  \A i, j \in DOMAIN nodes :
    \A k \in DOMAIN nodes[i].handlers, l \in DOMAIN nodes[j].handlers :
      Id(i, k) = Id(j, l) => i = j /\ k = l
TableInv ==
  FirstIsGlobal /\ NamesAreUnique /\ BindingsAreKept /\ BindingsAreUnique

InBracket(frame) == frame.at \in {"op", "post"}
HandlerOf(frame) == nodes[frame.node].handlers[frame.next]

\* A binding with a preOp and a postOp (to take and release a mutex, say) has
\* as many of the first done without the second as it has calls in progress:
\* none is left open by a command that calls several handlers or nests.
PreAndPostPair ==
  \A i \in DOMAIN nodes : \A k \in DOMAIN nodes[i].handlers :
    LET h == nodes[i].handlers[k] IN
      {"pre", "post"} \subseteq h.hooks =>
        open[h.id] = Cardinality({f \in DOMAIN stack :
                        stack[f].node = i /\ stack[f].next = k /\ InBracket(stack[f])})

\* The handlers of its verb that a command has passed, or is in.
Passed(frame) == IF frame.at = "match" THEN frame.next - 1 ELSE frame.next
PassedOfVerb(frame) ==
  {k \in 1..Passed(frame) : nodes[frame.node].handlers[k].verb = frame.verb}

\* Whenever a command moves on, it has called the handlers of its verb that it
\* has passed, each once and in the order they were bound: when it returns it
\* has passed them all, also those that its own handlers have bound.
CallsWhatItPassed(frame) ==
  LET IsCall(j, k) == frame.called[j] = Id(frame.node, k) IN
  /\ \A k \in PassedOfVerb(frame) : \E j \in DOMAIN frame.called : IsCall(j, k)
  /\ \A j \in DOMAIN frame.called : \E k \in PassedOfVerb(frame) : IsCall(j, k)
  /\ \A j, l \in DOMAIN frame.called : \A k, m \in PassedOfVerb(frame) :
       IsCall(j, k) /\ IsCall(l, m) /\ j < l => k < m
PassedAreCalled == \A f \in DOMAIN stack : CallsWhatItPassed(stack[f])

\* The place of the handler that a command called last.
LastCalled(frame) ==
  IF frame.called = << >> THEN 0
  ELSE CHOOSE k \in DOMAIN nodes[frame.node].handlers :
         Id(frame.node, k) = Last(frame.called)

RunOf(frame) ==
  [name |-> nodes[frame.node].name, verb |-> frame.verb, last |-> LastCalled(frame),
   inside |-> IF frame.at = "match" THEN "none" ELSE frame.at]

\* A node's handlers, each with the object its op is called on: the node's.
OnObject(node) ==
  [k \in DOMAIN node.handlers |-> LET h == node.handlers[k] IN
     [id |-> h.id, verb |-> h.verb, target |-> h.target, object |-> node.object,
      hooks |-> h.hooks]]

\* The list as the map from names to handlers.
handlersOf ==
  [n \in Names |-> IF Bound(n) THEN OnObject(nodes[find_node(n)]) ELSE << >>]
runsOf == [f \in DOMAIN stack |-> RunOf(stack[f])]

Reg == INSTANCE Registry WITH
  handlers <- handlersOf, runs <- runsOf, crashed <- status = "fault"

\* Every handler's op is called on the object it was bound with: the list keeps
\* the object of a name's first binding (add_or_find_node), NULL for the global
\* name, and drops those of the others.
OneObject ==
  \A i \in DOMAIN nodes : \A k \in DOMAIN nodes[i].handlers :
    nodes[i].handlers[k].target = nodes[i].object

\* The calls that end the process where headcrab.h promises an effect: clearing
\* a name that is bound, rebinding, and a command that reaches a binding without
\* an op.
ClearsBound == \E name \in Names \ {Global} : Bound(name) /\ Clear(name)
Rebinds == \E name \in Names, target \in Targets : Rebind(name, target)
CallsAbsentOp == At("op") /\ "op" \notin Handler.hooks /\ OpReturns
Crashes == status' = "fault" /\ (ClearsBound \/ Rebinds \/ CallsAbsentOp)

\* As long as no name is given a second object, the list keeps headcrab.h's
\* promise, the map from names to handlers, but for three calls that crash:
\* every other call, and every return of the walks, nested and over lists that
\* grow under them, is a step of the map or none, and calls the op on the object
\* that its binding gave.
Implements ==
  Reg!Init /\ [][OneObject' => Reg!Next \/ Crashes]_(Reg!registryVars)

=============================================================================
