------------------------ MODULE DispatchTableProofs ------------------------
(***************************************************************************)
(* Proofs about DispatchTable for every set of names, verbs, objects and   *)
(* functions and every bound: the table a command walks holds every        *)
(* binding made, once, in the one node of its name; the calls that are in  *)
(* progress agree with the counts of preOps and postOps; a command has     *)
(* called what it has passed; and the table implements Registry.           *)
(***************************************************************************)
EXTENDS DispatchTable, SequencesExt, SequenceTheorems, FiniteSetTheorems, TLAPS

-----------------------------------------------------------------------------
(* Sequences.                                                              *)

\* The last element is removed, and the others keep their places.
LEMMA FrontElements ==
  ASSUME NEW S, NEW s \in Seq(S), s # << >>
  PROVE  /\ Front(s) \in Seq(S)
         /\ Len(s) \in Nat \ {0} /\ Len(Front(s)) = Len(s) - 1
         /\ DOMAIN s = 1..Len(s) /\ DOMAIN Front(s) = 1..(Len(s) - 1)
         /\ \A f \in 1..(Len(s) - 1) : Front(s)[f] = s[f]
<1> DEFINE n == Len(s)
           front == SubSeq(s, 1, n - 1)
<1>1. n \in Nat \ {0} /\ DOMAIN s = 1..n /\ \A f \in 1..(n - 1) : s[f] \in S
  BY LenProperties, EmptySeq, ElementOfSeq
<1>2. /\ front \in Seq(S) /\ Len(front) = n - 1
      /\ \A f \in 1..(n - 1) : front[f] = s[f]
  <2> HIDE DEF n
  <2>1. /\ front \in Seq(S)
        /\ Len(front) = IF 1 <= n - 1 THEN (n - 1) - 1 + 1 ELSE 0
        /\ \A f \in 1..((n - 1) - 1 + 1) : front[f] = s[1 + f - 1]
    BY <1>1, SubSeqProperties
  <2> HIDE DEF front
  <2>2. (n - 1) - 1 + 1 = n - 1 /\ (~(1 <= n - 1) => n - 1 = 0)
    BY <1>1
  <2>3. \A f \in 1..(n - 1) : 1 + f - 1 = f
    OBVIOUS
  <2> QED BY <1>1, <2>1, <2>2, <2>3
<1>3. Front(s) = front
  BY DEF Front
<1> HIDE DEF front
<1>4. DOMAIN front = 1..(n - 1)
  BY <1>2, LenProperties
<1> QED BY <1>1, <1>2, <1>3, <1>4

\* The last element is replaced, and the others stay.
LEMMA ReplaceFacts ==
  ASSUME NEW S, NEW s \in Seq(S), s # << >>, NEW frame \in S
  PROVE  LET new == Append(Front(s), frame) IN
           /\ new \in Seq(S) /\ Len(new) = Len(s) /\ DOMAIN new = DOMAIN s
           /\ \A f \in DOMAIN s : new[f] = IF f = Len(s) THEN frame ELSE s[f]
<1> DEFINE n == Len(s)
           front == Front(s)
           new == Append(front, frame)
<1>1. n \in Nat \ {0} /\ DOMAIN s = 1..n
  BY FrontElements
<1>2. /\ front \in Seq(S) /\ Len(front) = n - 1
      /\ \A f \in 1..(n - 1) : front[f] = s[f]
  BY FrontElements
<1> HIDE DEF front
<1>3. /\ new \in Seq(S)
      /\ Len(new) = (n - 1) + 1
      /\ DOMAIN new = 1..((n - 1) + 1)
      /\ \A f \in 1..(n - 1) : new[f] = front[f]
      /\ new[(n - 1) + 1] = frame
  BY <1>2, AppendProperties, LenProperties
<1> HIDE DEF n, new
<1>4. (n - 1) + 1 = n
  BY <1>1
<1>5. ASSUME NEW f \in 1..n
      PROVE  new[f] = IF f = n THEN frame ELSE s[f]
  <2>1. CASE f = n
    BY <1>3, <1>4, <2>1
  <2>2. CASE f # n
    <3>1. f \in 1..(n - 1)
      BY <1>1, <2>2
    <3> QED BY <1>2, <1>3, <2>2, <3>1
  <2> QED BY <2>1, <2>2
<1>6. Append(Front(s), frame) = new
  BY DEF front, new
<1> QED BY <1>1, <1>3, <1>4, <1>5, <1>6 DEF n

\* The sequence of the images of a sequence's elements.
ImageOf(g, s) == [i \in DOMAIN s |-> g[s[i]]]

LEMMA ImageOfSeq ==
  ASSUME NEW g, NEW s \in Seq(DOMAIN g)
  PROVE  /\ ImageOf(g, s) \in Seq(Range(g))
         /\ Len(ImageOf(g, s)) = Len(s) /\ DOMAIN ImageOf(g, s) = DOMAIN s
         /\ s = << >> => ImageOf(g, s) = << >>
         /\ s # << >> => /\ ImageOf(g, s) # << >>
                         /\ Last(ImageOf(g, s)) = g[Last(s)]
<1> DEFINE n == Len(s)
           image == ImageOf(g, s)
<1>1. n \in Nat /\ DOMAIN s = 1..n /\ \A i \in 1..n : s[i] \in DOMAIN g
  BY LenProperties, ElementOfSeq
<1> HIDE DEF n
<1>2. /\ image \in Seq(Range(g)) /\ Len(image) = n /\ DOMAIN image = 1..n
      /\ \A i \in 1..n : image[i] = g[s[i]]
  <2>1. image \in [1..n -> Range(g)] /\ \A i \in 1..n : image[i] = g[s[i]]
    BY <1>1 DEF ImageOf, Range
  <2> HIDE DEF image
  <2>2. image \in Seq(Range(g))
    BY <1>1, <2>1, SeqDef
  <2>3. DOMAIN image = 1..n /\ DOMAIN image = 1..Len(image) /\ Len(image) \in Nat
    BY <2>1, <2>2, LenProperties
  <2>4. Len(image) = n
    BY <1>1, <2>3
  <2> QED BY <2>1, <2>2, <2>3, <2>4
<1> HIDE DEF image
<1>3. s = << >> <=> n = 0
  BY EmptySeq DEF n
<1>4. image = << >> <=> n = 0
  BY <1>2, EmptySeq
<1>5. s # << >> => Last(image) = g[Last(s)]
  <2>1. s # << >> => n \in 1..n
    BY <1>1, <1>3
  <2> QED BY <1>2, <2>1 DEF Last, n
<1> QED BY <1>1, <1>2, <1>3, <1>4, <1>5 DEF image, n

LEMMA ImageOfAppend ==
  ASSUME NEW g, NEW s \in Seq(DOMAIN g), NEW e \in DOMAIN g
  PROVE  ImageOf(g, Append(s, e)) = Append(ImageOf(g, s), g[e])
<1> DEFINE n == Len(s)
           longer == Append(s, e)
           image == ImageOf(g, s)
           new == ImageOf(g, longer)
<1>1. /\ longer \in Seq(DOMAIN g) /\ n \in Nat /\ DOMAIN longer = 1..(n + 1)
      /\ \A i \in 1..n : longer[i] = s[i]
      /\ longer[n + 1] = e /\ DOMAIN s = 1..n /\ Len(longer) = n + 1
  BY AppendProperties, LenProperties
<1>2. /\ image \in Seq(Range(g)) /\ Len(image) = n /\ DOMAIN image = DOMAIN s
  BY ImageOfSeq
<1> HIDE DEF longer, n
<1>3. /\ new \in Seq(Range(g)) /\ Len(new) = n + 1
  BY <1>1, ImageOfSeq
<1>4. g[e] \in Range(g)
  BY DEF Range
<1>5. \A i \in 1..n : image[i] = g[s[i]]
  BY <1>1 DEF ImageOf
<1>6. \A i \in 1..(n + 1) : new[i] = g[longer[i]]
  BY <1>1 DEF ImageOf
<1> HIDE DEF image, new
<1>7. /\ Append(image, g[e]) \in Seq(Range(g)) /\ Len(Append(image, g[e])) = n + 1
      /\ \A i \in 1..n : Append(image, g[e])[i] = image[i]
      /\ Append(image, g[e])[n + 1] = g[e]
  BY <1>2, <1>4, AppendProperties, LenProperties
<1>8. \A i \in 1..(n + 1) : new[i] = Append(image, g[e])[i]
  <2>1. \A i \in 1..(n + 1) : i \in 1..n \/ i = n + 1
    BY <1>1
  <2> QED BY <1>1, <1>5, <1>6, <1>7, <2>1
<1>9. new = Append(image, g[e])
  BY <1>3, <1>7, <1>8, SeqEqual
<1> QED BY <1>9 DEF new, longer, image

LEMMA ImageOfFront ==
  ASSUME NEW g, NEW s \in Seq(DOMAIN g), s # << >>
  PROVE  ImageOf(g, Front(s)) = Front(ImageOf(g, s))
<1> DEFINE n == Len(s)
           front == Front(s)
           image == ImageOf(g, s)
           new == ImageOf(g, front)
<1>1. /\ front \in Seq(DOMAIN g) /\ n \in Nat \ {0} /\ DOMAIN front = 1..(n - 1)
      /\ \A i \in 1..(n - 1) : front[i] = s[i]
      /\ DOMAIN s = 1..n /\ Len(front) = n - 1
  BY FrontElements
<1>2. /\ image \in Seq(Range(g)) /\ Len(image) = n /\ DOMAIN image = DOMAIN s /\ image # << >>
  BY ImageOfSeq
<1> HIDE DEF front, n
<1>3. /\ new \in Seq(Range(g)) /\ Len(new) = n - 1
  BY <1>1, ImageOfSeq
<1>4. \A i \in 1..n : image[i] = g[s[i]]
  BY <1>1 DEF ImageOf
<1>5. \A i \in 1..(n - 1) : new[i] = g[front[i]]
  BY <1>1 DEF ImageOf
<1> HIDE DEF image, new
<1>6. /\ Front(image) \in Seq(Range(g)) /\ Len(Front(image)) = n - 1
      /\ \A i \in 1..(n - 1) : Front(image)[i] = image[i]
  BY <1>2, FrontElements
<1>7. \A i \in 1..(n - 1) : new[i] = Front(image)[i]
  <2>1. \A i \in 1..(n - 1) : i \in 1..n
    BY <1>1
  <2> QED BY <1>1, <1>4, <1>5, <1>6, <2>1
<1>8. new = Front(image)
  BY <1>3, <1>6, <1>7, SeqEqual
<1> QED BY <1>8 DEF new, front, image

-----------------------------------------------------------------------------

Node == [name : Names, object : Targets, handlers : Seq(Binding)]

\* The types TableInv is about, and that a binding's id is one already given.
NodesOK == nodes \in Seq(Node)
BindsOK == binds \in 0..MaxBinds
IdsAreGiven ==
  \A i \in DOMAIN nodes : \A k \in DOMAIN nodes[i].handlers : Id(i, k) \in 1..binds

\* TableInv is inductive with these: the id of a new binding is fresh because
\* the counter has passed all the others, and the node found for a name is the
\* only one.
IInv == NodesOK /\ BindsOK /\ IdsAreGiven /\ Len(nodes) > 0 /\ TableInv

USE DispatchAssumption

\* The table with the global node alone is consistent.
LEMMA InitIInv == Init => IInv
<1> SUFFICES ASSUME Init PROVE IInv
  OBVIOUS
<1>1. nodes = << [name |-> Global, object |-> NULL, handlers |-> << >>] >> /\ binds = 0
  BY DEF Init
<1>2. [name |-> Global, object |-> NULL, handlers |-> << >>] \in Node
  BY DEF Node
<1>3. NodesOK /\ Len(nodes) = 1 /\ DOMAIN nodes = {1} /\ nodes[1].name = Global
  BY <1>1, <1>2 DEF NodesOK
<1>4. DOMAIN nodes[1].handlers = {}
  BY <1>1
<1>5. TableInv
  BY <1>1, <1>3, <1>4
     DEF TableInv, FirstIsGlobal, NamesAreUnique, BindingsAreKept, BindingsAreUnique
<1> QED BY <1>1, <1>3, <1>4, <1>5 DEF IInv, BindsOK, IdsAreGiven

\* The node found for a bound name is a node of that name, and the only one.
LEMMA FindNode ==
  ASSUME IInv, NEW name \in Names, Bound(name)
  PROVE  /\ find_node(name) \in DOMAIN nodes
         /\ nodes[find_node(name)].name = name
<1>1. PICK i \in DOMAIN nodes : nodes[i].name = name
  BY DEF Bound, Found
<1>2. i \in Nat
  BY DEF IInv, NodesOK
<1>3. Found(name) = {i}
  BY <1>1 DEF Found, IInv, TableInv, NamesAreUnique
<1>4. find_node(name) = i
  BY <1>2, <1>3 DEF find_node
<1> QED BY <1>1, <1>4

\* A step that leaves the names and the handlers of the nodes as they are, and
\* the number of bindings, keeps the table consistent.
LEMMA SameTable ==
  ASSUME IInv, NodesOK', binds' = binds,
         Len(nodes') = Len(nodes), DOMAIN nodes' = DOMAIN nodes,
         \A i \in DOMAIN nodes : /\ nodes'[i].name = nodes[i].name
                                 /\ nodes'[i].handlers = nodes[i].handlers
  PROVE  IInv'
<1>1. 1 \in DOMAIN nodes
  BY DEF IInv, NodesOK
<1>2. BindsOK' /\ Len(nodes)' > 0
  BY DEF IInv, BindsOK
<1>3. IdsAreGiven'
  BY DEF IInv, IdsAreGiven, Id
<1>4. (FirstIsGlobal /\ NamesAreUnique)'
  BY <1>1 DEF IInv, TableInv, FirstIsGlobal, NamesAreUnique
<1>5. BindingsAreKept'
  BY DEF IInv, TableInv, BindingsAreKept, Id
<1>6. BindingsAreUnique'
  BY DEF IInv, TableInv, BindingsAreUnique, Id
<1> QED BY <1>2, <1>3, <1>4, <1>5, <1>6 DEF IInv, TableInv

\* What binding a name that has a node does to the table: the handler is
\* appended to that node's.
LEMMA BindFoundTable ==
  ASSUME IInv, NEW name \in Names, NEW verb \in Verbs, NEW target \in Targets,
         NEW hooks \in Hooks, Bind(name, verb, target, hooks), Bound(name)
  PROVE  \E n \in DOMAIN nodes : \E h \in Binding : \E more \in Seq(Binding) :
           /\ binds \in Nat /\ binds' = binds + 1 /\ BindsOK' /\ h.id = binds'
           /\ Len(more) = Len(nodes[n].handlers) + 1
           /\ DOMAIN more = DOMAIN nodes[n].handlers \cup {Len(more)}
           /\ \A k \in DOMAIN nodes[n].handlers : more[k] = nodes[n].handlers[k]
           /\ more[Len(more)] = h /\ Len(more) \notin DOMAIN nodes[n].handlers
           /\ NodesOK' /\ Len(nodes') = Len(nodes) /\ DOMAIN nodes' = DOMAIN nodes
           /\ \A i \in DOMAIN nodes :
                /\ nodes'[i].name = nodes[i].name
                /\ nodes'[i].handlers = IF i = n THEN more ELSE nodes[i].handlers
<1> DEFINE h == [id |-> binds + 1, verb |-> verb, target |-> target, hooks |-> hooks]
           n == find_node(name)
           more == Append(nodes[n].handlers, h)
<1>1. n \in DOMAIN nodes /\ nodes[n].name = name
  BY FindNode
<1>2. binds \in Nat /\ binds' = binds + 1 /\ BindsOK'
  BY DEF Bind, IInv, BindsOK
<1>3. h \in Binding
  BY <1>2 DEF Binding, Ids, Bind, IInv, BindsOK
<1>4. nodes[n] \in Node /\ nodes[n].handlers \in Seq(Binding)
  <2>1. \A i \in DOMAIN nodes : nodes[i] \in Node
    BY DEF IInv, NodesOK
  <2>2. nodes[n] \in Node
    BY <1>1, <2>1
  <2> HIDE DEF n
  <2> QED BY <2>2 DEF Node
<1>5. more \in Seq(Binding) /\ Len(more) = Len(nodes[n].handlers) + 1
      /\ DOMAIN more = DOMAIN nodes[n].handlers \cup {Len(more)}
      /\ (\A k \in DOMAIN nodes[n].handlers : more[k] = nodes[n].handlers[k])
      /\ more[Len(more)] = h /\ Len(more) \notin DOMAIN nodes[n].handlers
  <2> HIDE DEF h
  <2>1. nodes[n].handlers \in Seq(Binding) /\ Len(nodes[n].handlers) \in Nat
    BY <1>4
  <2>2. more \in Seq(Binding) /\ Len(more) = Len(nodes[n].handlers) + 1
        /\ (\A k \in 1..Len(nodes[n].handlers) : more[k] = nodes[n].handlers[k])
        /\ more[Len(more)] = h
    BY <1>3, <2>1, AppendProperties
  <2> HIDE DEF n, more
  <2>3. DOMAIN nodes[n].handlers = 1..Len(nodes[n].handlers)
        /\ DOMAIN more = 1..Len(more)
    BY <2>1, <2>2
  <2> QED BY <2>1, <2>2, <2>3
<1>6. nodes' = [nodes EXCEPT ![n] = [@ EXCEPT !.handlers = more]]
  BY DEF Bind
<1> HIDE DEF more, n, h
<1>7. /\ NodesOK' /\ Len(nodes') = Len(nodes) /\ DOMAIN nodes' = DOMAIN nodes
      /\ \A i \in DOMAIN nodes :
           /\ nodes'[i].name = nodes[i].name
           /\ nodes'[i].handlers = IF i = n THEN more ELSE nodes[i].handlers
  <2>1. [nodes[n] EXCEPT !.handlers = more] \in Node
    BY <1>4, <1>5 DEF Node
  <2>2. [nodes[n] EXCEPT !.handlers = more].name = nodes[n].name
        /\ [nodes[n] EXCEPT !.handlers = more].handlers = more
    BY <1>4 DEF Node
  <2>3. nodes \in Seq(Node)
    BY DEF IInv, NodesOK
  <2> QED BY <1>1, <1>6, <2>1, <2>2, <2>3 DEF NodesOK
<1>8. h.id = binds'
  BY <1>2 DEF h
<1> QED BY <1>1, <1>2, <1>3, <1>5, <1>7, <1>8

\* A binding of a name that has a node is in its list, and nowhere else.
LEMMA BindFound ==
  ASSUME IInv, NEW name \in Names, NEW verb \in Verbs, NEW target \in Targets,
         NEW hooks \in Hooks, Bind(name, verb, target, hooks), Bound(name)
  PROVE  IInv'
<1>1. PICK n \in DOMAIN nodes, h \in Binding, more \in Seq(Binding) :
        /\ binds \in Nat /\ binds' = binds + 1 /\ BindsOK' /\ h.id = binds'
        /\ Len(more) = Len(nodes[n].handlers) + 1
        /\ DOMAIN more = DOMAIN nodes[n].handlers \cup {Len(more)}
        /\ \A k \in DOMAIN nodes[n].handlers : more[k] = nodes[n].handlers[k]
        /\ more[Len(more)] = h /\ Len(more) \notin DOMAIN nodes[n].handlers
        /\ NodesOK' /\ Len(nodes') = Len(nodes) /\ DOMAIN nodes' = DOMAIN nodes
        /\ \A i \in DOMAIN nodes :
             /\ nodes'[i].name = nodes[i].name
             /\ nodes'[i].handlers = IF i = n THEN more ELSE nodes[i].handlers
  BY BindFoundTable
<1>2. binds \in Nat /\ binds' = binds + 1 /\ BindsOK'
  BY <1>1
<1>5. /\ DOMAIN more = DOMAIN nodes[n].handlers \cup {Len(more)}
      /\ \A k \in DOMAIN nodes[n].handlers : more[k] = nodes[n].handlers[k]
      /\ more[Len(more)] = h /\ Len(more) \notin DOMAIN nodes[n].handlers
  BY <1>1
<1>7. /\ NodesOK' /\ Len(nodes') = Len(nodes) /\ DOMAIN nodes' = DOMAIN nodes
      /\ \A i \in DOMAIN nodes :
           /\ nodes'[i].name = nodes[i].name
           /\ nodes'[i].handlers = IF i = n THEN more ELSE nodes[i].handlers
  BY <1>1
<1>8. h.id = binds'
  BY <1>1
<1>9. IdsAreGiven'
  <2> SUFFICES ASSUME NEW i \in DOMAIN nodes', NEW k \in DOMAIN nodes'[i].handlers
               PROVE  nodes'[i].handlers[k].id \in 1..binds'
    BY DEF IdsAreGiven, Id
  <2>1. CASE i = n /\ k = Len(more)
    <3>1. nodes'[i].handlers[k] = h
      BY <1>5, <1>7, <2>1
    <3>2. binds' \in 1..binds'
      BY <1>2
    <3> QED BY <1>8, <3>1, <3>2
  <2>2. CASE ~(i = n /\ k = Len(more))
    <3>1. k \in DOMAIN nodes[i].handlers
          /\ nodes'[i].handlers[k] = nodes[i].handlers[k]
      BY <1>5, <1>7, <2>2
    <3> QED BY <1>2, <1>7, <3>1 DEF IInv, IdsAreGiven, Id
  <2> QED BY <2>1, <2>2
<1>10. (FirstIsGlobal /\ NamesAreUnique)' /\ Len(nodes)' > 0
  <2>1. 1 \in DOMAIN nodes
    BY DEF IInv, NodesOK
  <2> QED BY <1>7, <2>1 DEF IInv, TableInv, FirstIsGlobal, NamesAreUnique
<1>11. BindingsAreKept'
  <2> SUFFICES ASSUME NEW id \in 1..binds'
               PROVE  \E i \in DOMAIN nodes' : \E k \in DOMAIN nodes'[i].handlers :
                        nodes'[i].handlers[k].id = id
    BY DEF BindingsAreKept, Id
  <2>1. CASE id = binds'
    <3>1. n \in DOMAIN nodes' /\ Len(more) \in DOMAIN nodes'[n].handlers
      BY <1>5, <1>7
    <3>2. nodes'[n].handlers[Len(more)] = h
      BY <1>5, <1>7
    <3> QED BY <1>8, <2>1, <3>1, <3>2
  <2>2. CASE id # binds'
    <3>1. id \in 1..binds
      BY <1>2, <2>2
    <3>2. PICK i \in DOMAIN nodes : \E k \in DOMAIN nodes[i].handlers :
            nodes[i].handlers[k].id = id
      BY <3>1 DEF IInv, TableInv, BindingsAreKept, Id
    <3>3. PICK k \in DOMAIN nodes[i].handlers : nodes[i].handlers[k].id = id
      BY <3>2
    <3>4. k \in DOMAIN nodes'[i].handlers
          /\ nodes'[i].handlers[k] = nodes[i].handlers[k]
      BY <1>5, <1>7
    <3> QED BY <1>7, <3>3, <3>4
  <2> QED BY <2>1, <2>2
<1>12. BindingsAreUnique'
  <2> SUFFICES ASSUME NEW i \in DOMAIN nodes', NEW j \in DOMAIN nodes',
                      NEW k \in DOMAIN nodes'[i].handlers,
                      NEW l \in DOMAIN nodes'[j].handlers,
                      nodes'[i].handlers[k].id = nodes'[j].handlers[l].id
               PROVE  i = j /\ k = l
    BY DEF BindingsAreUnique, Id
  <2> DEFINE New(a, b) == a = n /\ b = Len(more)
  <2>1. \A a \in DOMAIN nodes' : \A b \in DOMAIN nodes'[a].handlers :
          ~New(a, b) => /\ b \in DOMAIN nodes[a].handlers
                        /\ nodes'[a].handlers[b] = nodes[a].handlers[b]
                        /\ nodes'[a].handlers[b].id \in 1..binds
    BY <1>5, <1>7 DEF IInv, IdsAreGiven, Id
  <2>2. \A a \in DOMAIN nodes' : \A b \in DOMAIN nodes'[a].handlers :
          New(a, b) => nodes'[a].handlers[b].id = binds + 1
    BY <1>2, <1>5, <1>7, <1>8
  <2>3. CASE New(i, k) /\ New(j, l)
    BY <2>3
  <2>4. CASE ~New(i, k) /\ ~New(j, l)
    BY <1>7, <2>1, <2>4 DEF IInv, TableInv, BindingsAreUnique, Id
  <2> HIDE DEF New
  <2>5. CASE New(i, k) /\ ~New(j, l)
    BY <1>2, <2>1, <2>2, <2>5
  <2>6. CASE ~New(i, k) /\ New(j, l)
    BY <1>2, <2>1, <2>2, <2>6
  <2> QED BY <2>3, <2>4, <2>5, <2>6
<1> QED BY <1>2, <1>7, <1>9, <1>10, <1>11, <1>12 DEF IInv, TableInv

\* What binding a new name does to the table: a node of its own at the end of
\* the list.
LEMMA BindNewTable ==
  ASSUME IInv, NEW name \in Names, NEW verb \in Verbs, NEW target \in Targets,
         NEW hooks \in Hooks, Bind(name, verb, target, hooks), ~Bound(name)
  PROVE  LET n == Len(nodes) + 1 IN
           /\ binds \in Nat /\ binds' = binds + 1 /\ BindsOK'
           /\ NodesOK' /\ Len(nodes') = n /\ DOMAIN nodes' = DOMAIN nodes \cup {n}
           /\ n \notin DOMAIN nodes /\ \A i \in DOMAIN nodes : nodes'[i] = nodes[i]
           /\ DOMAIN nodes'[n].handlers = {1} /\ nodes'[n].handlers[1].id = binds + 1
           /\ nodes'[n].name = name
<1> DEFINE h == [id |-> binds + 1, verb |-> verb, target |-> target, hooks |-> hooks]
           node == [name |-> name, object |-> target, handlers |-> << h >>]
           n == Len(nodes) + 1
<1>1. binds \in Nat /\ binds' = binds + 1 /\ BindsOK'
  BY DEF Bind, IInv, BindsOK
<1>2. h \in Binding /\ h.id = binds'
  BY <1>1 DEF Binding, Ids, Bind, IInv, BindsOK
<1>3. nodes' = Append(nodes, node)
  BY DEF Bind
<1> HIDE DEF h
<1>4. node \in Node /\ node.name = name /\ node.handlers = << h >>
  BY <1>2 DEF Node
<1> HIDE DEF node
<1>5. /\ NodesOK' /\ Len(nodes') = n /\ DOMAIN nodes' = DOMAIN nodes \cup {n}
      /\ n \notin DOMAIN nodes /\ nodes'[n] = node
      /\ \A i \in DOMAIN nodes : nodes'[i] = nodes[i]
  BY <1>3, <1>4 DEF IInv, NodesOK
<1>6. DOMAIN nodes'[n].handlers = {1} /\ nodes'[n].handlers[1].id = binds + 1
      /\ nodes'[n].name = name
  BY <1>1, <1>2, <1>4, <1>5
<1> QED BY <1>1, <1>5, <1>6

\* A binding of a new name is in its node alone.
LEMMA BindNew ==
  ASSUME IInv, NEW name \in Names, NEW verb \in Verbs, NEW target \in Targets,
         NEW hooks \in Hooks, Bind(name, verb, target, hooks), ~Bound(name)
  PROVE  IInv'
<1> DEFINE n == Len(nodes) + 1
<1>1. binds \in Nat /\ binds' = binds + 1 /\ BindsOK'
  BY BindNewTable
<1>5. /\ NodesOK' /\ Len(nodes') = n /\ DOMAIN nodes' = DOMAIN nodes \cup {n}
      /\ n \notin DOMAIN nodes
      /\ \A i \in DOMAIN nodes : nodes'[i] = nodes[i]
  BY BindNewTable
<1>6. DOMAIN nodes'[n].handlers = {1} /\ nodes'[n].handlers[1].id = binds + 1
      /\ nodes'[n].name = name
  BY BindNewTable
<1>7. 1 \in DOMAIN nodes /\ n > 0
  BY DEF IInv, NodesOK
<1> HIDE DEF n
<1>8. IdsAreGiven'
  <2> SUFFICES ASSUME NEW i \in DOMAIN nodes', NEW k \in DOMAIN nodes'[i].handlers
               PROVE  nodes'[i].handlers[k].id \in 1..binds'
    BY DEF IdsAreGiven, Id
  <2>1. CASE i = n
    BY <1>1, <1>6, <2>1
  <2>2. CASE i # n
    BY <1>1, <1>5, <2>2 DEF IInv, IdsAreGiven, Id
  <2> QED BY <2>1, <2>2
<1>9. (FirstIsGlobal /\ NamesAreUnique)'
  <2>1. \A i \in DOMAIN nodes : nodes[i].name # name
    BY DEF Bound, Found
  <2> QED BY <1>5, <1>6, <1>7, <2>1 DEF IInv, TableInv, FirstIsGlobal, NamesAreUnique
<1>10. BindingsAreKept'
  <2> SUFFICES ASSUME NEW id \in 1..binds'
               PROVE  \E i \in DOMAIN nodes' : \E k \in DOMAIN nodes'[i].handlers :
                        nodes'[i].handlers[k].id = id
    BY DEF BindingsAreKept, Id
  <2>1. CASE id = binds + 1
    BY <1>5, <1>6, <2>1
  <2>2. CASE id # binds + 1
    <3>1. id \in 1..binds
      BY <1>1, <2>2
    <3> QED BY <1>5, <3>1 DEF IInv, TableInv, BindingsAreKept, Id
  <2> QED BY <2>1, <2>2
<1>11. BindingsAreUnique'
  <2> SUFFICES ASSUME NEW i \in DOMAIN nodes', NEW j \in DOMAIN nodes',
                      NEW k \in DOMAIN nodes'[i].handlers,
                      NEW l \in DOMAIN nodes'[j].handlers,
                      nodes'[i].handlers[k].id = nodes'[j].handlers[l].id
               PROVE  i = j /\ k = l
    BY DEF BindingsAreUnique, Id
  <2>1. \A a \in DOMAIN nodes : \A b \in DOMAIN nodes[a].handlers :
          nodes[a].handlers[b].id \in 1..binds
    BY DEF IInv, IdsAreGiven, Id
  <2>2. CASE i = n /\ j = n
    BY <1>6, <2>2
  <2>3. CASE i # n /\ j # n
    BY <1>5, <2>3 DEF IInv, TableInv, BindingsAreUnique, Id
  <2>4. CASE (i = n) # (j = n)
    BY <1>1, <1>5, <1>6, <2>1, <2>4
  <2> QED BY <2>2, <2>3, <2>4
<1> QED BY <1>1, <1>5, <1>7, <1>8, <1>9, <1>10, <1>11 DEF IInv, TableInv

\* Rebinding replaces an object at most: names and handlers stay.
LEMMA RebindKeeps ==
  ASSUME IInv, NEW name \in Names, NEW target \in Targets, Rebind(name, target)
  PROVE  IInv'
<1>1. nodes \in Seq(Node) /\ 1 \in DOMAIN nodes /\ nodes[1] \in Node
  BY DEF IInv, NodesOK
<1>2. CASE nodes[1].name = name
  <2> DEFINE node == [nodes[1] EXCEPT !.object = target]
  <2>1. nodes' = [nodes EXCEPT ![1] = node]
    BY <1>2 DEF Rebind
  <2>2. node \in Node /\ node.name = nodes[1].name /\ node.handlers = nodes[1].handlers
    BY <1>1 DEF Node
  <2> HIDE DEF node
  <2>3. /\ NodesOK' /\ Len(nodes') = Len(nodes) /\ DOMAIN nodes' = DOMAIN nodes
        /\ \A i \in DOMAIN nodes : /\ nodes'[i].name = nodes[i].name
                                   /\ nodes'[i].handlers = nodes[i].handlers
    BY <1>1, <2>1, <2>2 DEF NodesOK
  <2>4. binds' = binds
    BY DEF Rebind
  <2> QED BY <2>3, <2>4, SameTable
<1>3. CASE nodes[1].name # name
  <2>1. nodes' = nodes /\ binds' = binds
    BY <1>3 DEF Rebind
  <2> QED BY <1>1, <2>1, SameTable DEF NodesOK
<1> QED BY <1>2, <1>3

\* No step of the application or of a command makes the table inconsistent.
LEMMA NextIInv == IInv /\ [Next]_vars => IInv'
<1> SUFFICES ASSUME IInv, [Next]_vars PROVE IInv'
  OBVIOUS
<1>1. CASE \E name \in Names, verb \in Verbs, target \in Targets, hooks \in Hooks :
             Bind(name, verb, target, hooks)
  BY <1>1, BindFound, BindNew
<1>2. CASE \E name \in Rebindable, target \in Targets : Rebind(name, target)
  BY <1>2, RebindKeeps
<1>3. CASE nodes' = nodes /\ binds' = binds
  BY <1>3, SameTable DEF IInv, NodesOK
<1>4. CASE \E name \in Clearable : Clear(name)
  BY <1>3, <1>4 DEF Clear
<1>5. CASE \E name \in Names, verb \in Verbs : Execute(name, verb)
  BY <1>3, <1>5 DEF Execute
<1>6. CASE Match \/ PreReturns \/ OpReturns \/ PostReturns \/ Return
  BY <1>3, <1>6 DEF Match, PreReturns, OpReturns, PostReturns, Return
<1>7. CASE UNCHANGED vars
  BY <1>3, <1>7 DEF vars
<1> QED BY <1>1, <1>2, <1>4, <1>5, <1>6, <1>7 DEF Next

\* In every reachable state of every instance the global node comes first, no
\* name has two nodes, and each binding made is in exactly one place: a
\* command finds all the handlers of its target in the node it looks up.
THEOREM TableConsistent == Spec => []TableInv
<1>1. IInv => TableInv
  BY DEF IInv
<1> QED BY <1>1, InitIInv, NextIInv, PTL DEF Spec

-----------------------------------------------------------------------------
(* The calls in progress.                                                  *)

Places == {"match", "pre", "op", "post"}
Frame == [node : Nat, verb : Verbs, next : Nat \ {0}, at : Places, called : Seq(Ids)]

\* An activation is at a handler of its node, or past the last one.
Placed(frame) ==
  /\ frame.node \in DOMAIN nodes
  /\ frame.next <= Len(nodes[frame.node].handlers) + 1
  /\ frame.at # "match" => frame.next \in DOMAIN nodes[frame.node].handlers

StackOK == stack \in Seq(Frame) /\ \A f \in DOMAIN stack : Placed(stack[f])

\* A binding that is not made yet has called nothing.
OpenOK ==
  /\ open \in [Ids -> Int]
  /\ \A id \in Ids : id > binds => open[id] = 0

CountersOK ==
  /\ Len(stack) <= MaxDepth
  /\ executes \in 0..MaxExecutes
  /\ status \in {"running", "fault"}

\* PreAndPostPair is inductive with these: an activation inside a call is at a
\* handler, a handler is at one place, and no new one is where a call is.
CallsInv == StackOK /\ OpenOK /\ CountersOK /\ PreAndPostPair

\* The activations that are between the preOp and the postOp of handler k of
\* node i.
InProgress(i, k) ==
  {f \in DOMAIN stack :
     stack[f].node = i /\ stack[f].next = k /\ InBracket(stack[f])}

Paired(i, k) == {"pre", "post"} \subseteq nodes[i].handlers[k].hooks

\* A handler and its id have their types.
LEMMA HandlerFacts ==
  ASSUME IInv, NEW i \in DOMAIN nodes
  PROVE  /\ i \in Nat \ {0} /\ nodes[i].name \in Names /\ nodes[i].object \in Targets
         /\ nodes[i].handlers \in Seq(Binding)
         /\ Len(nodes[i].handlers) \in Nat
         /\ DOMAIN nodes[i].handlers = 1..Len(nodes[i].handlers)
         /\ \A k \in DOMAIN nodes[i].handlers :
              /\ nodes[i].handlers[k] \in Binding /\ k \in Nat \ {0}
              /\ Id(i, k) \in Ids /\ Id(i, k) \in 1..binds
<1>1. nodes[i] \in Node /\ i \in Nat \ {0}
  BY LenProperties, ElementOfSeq DEF IInv, NodesOK
<1>2. /\ nodes[i].name \in Names /\ nodes[i].object \in Targets
      /\ nodes[i].handlers \in Seq(Binding)
  BY <1>1 DEF Node
<1>3. /\ Len(nodes[i].handlers) \in Nat
      /\ DOMAIN nodes[i].handlers = 1..Len(nodes[i].handlers)
      /\ \A k \in 1..Len(nodes[i].handlers) : nodes[i].handlers[k] \in Binding
  BY <1>2, LenProperties, ElementOfSeq
<1>4. \A k \in DOMAIN nodes[i].handlers : Id(i, k) \in Ids
  BY <1>3 DEF Binding, Id
<1>5. \A k \in DOMAIN nodes[i].handlers : Id(i, k) \in 1..binds
  BY DEF IInv, IdsAreGiven
<1> QED BY <1>1, <1>2, <1>3, <1>4, <1>5

\* The innermost activation, and the handler it is at.
LEMMA TopFacts ==
  ASSUME IInv, CallsInv, stack # << >>
  PROVE  /\ Len(stack) \in Nat \ {0} /\ DOMAIN stack = 1..Len(stack)
         /\ Top = stack[Len(stack)] /\ Top \in Frame /\ Placed(Top)
         /\ Len(Handlers) \in Nat /\ DOMAIN Handlers = 1..Len(Handlers)
         /\ Top.next \in Nat \ {0}
         /\ Top.next <= Len(Handlers) =>
              /\ Top.next \in DOMAIN Handlers /\ Handler \in Binding
              /\ Handler.id = Id(Top.node, Top.next) /\ Handler.id \in Ids
<1>1. /\ Len(stack) \in Nat \ {0} /\ DOMAIN stack = 1..Len(stack)
      /\ Len(stack) \in DOMAIN stack /\ stack[Len(stack)] \in Frame
  BY LenProperties, EmptySeq, ElementOfSeq DEF CallsInv, StackOK
<1>2. Top = stack[Len(stack)]
  BY DEF Top, Last
<1>3. Top \in Frame /\ Placed(Top)
  BY <1>1, <1>2 DEF CallsInv, StackOK
<1>4. Top.node \in DOMAIN nodes /\ Top.next \in Nat \ {0}
  BY <1>3 DEF Frame, Placed
<1>5. /\ Len(Handlers) \in Nat /\ DOMAIN Handlers = 1..Len(Handlers)
      /\ \A k \in DOMAIN Handlers : Handlers[k] \in Binding /\ Id(Top.node, k) \in Ids
  BY <1>4, HandlerFacts DEF Handlers
<1>6. ASSUME Top.next <= Len(Handlers)
      PROVE  /\ Top.next \in DOMAIN Handlers /\ Handler \in Binding
             /\ Handler.id = Id(Top.node, Top.next) /\ Handler.id \in Ids
  BY <1>4, <1>5, <1>6 DEF Handler, Handlers, Id
<1> QED BY <1>1, <1>2, <1>3, <1>4, <1>5, <1>6

\* Fewer than all activations are in progress at one handler.
LEMMA InProgressIsFinite ==
  ASSUME CallsInv, NEW i, NEW k
  PROVE  IsFiniteSet(InProgress(i, k)) /\ Cardinality(InProgress(i, k)) \in Nat
<1>1. Len(stack) \in Nat /\ DOMAIN stack = 1..Len(stack)
  BY LenProperties DEF CallsInv, StackOK
<1>2. IsFiniteSet(1..Len(stack))
  BY <1>1, FS_Interval
<1>3. InProgress(i, k) \subseteq 1..Len(stack)
  BY <1>1 DEF InProgress
<1> HIDE DEF InProgress
<1> QED BY <1>2, <1>3, FS_Subset, FS_CardinalityType

\* PreAndPostPair in these words.
LEMMA PairsMeans ==
  PreAndPostPair <=>
    \A i \in DOMAIN nodes : \A k \in DOMAIN nodes[i].handlers :
      Paired(i, k) => open[Id(i, k)] = Cardinality(InProgress(i, k))
BY DEF PreAndPostPair, Paired, Id, InProgress

\* What a step of the innermost activation does to the calls in progress.
LEMMA TopMoves ==
  ASSUME IInv, CallsInv, stack # << >>, NEW frame \in Frame, Placed(frame),
         frame.node = Top.node, stack' = Replace(frame), nodes' = nodes
  PROVE  /\ StackOK' /\ Len(stack') = Len(stack)
         /\ \A i, k :
              /\ Len(stack) \in InProgress(i, k) <=>
                   Top.node = i /\ Top.next = k /\ InBracket(Top)
              /\ InProgress(i, k)' =
                   IF Top.node = i /\ frame.next = k /\ InBracket(frame)
                     THEN InProgress(i, k) \cup {Len(stack)}
                     ELSE InProgress(i, k) \ {Len(stack)}
<1> DEFINE n == Len(stack)
<1>1. /\ n \in Nat \ {0} /\ DOMAIN stack = 1..n /\ n \in DOMAIN stack
      /\ Top = stack[n]
  BY TopFacts
<1>2. stack \in Seq(Frame) /\ \A f \in DOMAIN stack : Placed(stack[f])
  BY DEF CallsInv, StackOK
<1>3. /\ stack' \in Seq(Frame) /\ Len(stack') = n /\ DOMAIN stack' = DOMAIN stack
      /\ \A f \in DOMAIN stack : stack'[f] = IF f = n THEN frame ELSE stack[f]
  BY <1>2, ReplaceFacts DEF Replace
<1> HIDE DEF n
<1>4. StackOK'
  <2>1. \A f \in DOMAIN stack' : Placed(stack'[f])
    BY <1>2, <1>3
  <2>2. \A f : Placed(stack'[f]) => Placed(stack[f])'
    BY DEF Placed
  <2> QED BY <1>3, <2>1, <2>2 DEF StackOK
<1>5. ASSUME NEW i, NEW k
      PROVE  /\ n \in InProgress(i, k) <=> Top.node = i /\ Top.next = k /\ InBracket(Top)
             /\ InProgress(i, k)' = IF Top.node = i /\ frame.next = k /\ InBracket(frame)
                                      THEN InProgress(i, k) \cup {n}
                                      ELSE InProgress(i, k) \ {n}
  <2>1. n \in InProgress(i, k) <=> Top.node = i /\ Top.next = k /\ InBracket(Top)
    BY <1>1 DEF InProgress
  <2>2. n \in InProgress(i, k)' <=> Top.node = i /\ frame.next = k /\ InBracket(frame)
    BY <1>1, <1>3 DEF InProgress, InBracket
  <2>3. \A f : f # n => (f \in InProgress(i, k)' <=> f \in InProgress(i, k))
    BY <1>3 DEF InProgress, InBracket
  <2> HIDE DEF InProgress
  <2> QED BY <2>1, <2>2, <2>3
<1> QED BY <1>3, <1>4, <1>5 DEF n

\* A step of the innermost activation keeps calls and counts together, if it
\* enters and leaves a pair of preOp and postOp as it counts.
LEMMA MoveKeeps ==
  ASSUME IInv, CallsInv, stack # << >>, NEW frame \in Frame, Placed(frame),
         frame.node = Top.node, frame.next # Top.next => frame.at = "match",
         stack' = Replace(frame), UNCHANGED <<nodes, binds, executes, status>>,
         \/ open' = open /\ (InBracket(Top) <=> InBracket(frame))
         \/ /\ Top.next <= Len(Handlers)
            /\ \/ open' = open /\ ~({"pre", "post"} \subseteq Handler.hooks)
               \/ /\ open' = [open EXCEPT ![Handler.id] = @ + 1]
                  /\ ~InBracket(Top) /\ InBracket(frame)
               \/ /\ open' = [open EXCEPT ![Handler.id] = @ - 1]
                  /\ InBracket(Top) /\ ~InBracket(frame)
  PROVE  CallsInv'
<1> DEFINE n == Len(stack)
<1>1. /\ StackOK' /\ Len(stack') = n
      /\ \A i, k :
           /\ n \in InProgress(i, k) <=> Top.node = i /\ Top.next = k /\ InBracket(Top)
           /\ InProgress(i, k)' = IF Top.node = i /\ frame.next = k /\ InBracket(frame)
                                    THEN InProgress(i, k) \cup {n}
                                    ELSE InProgress(i, k) \ {n}
  BY TopMoves
<1>2. /\ Top.node \in DOMAIN nodes
      /\ Top.next <= Len(Handlers) =>
           /\ Top.next \in DOMAIN nodes[Top.node].handlers
           /\ Handler = nodes[Top.node].handlers[Top.next]
           /\ Handler.id = Id(Top.node, Top.next) /\ Handler.id \in Ids
           /\ Handler.id \in 1..binds
  <2>1. Top.node \in DOMAIN nodes
    BY TopFacts DEF Placed
  <2>2. ASSUME Top.next <= Len(Handlers)
        PROVE  /\ Top.next \in DOMAIN Handlers
               /\ Handler.id = Id(Top.node, Top.next) /\ Handler.id \in Ids
    BY <2>2, TopFacts
  <2>3. \A k \in DOMAIN nodes[Top.node].handlers : Id(Top.node, k) \in 1..binds
    BY <2>1 DEF IInv, IdsAreGiven
  <2>4. Handlers = nodes[Top.node].handlers /\ Handler = Handlers[Top.next]
    BY DEF Handler, Handlers
  <2>5. ASSUME Top.next <= Len(Handlers)
        PROVE  /\ Top.next \in DOMAIN nodes[Top.node].handlers
               /\ Handler = nodes[Top.node].handlers[Top.next]
    BY <2>2, <2>4, <2>5
  <2>6. ASSUME Top.next <= Len(Handlers)
        PROVE  Handler.id \in 1..binds
    <3>1. Handler.id = Id(Top.node, Top.next)
      BY <2>2, <2>6
    <3>2. Id(Top.node, Top.next) \in 1..binds
      BY <2>3, <2>5, <2>6
    <3> QED BY <3>1, <3>2
  <2> QED BY <2>1, <2>2, <2>5, <2>6
<1>3. open \in [Ids -> Int] /\ \A id \in Ids : id > binds => open[id] = 0
  BY DEF CallsInv, OpenOK
<1>4. CountersOK'
  BY <1>1 DEF CallsInv, CountersOK
<1>5. InBracket(frame) => frame.next = Top.next
  BY DEF InBracket
<1> DEFINE Changes(x) == Top.next <= Len(Handlers) /\ open' = [open EXCEPT ![Handler.id] = @ + x]
<1>6. open' = open \/ Changes(1) \/ Changes(-1)
  <2>1. open' = [open EXCEPT ![Handler.id] = @ - 1] =>
          open' = [open EXCEPT ![Handler.id] = @ + (-1)] \/ ~(Top.next <= Len(Handlers))
    BY <1>2, <1>3
  <2> QED BY <2>1
<1>7. OpenOK'
  <2>1. CASE open' = open
    BY <1>3, <2>1 DEF OpenOK
  <2>2. ASSUME NEW x \in {1, -1}, Changes(x)
        PROVE  OpenOK'
    <3>1. /\ open' \in [Ids -> Int]
          /\ \A id \in Ids : id # Handler.id => open'[id] = open[id]
      BY <1>2, <1>3, <2>2
    <3>2. binds \in Nat
      BY DEF IInv, BindsOK
    <3>3. ~(Handler.id > binds)
      BY <1>2, <2>2, <3>2
    <3> QED BY <1>3, <3>1, <3>3 DEF OpenOK
  <2> QED BY <1>6, <2>1, <2>2
<1>8. ASSUME NEW i \in DOMAIN nodes, NEW k \in DOMAIN nodes[i].handlers, Paired(i, k)
      PROVE  open'[Id(i, k)] = Cardinality(InProgress(i, k)')
  <2> DEFINE S == InProgress(i, k)
  <2>1. open[Id(i, k)] = Cardinality(S) /\ Id(i, k) \in Ids
    BY <1>8, PairsMeans, HandlerFacts DEF CallsInv
  <2>2. IsFiniteSet(S) /\ Cardinality(S) \in Nat
    BY InProgressIsFinite
  <2>3. CASE ~(Top.node = i /\ Top.next = k)
    <3>1. InProgress(i, k)' = S
      <4>1. n \notin S
        BY <1>1, <2>3
      <4>2. ~(Top.node = i /\ frame.next = k /\ InBracket(frame))
        BY <1>5, <2>3
      <4>3. InProgress(i, k)' = S \ {n}
        BY <1>1, <4>2
      <4> HIDE DEF S
      <4> QED BY <4>1, <4>3
    <3>2. ASSUME Top.next <= Len(Handlers)
          PROVE  Handler.id # Id(i, k)
      BY <1>2, <2>3, <3>2 DEF IInv, TableInv, BindingsAreUnique
    <3>3. open'[Id(i, k)] = open[Id(i, k)]
      BY <1>3, <1>6, <2>1, <3>2
    <3> QED BY <2>1, <3>1, <3>3
  <2>4. CASE Top.node = i /\ Top.next = k
    <3> DEFINE T == IF InBracket(frame) THEN S \cup {n} ELSE S \ {n}
    <3>1. InProgress(i, k)' = T /\ (n \in S <=> InBracket(Top))
      BY <1>1, <1>5, <2>4
    <3> HIDE DEF S, n, InBracket
    <3>2. /\ InBracket(Top) /\ InBracket(frame) => T = S
          /\ ~InBracket(Top) /\ ~InBracket(frame) => T = S
          /\ InBracket(Top) /\ ~InBracket(frame) => Cardinality(T) = Cardinality(S) - 1
          /\ ~InBracket(Top) /\ InBracket(frame) => Cardinality(T) = Cardinality(S) + 1
      <4>1. Cardinality(S \cup {n}) = IF n \in S THEN Cardinality(S) ELSE Cardinality(S) + 1
        BY <2>2, FS_AddElement
      <4>2. Cardinality(S \ {n}) = IF n \in S THEN Cardinality(S) - 1 ELSE Cardinality(S)
        BY <2>2, FS_RemoveElement
      <4>3. CASE InBracket(frame)
        <5>1. T = S \cup {n} /\ (n \in S => T = S)
          BY <4>3
        <5> QED BY <3>1, <4>1, <4>3, <5>1
      <4>4. CASE ~InBracket(frame)
        <5>1. T = S \ {n} /\ (n \notin S => T = S)
          BY <4>4
        <5> QED BY <3>1, <4>2, <4>4, <5>1
      <4> QED BY <4>3, <4>4
    <3> HIDE DEF T
    <3>3. Top.next <= Len(Handlers) => Handler.id = Id(i, k) /\ {"pre", "post"} \subseteq Handler.hooks
      BY <1>2, <1>8, <2>4 DEF Paired
    <3>4. CASE open' = open /\ (InBracket(Top) <=> InBracket(frame))
      BY <2>1, <3>1, <3>2, <3>4
    <3>5. CASE /\ Top.next <= Len(Handlers)
               /\ open' = [open EXCEPT ![Handler.id] = @ + 1]
               /\ ~InBracket(Top) /\ InBracket(frame)
      <4>1. open'[Id(i, k)] = open[Id(i, k)] + 1
        BY <1>3, <2>1, <3>3, <3>5
      <4> QED BY <2>1, <3>1, <3>2, <3>5, <4>1
    <3>6. CASE /\ Top.next <= Len(Handlers)
               /\ open' = [open EXCEPT ![Handler.id] = @ - 1]
               /\ InBracket(Top) /\ ~InBracket(frame)
      <4>1. open'[Id(i, k)] = open[Id(i, k)] - 1
        BY <1>3, <2>1, <3>3, <3>6
      <4> QED BY <2>1, <3>1, <3>2, <3>6, <4>1
    <3> QED BY <3>3, <3>4, <3>5, <3>6
  <2> QED BY <2>3, <2>4
<1>9. PreAndPostPair'
  <2>1. \A i \in DOMAIN nodes' : \A k \in DOMAIN nodes'[i].handlers :
          Paired(i, k)' => open'[Id(i, k)'] = Cardinality(InProgress(i, k)')
    BY <1>8 DEF Paired, Id
  <2> QED BY <2>1 DEF PreAndPostPair, Paired, Id, InProgress, InBracket
<1> QED BY <1>1, <1>4, <1>7, <1>9 DEF CallsInv

\* A command that begins has called nothing.
LEMMA ExecuteKeeps ==
  ASSUME IInv, CallsInv, NEW name \in Names, NEW verb \in Verbs, Execute(name, verb)
  PROVE  CallsInv'
<1> DEFINE n == Len(stack)
           frame == [node |-> find_node(name), verb |-> verb, next |-> 1,
                     at |-> "match", called |-> << >>]
<1>1. /\ UNCHANGED <<nodes, binds, open, status>>
      /\ executes < MaxExecutes /\ n < MaxDepth /\ executes' = executes + 1
      /\ stack' = IF Bound(name) THEN Append(stack, frame) ELSE stack
  BY DEF Execute
<1>2. stack \in Seq(Frame) /\ n \in Nat /\ DOMAIN stack = 1..n
  BY LenProperties DEF CallsInv, StackOK
<1>3. CASE ~Bound(name)
  <2>1. stack' = stack
    BY <1>1, <1>3
  <2>2. CountersOK'
    BY <1>1, <2>1 DEF CallsInv, CountersOK
  <2>3. StackOK' /\ OpenOK'
    BY <1>1, <2>1 DEF CallsInv, StackOK, OpenOK, Placed
  <2> HIDE DEF frame, n
  <2>4. \A i, k : InProgress(i, k)' = InProgress(i, k)
    BY <2>1 DEF InProgress, InBracket
  <2>5. \A i \in DOMAIN nodes' : \A k \in DOMAIN nodes'[i].handlers :
          Paired(i, k)' => open'[Id(i, k)'] = Cardinality(InProgress(i, k)')
    BY <1>1, <2>4, PairsMeans DEF CallsInv, Paired, Id
  <2>6. PreAndPostPair'
    BY <2>5 DEF PreAndPostPair, Paired, Id, InProgress, InBracket
  <2> QED BY <2>2, <2>3, <2>6 DEF CallsInv
<1>4. CASE Bound(name)
  <2>1. find_node(name) \in DOMAIN nodes /\ find_node(name) \in Nat
        /\ Len(nodes[find_node(name)].handlers) \in Nat
    BY <1>4, FindNode, HandlerFacts
  <2>2. frame \in Frame /\ frame.at = "match"
    <3>1. << >> \in Seq(Ids)
      BY EmptySeq
    <3> QED BY <2>1, <3>1 DEF Frame, Places
  <2>3. Placed(frame)
    BY <2>1 DEF Placed
  <2> HIDE DEF frame, n
  <2>4. stack' = Append(stack, frame)
    BY <1>1, <1>4
  <2>5. /\ stack' \in Seq(Frame) /\ Len(stack') = n + 1 /\ DOMAIN stack' = 1..(n + 1)
        /\ \A f \in 1..n : stack'[f] = stack[f]
        /\ stack'[n + 1] = frame
    BY <1>2, <2>2, <2>4, AppendProperties, LenProperties DEF n
  <2>6. \A f \in DOMAIN stack' : f = n + 1 \/ (f \in DOMAIN stack /\ f \in 1..n)
    BY <1>2, <2>5
  <2>7. StackOK'
    <3>1. \A f \in DOMAIN stack' : Placed(stack'[f])
      BY <2>3, <2>5, <2>6 DEF CallsInv, StackOK
    <3> QED BY <1>1, <2>5, <3>1 DEF StackOK, Placed
  <2>8. CountersOK'
    BY <1>1, <1>2, <2>5 DEF CallsInv, CountersOK
  <2>9. OpenOK'
    BY <1>1 DEF CallsInv, OpenOK
  <2>10. ASSUME NEW i, NEW k
         PROVE  InProgress(i, k)' = InProgress(i, k)
    <3>1. \A f \in DOMAIN stack' : InBracket(stack'[f]) => f \in 1..n
      BY <2>2, <2>5, <2>6 DEF InBracket
    <3> QED BY <1>2, <2>5, <2>6, <3>1 DEF InProgress, InBracket
  <2>11. PreAndPostPair'
    <3>1. \A i \in DOMAIN nodes' : \A k \in DOMAIN nodes'[i].handlers :
            Paired(i, k)' => open'[Id(i, k)'] = Cardinality(InProgress(i, k)')
      BY <1>1, <2>10, PairsMeans DEF CallsInv, Paired, Id
    <3> QED BY <3>1 DEF PreAndPostPair, Paired, Id, InProgress, InBracket
  <2> QED BY <2>7, <2>8, <2>9, <2>11 DEF CallsInv
<1> QED BY <1>3, <1>4

\* A command that returns is in no call.
LEMMA ReturnKeeps ==
  ASSUME IInv, CallsInv, Return
  PROVE  CallsInv'
<1> DEFINE n == Len(stack)
<1>1. /\ UNCHANGED <<nodes, binds, executes, open, status>>
      /\ stack # << >> /\ Top.at = "match" /\ stack' = Front(stack)
  BY DEF Return, At
<1>2. n \in Nat \ {0} /\ DOMAIN stack = 1..n /\ stack[n] = Top /\ stack \in Seq(Frame)
  BY <1>1, TopFacts DEF CallsInv, StackOK
<1>3. /\ stack' \in Seq(Frame) /\ Len(stack') = n - 1 /\ DOMAIN stack' = 1..(n - 1)
      /\ \A f \in 1..(n - 1) : stack'[f] = stack[f]
  BY <1>1, <1>2, FrontElements
<1> HIDE DEF n
<1>4. StackOK'
  <2>1. \A f \in DOMAIN stack' : f \in DOMAIN stack
    BY <1>2, <1>3
  <2> QED BY <1>1, <1>3, <2>1 DEF CallsInv, StackOK, Placed
<1>5. CountersOK' /\ OpenOK'
  BY <1>1, <1>2, <1>3 DEF CallsInv, CountersOK, OpenOK, n
<1>6. ASSUME NEW i, NEW k
      PROVE  InProgress(i, k)' = InProgress(i, k)
  <2>1. \A f \in DOMAIN stack : InBracket(stack[f]) => f \in 1..(n - 1)
    BY <1>1, <1>2 DEF InBracket
  <2>2. \A f \in 1..(n - 1) : f \in DOMAIN stack /\ f \in DOMAIN stack'
    BY <1>2, <1>3
  <2> QED BY <1>3, <2>1, <2>2 DEF InProgress, InBracket
<1>7. PreAndPostPair'
  <2>1. \A i \in DOMAIN nodes' : \A k \in DOMAIN nodes'[i].handlers :
          Paired(i, k)' => open'[Id(i, k)'] = Cardinality(InProgress(i, k)')
    BY <1>1, <1>6, PairsMeans DEF CallsInv, Paired, Id
  <2> QED BY <2>1 DEF PreAndPostPair, Paired, Id, InProgress, InBracket
<1> QED BY <1>4, <1>5, <1>7 DEF CallsInv

\* A table to which bindings are added, each with an id of its own, has the
\* calls in progress where they were.
LEMMA TableGrows ==
  ASSUME IInv, CallsInv, IInv', UNCHANGED <<stack, open, executes>>,
         status' \in {"running", "fault"}, binds' >= binds,
         \A i \in DOMAIN nodes :
           /\ i \in DOMAIN nodes'
           /\ Len(nodes'[i].handlers) >= Len(nodes[i].handlers)
           /\ \A k \in DOMAIN nodes[i].handlers :
                /\ k \in DOMAIN nodes'[i].handlers
                /\ nodes'[i].handlers[k] = nodes[i].handlers[k],
         \A i \in DOMAIN nodes' : \A k \in DOMAIN nodes'[i].handlers :
           \/ i \in DOMAIN nodes /\ k \in DOMAIN nodes[i].handlers
           \/ nodes'[i].handlers[k].id > binds
  PROVE  CallsInv'
<1>1. StackOK'
  <2>1. ASSUME NEW frame \in Frame, Placed(frame)
        PROVE  Placed(frame)'
    <3>1. frame.node \in DOMAIN nodes /\ frame.node \in DOMAIN nodes'
      BY <2>1 DEF Placed
    <3>2. Len(nodes[frame.node].handlers) \in Nat
      BY <3>1, HandlerFacts
    <3>3. Len(nodes'[frame.node].handlers) \in Nat
      BY <3>1 DEF IInv, NodesOK, Node
    <3>4. frame.next <= Len(nodes'[frame.node].handlers) + 1
      <4>1. frame.next \in Nat /\ frame.next <= Len(nodes[frame.node].handlers) + 1
        BY <2>1 DEF Placed, Frame
      <4> QED BY <3>1, <3>2, <3>3, <4>1
    <3>5. frame.at # "match" => frame.next \in DOMAIN nodes'[frame.node].handlers
      BY <2>1, <3>1 DEF Placed
    <3> QED BY <3>1, <3>4, <3>5 DEF Placed
  <2>2. stack \in Seq(Frame) /\ \A f \in DOMAIN stack : Placed(stack[f])
    BY DEF CallsInv, StackOK
  <2>3. \A f \in DOMAIN stack : stack[f] \in Frame
    BY <2>2
  <2>4. \A f \in DOMAIN stack : Placed(stack[f])'
    <3>1. \A f \in DOMAIN stack : Placed(stack[f]) => Placed(stack[f])'
      BY <2>1, <2>3 DEF Placed
    <3> QED BY <2>2, <3>1
  <2> QED BY <2>2, <2>4 DEF StackOK
<1>2. OpenOK'
  <2>1. binds \in Nat /\ binds' \in Nat
    BY DEF IInv, BindsOK
  <2>2. \A id \in Ids : id > binds' => id > binds
    BY <2>1 DEF Ids
  <2> QED BY <2>2 DEF CallsInv, OpenOK
<1>3. CountersOK'
  BY DEF CallsInv, CountersOK
<1>4. \A i, k : InProgress(i, k)' = InProgress(i, k)
  BY DEF InProgress, InBracket
<1>5. ASSUME NEW i \in DOMAIN nodes', NEW k \in DOMAIN nodes'[i].handlers,
             Paired(i, k)'
      PROVE  open'[Id(i, k)'] = Cardinality(InProgress(i, k)')
  <2>1. CASE i \in DOMAIN nodes /\ k \in DOMAIN nodes[i].handlers
    <3>1. Id(i, k)' = Id(i, k) /\ Paired(i, k)
      BY <1>5, <2>1 DEF Id, Paired
    <3> QED BY <1>4, <2>1, <3>1, PairsMeans DEF CallsInv
  <2>2. CASE ~(i \in DOMAIN nodes /\ k \in DOMAIN nodes[i].handlers)
    <3>1. open'[Id(i, k)'] = 0
      <4>1. Id(i, k)' > binds
        BY <2>2 DEF Id
      <4>2. Id(i, k)' \in Ids
        <5>1. Id(i, k)' \in 1..binds' /\ binds' \in 0..MaxBinds
          BY DEF IInv, IdsAreGiven, BindsOK
        <5> QED BY <5>1 DEF Ids
      <4> QED BY <4>1, <4>2 DEF CallsInv, OpenOK
    <3>2. InProgress(i, k) = {}
      <4>1. \A f \in DOMAIN stack : stack[f].node = i /\ stack[f].next = k => ~InBracket(stack[f])
        BY <2>2 DEF CallsInv, StackOK, Placed, InBracket
      <4> QED BY <4>1 DEF InProgress
    <3> QED BY <1>4, <3>1, <3>2, FS_EmptySet
  <2> QED BY <2>1, <2>2
<1>6. PreAndPostPair'
  BY <1>5 DEF PreAndPostPair, Paired, Id, InProgress, InBracket
<1> QED BY <1>1, <1>2, <1>3, <1>6 DEF CallsInv

\* A binding made while commands are in progress disturbs none of them.
LEMMA BindKeeps ==
  ASSUME IInv, CallsInv, IInv', NEW name \in Names, NEW verb \in Verbs,
         NEW target \in Targets, NEW hooks \in Hooks, Bind(name, verb, target, hooks)
  PROVE  CallsInv'
<1>1. UNCHANGED <<stack, open, executes>> /\ status' \in {"running", "fault"}
  BY DEF Bind, CallsInv, CountersOK
<1>2. CASE Bound(name)
  <2>1. PICK n \in DOMAIN nodes, h \in Binding, more \in Seq(Binding) :
          /\ binds \in Nat /\ binds' = binds + 1 /\ h.id = binds'
          /\ Len(more) = Len(nodes[n].handlers) + 1
          /\ DOMAIN more = DOMAIN nodes[n].handlers \cup {Len(more)}
          /\ \A k \in DOMAIN nodes[n].handlers : more[k] = nodes[n].handlers[k]
          /\ more[Len(more)] = h
          /\ DOMAIN nodes' = DOMAIN nodes
          /\ \A i \in DOMAIN nodes :
               nodes'[i].handlers = IF i = n THEN more ELSE nodes[i].handlers
    BY <1>2, BindFoundTable
  <2>2. \A i \in DOMAIN nodes : Len(nodes[i].handlers) \in Nat
    BY HandlerFacts
  <2>3. \A i \in DOMAIN nodes :
          /\ i \in DOMAIN nodes'
          /\ Len(nodes'[i].handlers) >= Len(nodes[i].handlers)
          /\ \A k \in DOMAIN nodes[i].handlers :
               /\ k \in DOMAIN nodes'[i].handlers
               /\ nodes'[i].handlers[k] = nodes[i].handlers[k]
    <3> SUFFICES ASSUME NEW i \in DOMAIN nodes
                 PROVE  /\ i \in DOMAIN nodes'
                        /\ Len(nodes'[i].handlers) >= Len(nodes[i].handlers)
                        /\ \A k \in DOMAIN nodes[i].handlers :
                             /\ k \in DOMAIN nodes'[i].handlers
                             /\ nodes'[i].handlers[k] = nodes[i].handlers[k]
      OBVIOUS
    <3>1. CASE i = n
      <4>1. nodes'[i].handlers = more
        BY <2>1, <3>1
      <4>2. Len(more) >= Len(nodes[i].handlers)
        BY <2>1, <2>2, <3>1
      <4>3. \A k \in DOMAIN nodes[i].handlers :
              k \in DOMAIN more /\ more[k] = nodes[i].handlers[k]
        BY <2>1, <3>1
      <4> QED BY <2>1, <4>1, <4>2, <4>3
    <3>2. CASE i # n
      <4>1. nodes'[i].handlers = nodes[i].handlers
        BY <2>1, <3>2
      <4> QED BY <2>1, <2>2, <4>1
    <3> QED BY <3>1, <3>2
  <2>4. \A i \in DOMAIN nodes' : \A k \in DOMAIN nodes'[i].handlers :
          \/ i \in DOMAIN nodes /\ k \in DOMAIN nodes[i].handlers
          \/ nodes'[i].handlers[k].id > binds
    BY <2>1
  <2>5. binds' >= binds
    BY <2>1
  <2> QED BY <1>1, <2>3, <2>4, <2>5, TableGrows
<1>3. CASE ~Bound(name)
  <2>1. \E n : /\ binds \in Nat /\ binds' = binds + 1
               /\ DOMAIN nodes' = DOMAIN nodes \cup {n}
               /\ \A i \in DOMAIN nodes : nodes'[i] = nodes[i]
               /\ DOMAIN nodes'[n].handlers = {1} /\ nodes'[n].handlers[1].id = binds + 1
    BY <1>3, BindNewTable
  <2>2. \A i \in DOMAIN nodes : Len(nodes[i].handlers) \in Nat
    BY HandlerFacts
  <2>3. \A i \in DOMAIN nodes :
          /\ i \in DOMAIN nodes'
          /\ Len(nodes'[i].handlers) >= Len(nodes[i].handlers)
          /\ \A k \in DOMAIN nodes[i].handlers :
               /\ k \in DOMAIN nodes'[i].handlers
               /\ nodes'[i].handlers[k] = nodes[i].handlers[k]
    BY <2>1, <2>2
  <2>4. \A i \in DOMAIN nodes' : \A k \in DOMAIN nodes'[i].handlers :
          \/ i \in DOMAIN nodes /\ k \in DOMAIN nodes[i].handlers
          \/ nodes'[i].handlers[k].id > binds
    BY <2>1
  <2>5. binds' >= binds
    BY <2>1
  <2> QED BY <1>1, <2>3, <2>4, <2>5, TableGrows
<1> QED BY <1>2, <1>3

\* A step that leaves names, handlers and calls alone keeps them together.
LEMMA SameCalls ==
  ASSUME IInv, CallsInv, IInv', UNCHANGED <<stack, open, executes, binds>>,
         status' \in {"running", "fault"}, DOMAIN nodes' = DOMAIN nodes,
         \A i \in DOMAIN nodes : nodes'[i].handlers = nodes[i].handlers
  PROVE  CallsInv'
<1>1. \A i \in DOMAIN nodes : Len(nodes[i].handlers) \in Nat
  BY HandlerFacts
<1>2. binds \in Nat
  BY DEF IInv, BindsOK
<1>3. binds' >= binds
  BY <1>2
<1>4. \A i \in DOMAIN nodes :
        /\ i \in DOMAIN nodes'
        /\ Len(nodes'[i].handlers) >= Len(nodes[i].handlers)
        /\ \A k \in DOMAIN nodes[i].handlers :
             /\ k \in DOMAIN nodes'[i].handlers
             /\ nodes'[i].handlers[k] = nodes[i].handlers[k]
  BY <1>1
<1>5. \A i \in DOMAIN nodes' : \A k \in DOMAIN nodes'[i].handlers :
        \/ i \in DOMAIN nodes /\ k \in DOMAIN nodes[i].handlers
        \/ nodes'[i].handlers[k].id > binds
  OBVIOUS
<1> QED BY <1>3, <1>4, <1>5, TableGrows

\* Clearing and rebinding fault, and touch no call.
LEMMA ClearKeeps ==
  ASSUME IInv, CallsInv, IInv', NEW name \in Names, Clear(name)
  PROVE  CallsInv'
<1>1. UNCHANGED <<nodes, stack, open, executes, binds>>
  BY DEF Clear
<1>2. status' \in {"running", "fault"}
  BY DEF Clear, CallsInv, CountersOK
<1> QED BY <1>1, <1>2, SameCalls

LEMMA RebindKeepsCalls ==
  ASSUME IInv, CallsInv, IInv', NEW name \in Names, NEW target \in Targets,
         Rebind(name, target)
  PROVE  CallsInv'
<1>1. UNCHANGED <<stack, open, executes, binds>> /\ status' \in {"running", "fault"}
  BY DEF Rebind
<1>2. nodes \in Seq(Node) /\ 1 \in DOMAIN nodes /\ nodes[1] \in Node
  BY DEF IInv, NodesOK
<1>3. CASE nodes[1].name = name
  <2> DEFINE node == [nodes[1] EXCEPT !.object = target]
  <2>1. nodes' = [nodes EXCEPT ![1] = node]
    BY <1>3 DEF Rebind
  <2>2. node.handlers = nodes[1].handlers
    BY <1>2 DEF Node
  <2> HIDE DEF node
  <2>3. DOMAIN nodes' = DOMAIN nodes
        /\ \A i \in DOMAIN nodes : nodes'[i].handlers = nodes[i].handlers
    BY <1>2, <2>1, <2>2
  <2> QED BY <1>1, <2>3, SameCalls
<1>4. CASE nodes[1].name # name
  <2>1. nodes' = nodes
    BY <1>4 DEF Rebind
  <2> QED BY <1>1, <2>1, SameCalls
<1> QED BY <1>3, <1>4

\* The fields of the next frame of an activation.
LEMMA GoOnFields ==
  ASSUME NEW frame \in Frame
  PROVE  /\ GoOn(frame) \in Frame /\ GoOn(frame).node = frame.node
         /\ GoOn(frame).verb = frame.verb /\ GoOn(frame).called = frame.called
         /\ GoOn(frame).next = frame.next + 1 /\ GoOn(frame).at = "match"
<1> DEFINE next == frame.next + 1
           moved == [frame EXCEPT !.next = next]
<1>1. next \in Nat \ {0}
  BY DEF Frame
<1>2. GoOn(frame) = [moved EXCEPT !.at = "match"]
  BY DEF GoOn
<1> HIDE DEF next
<1>3. /\ moved \in Frame /\ moved.node = frame.node /\ moved.next = next
      /\ moved.verb = frame.verb /\ moved.called = frame.called
  BY <1>1 DEF Frame
<1> HIDE DEF moved
<1>4. /\ GoOn(frame) \in Frame /\ GoOn(frame).at = "match"
      /\ GoOn(frame).node = moved.node /\ GoOn(frame).next = moved.next
      /\ GoOn(frame).verb = moved.verb /\ GoOn(frame).called = moved.called
  BY <1>2, <1>3 DEF Frame, Places
<1> QED BY <1>3, <1>4 DEF next

\* The frames a step of the innermost activation leaves: it goes on to the next
\* handler, or to another place at the same one.
LEMMA NextOfTop ==
  ASSUME IInv, CallsInv, stack # << >>, Top.next <= Len(Handlers)
  PROVE  /\ GoOn(Top) \in Frame /\ Placed(GoOn(Top))
         /\ GoOn(Top).node = Top.node /\ GoOn(Top).at = "match"
<1>1. /\ Top \in Frame /\ Placed(Top) /\ Len(Handlers) \in Nat
      /\ Top.next \in Nat \ {0} /\ Top.next \in DOMAIN Handlers
  BY TopFacts
<1>2. /\ GoOn(Top) \in Frame /\ GoOn(Top).node = Top.node
      /\ GoOn(Top).next = Top.next + 1 /\ GoOn(Top).at = "match"
  BY <1>1, GoOnFields
<1>3. Placed(GoOn(Top))
  BY <1>1, <1>2 DEF Placed, Handlers
<1> QED BY <1>2, <1>3

LEMMA StaysPlaced ==
  ASSUME IInv, CallsInv, stack # << >>, Top.next <= Len(Handlers),
         NEW frame, frame.node = Top.node, frame.next = Top.next
  PROVE  Placed(frame)
<1>1. Placed(Top) /\ Top.next \in DOMAIN Handlers
  BY TopFacts
<1> QED BY <1>1 DEF Placed, Handlers

\* Comparing a handler enters a call, of its op alone if it has no preOp.
LEMMA MatchKeeps ==
  ASSUME IInv, CallsInv, Match
  PROVE  CallsInv'
<1>1. /\ UNCHANGED <<nodes, binds, executes, open, status>>
      /\ stack # << >> /\ Top.at = "match" /\ Top.next <= Len(Handlers)
  BY DEF Match, At
<1>2. ~InBracket(Top)
  BY <1>1 DEF InBracket
<1>3. CASE Handler.verb # Top.verb
  <2> DEFINE frame == GoOn(Top)
  <2>1. stack' = Replace(frame)
    BY <1>3 DEF Match
  <2>2. frame \in Frame /\ Placed(frame) /\ frame.node = Top.node /\ frame.at = "match"
    BY <1>1, NextOfTop
  <2> HIDE DEF frame
  <2>3. ~InBracket(frame)
    BY <2>2 DEF InBracket
  <2> QED BY <1>1, <1>2, <2>1, <2>2, <2>3, MoveKeeps
<1>4. CASE Handler.verb = Top.verb
  <2> DEFINE place == IF "pre" \in Handler.hooks THEN "pre" ELSE "op"
             called == Append(Top.called, Handler.id)
             frame == [Top EXCEPT !.at = place, !.called = called]
  <2>1. Top \in Frame /\ Handler.id \in Ids
    BY <1>1, TopFacts
  <2>2. called \in Seq(Ids) /\ place \in Places
    <3>1. Top.called \in Seq(Ids)
      BY <2>1 DEF Frame
    <3> QED BY <2>1, <3>1, AppendProperties DEF Places
  <2>3. stack' = Replace(frame)
    <3>1. frame = [Top EXCEPT !.called = Append(@, Handler.id),
                              !.at = IF "pre" \in Handler.hooks THEN "pre" ELSE "op"]
      BY <2>1 DEF Frame
    <3> QED BY <1>4, <3>1 DEF Match
  <2> HIDE DEF called, place
  <2>4. /\ frame \in Frame /\ Placed(frame) /\ frame.node = Top.node
        /\ frame.next = Top.next /\ frame.at = place
    <3>1. /\ frame \in Frame /\ frame.node = Top.node /\ frame.next = Top.next
          /\ frame.at = place
      BY <2>1, <2>2 DEF Frame
    <3> HIDE DEF frame
    <3>2. Placed(frame)
      BY <1>1, <3>1, StaysPlaced
    <3> QED BY <3>1, <3>2
  <2> HIDE DEF frame
  <2> USE DEF place
  <2>5. CASE "pre" \in Handler.hooks
    <3>1. ~InBracket(frame)
      BY <2>4, <2>5 DEF InBracket
    <3> QED BY <1>1, <1>2, <2>3, <2>4, <3>1, MoveKeeps
  <2>6. CASE "pre" \notin Handler.hooks
    <3>1. ~({"pre", "post"} \subseteq Handler.hooks)
      BY <2>6
    <3> QED BY <1>1, <2>3, <2>4, <3>1, MoveKeeps
  <2> QED BY <2>5, <2>6
<1> QED BY <1>3, <1>4

\* A place of an activation inside a call is that of a handler.
LEMMA InsideIsAtHandler ==
  ASSUME IInv, CallsInv, stack # << >>, Top.at # "match"
  PROVE  Top.next <= Len(Handlers) /\ Top \in Frame /\ Top.called \in Seq(Ids)
<1>1. /\ Top \in Frame /\ Placed(Top) /\ Len(Handlers) \in Nat
      /\ DOMAIN Handlers = 1..Len(Handlers)
  BY TopFacts
<1>2. Top.next \in DOMAIN Handlers
  BY <1>1 DEF Placed, Handlers
<1>3. Top.called \in Seq(Ids)
  BY <1>1 DEF Frame
<1> QED BY <1>1, <1>2, <1>3

\* The return of a preOp enters the pair as it counts.
LEMMA PreReturnsKeeps ==
  ASSUME IInv, CallsInv, PreReturns
  PROVE  CallsInv'
<1> DEFINE frame == [Top EXCEPT !.at = "op", !.called = Top.called]
<1>1. /\ UNCHANGED <<nodes, binds, executes, status>>
      /\ stack # << >> /\ Top.at = "pre"
      /\ open' = [open EXCEPT ![Handler.id] = @ + 1]
  BY DEF PreReturns, At
<1>2. Top.next <= Len(Handlers) /\ Top \in Frame /\ Top.called \in Seq(Ids)
  BY <1>1, InsideIsAtHandler
<1>3. stack' = Replace(frame)
  <2>1. frame = [Top EXCEPT !.at = "op"]
    BY <1>2 DEF Frame
  <2> QED BY <2>1 DEF PreReturns
<1>4. /\ frame \in Frame /\ Placed(frame) /\ frame.node = Top.node
      /\ frame.next = Top.next /\ frame.at = "op"
  <2>1. /\ frame \in Frame /\ frame.node = Top.node /\ frame.next = Top.next
        /\ frame.at = "op"
    BY <1>2 DEF Frame, Places
  <2> HIDE DEF frame
  <2>2. Placed(frame)
    BY <1>1, <1>2, <2>1, StaysPlaced
  <2> QED BY <2>1, <2>2
<1> HIDE DEF frame
<1>5. ~InBracket(Top) /\ InBracket(frame)
  BY <1>1, <1>4 DEF InBracket
<1> QED BY <1>1, <1>2, <1>3, <1>4, <1>5, MoveKeeps

\* The return of an op stays in the pair, if there is one, or ends the call.
LEMMA OpReturnsKeeps ==
  ASSUME IInv, CallsInv, IInv', OpReturns
  PROVE  CallsInv'
<1>1. /\ UNCHANGED <<nodes, binds, executes, open>>
      /\ stack # << >> /\ Top.at = "op"
  BY DEF OpReturns, At
<1>2. Top.next <= Len(Handlers) /\ Top \in Frame /\ Top.called \in Seq(Ids)
  BY <1>1, InsideIsAtHandler
<1>3. InBracket(Top)
  BY <1>1 DEF InBracket
<1>4. CASE "op" \notin Handler.hooks
  <2>1. stack' = stack /\ status' = "fault"
    BY <1>4 DEF OpReturns
  <2> QED BY <1>1, <2>1, SameCalls
<1>5. CASE "op" \in Handler.hooks /\ "post" \in Handler.hooks
  <2> DEFINE frame == [Top EXCEPT !.at = "post", !.called = Top.called]
  <2>1. stack' = Replace(frame) /\ status' = status
    <3>1. frame = [Top EXCEPT !.at = "post"]
      BY <1>2 DEF Frame
    <3> QED BY <1>5, <3>1 DEF OpReturns
  <2>2. /\ frame \in Frame /\ Placed(frame) /\ frame.node = Top.node
        /\ frame.next = Top.next /\ frame.at = "post"
    <3>1. /\ frame \in Frame /\ frame.node = Top.node /\ frame.next = Top.next
          /\ frame.at = "post"
      BY <1>2 DEF Frame, Places
    <3> HIDE DEF frame
    <3>2. Placed(frame)
      BY <1>1, <1>2, <3>1, StaysPlaced
    <3> QED BY <3>1, <3>2
  <2> HIDE DEF frame
  <2>3. InBracket(frame)
    BY <2>2 DEF InBracket
  <2> QED BY <1>1, <1>3, <2>1, <2>2, <2>3, MoveKeeps
<1>6. CASE "op" \in Handler.hooks /\ "post" \notin Handler.hooks
  <2> DEFINE frame == GoOn(Top)
  <2>1. stack' = Replace(frame) /\ status' = status
    BY <1>6 DEF OpReturns
  <2>2. frame \in Frame /\ Placed(frame) /\ frame.node = Top.node /\ frame.at = "match"
    BY <1>1, <1>2, NextOfTop
  <2> HIDE DEF frame
  <2>3. ~({"pre", "post"} \subseteq Handler.hooks)
    BY <1>6
  <2> QED BY <1>1, <1>2, <2>1, <2>2, <2>3, MoveKeeps
<1> QED BY <1>4, <1>5, <1>6

\* The return of a postOp leaves the pair as it counts.
LEMMA PostReturnsKeeps ==
  ASSUME IInv, CallsInv, PostReturns
  PROVE  CallsInv'
<1> DEFINE frame == GoOn(Top)
<1>1. /\ UNCHANGED <<nodes, binds, executes, status>>
      /\ stack # << >> /\ Top.at = "post"
      /\ open' = [open EXCEPT ![Handler.id] = @ - 1]
      /\ stack' = Replace(frame)
  BY DEF PostReturns, At
<1>2. Top.next <= Len(Handlers)
  BY <1>1, InsideIsAtHandler
<1>3. frame \in Frame /\ Placed(frame) /\ frame.node = Top.node /\ frame.at = "match"
  BY <1>1, <1>2, NextOfTop
<1> HIDE DEF frame
<1>4. InBracket(Top) /\ ~InBracket(frame)
  BY <1>1, <1>3 DEF InBracket
<1> QED BY <1>1, <1>2, <1>3, <1>4, MoveKeeps

\* Before the first command nothing is called.
LEMMA InitCalls == Init => CallsInv
<1> SUFFICES ASSUME Init PROVE CallsInv
  OBVIOUS
<1>1. /\ stack = << >> /\ executes = 0 /\ status = "running"
      /\ open = [id \in Ids |-> 0] /\ nodes[1].handlers = << >> /\ DOMAIN nodes = {1}
  BY DEF Init
<1>2. StackOK
  <2>1. stack \in Seq(Frame) /\ DOMAIN stack = {}
    BY <1>1, EmptySeq
  <2> QED BY <2>1 DEF StackOK
<1>3. OpenOK /\ CountersOK
  BY <1>1, EmptySeq DEF OpenOK, CountersOK
<1>4. PreAndPostPair
  <2>1. \A i \in DOMAIN nodes : DOMAIN nodes[i].handlers = {}
    BY <1>1
  <2> QED BY <2>1 DEF PreAndPostPair
<1> QED BY <1>2, <1>3, <1>4 DEF CallsInv

\* Every step keeps the calls in progress together with their counts.
LEMMA NextCalls == IInv /\ CallsInv /\ [Next]_vars => CallsInv'
<1> SUFFICES ASSUME IInv, CallsInv, [Next]_vars PROVE CallsInv'
  OBVIOUS
<1>0. IInv'
  BY NextIInv
<1>1. CASE \E name \in Names, verb \in Verbs, target \in Targets, hooks \in Hooks :
             Bind(name, verb, target, hooks)
  BY <1>0, <1>1, BindKeeps
<1>2. CASE \E name \in Clearable : Clear(name)
  BY <1>0, <1>2, ClearKeeps
<1>3. CASE \E name \in Rebindable, target \in Targets : Rebind(name, target)
  BY <1>0, <1>3, RebindKeepsCalls
<1>4. CASE \E name \in Names, verb \in Verbs : Execute(name, verb)
  BY <1>4, ExecuteKeeps
<1>5. CASE Match
  BY <1>5, MatchKeeps
<1>6. CASE PreReturns
  BY <1>6, PreReturnsKeeps
<1>7. CASE OpReturns
  BY <1>0, <1>7, OpReturnsKeeps
<1>8. CASE PostReturns
  BY <1>8, PostReturnsKeeps
<1>9. CASE Return
  BY <1>9, ReturnKeeps
<1>10. CASE UNCHANGED vars
  <2>1. UNCHANGED <<nodes, stack, open, executes, binds, status>>
    BY <1>10 DEF vars
  <2>2. status' \in {"running", "fault"}
    BY <2>1 DEF CallsInv, CountersOK
  <2> QED BY <1>0, <2>1, <2>2, SameCalls
<1> QED BY <1>1, <1>2, <1>3, <1>4, <1>5, <1>6, <1>7, <1>8, <1>9, <1>10 DEF Next

\* No node has more handlers than bindings were made: their ids differ.
LEMMA HandlersAreFew ==
  ASSUME IInv, NEW i \in DOMAIN nodes
  PROVE  Len(nodes[i].handlers) <= MaxBinds
<1> DEFINE m == Len(nodes[i].handlers)
           f == [k \in 1..m |-> Id(i, k)]
<1>1. /\ m \in Nat /\ DOMAIN nodes[i].handlers = 1..m
      /\ \A k \in 1..m : Id(i, k) \in 1..binds
  BY HandlerFacts
<1>2. binds \in Nat /\ binds <= MaxBinds
  BY DEF IInv, BindsOK
<1>3. \A k, l \in 1..m : Id(i, k) = Id(i, l) => k = l
  BY <1>1 DEF IInv, TableInv, BindingsAreUnique
<1> HIDE DEF m
<1>4. f \in Injection(1..m, 1..binds)
  BY <1>1, <1>3 DEF Injection, IsInjective
<1> HIDE DEF f
<1>5. /\ IsFiniteSet(1..binds) /\ Cardinality(1..binds) = binds
      /\ Cardinality(1..m) = m
  <2>1. 1 \in Int /\ m \in Int /\ binds \in Int
    BY <1>1, <1>2
  <2>2. /\ IsFiniteSet(1..binds)
        /\ Cardinality(1..binds) = IF 1 > binds THEN 0 ELSE binds - 1 + 1
        /\ Cardinality(1..m) = IF 1 > m THEN 0 ELSE m - 1 + 1
    BY <2>1, FS_Interval
  <2> QED BY <1>1, <1>2, <2>2
<1>6. Cardinality(1..m) <= Cardinality(1..binds)
  BY <1>4, <1>5, FS_Injection
<1>7. m <= MaxBinds
  BY <1>1, <1>2, <1>5, <1>6
<1> QED BY <1>7 DEF m

\* The invariants above give every variable its type.
LEMMA TypesFollow == IInv /\ CallsInv => TypeOK
<1> SUFFICES ASSUME IInv, CallsInv PROVE TypeOK
  OBVIOUS
<1> DEFINE T == [node : 1..Len(nodes), verb : Verbs, next : 1..(MaxBinds + 1),
                 at : {"match", "pre", "op", "post"}, called : Seq(Ids)]
<1>1. nodes \in Seq([name : Names, object : Targets, handlers : Seq(Binding)])
  BY DEF IInv, NodesOK, Node
<1>2. stack \in Seq(Frame) /\ \A f \in DOMAIN stack : stack[f] \in Frame /\ Placed(stack[f])
  BY LenProperties, ElementOfSeq DEF CallsInv, StackOK
<1>3. ASSUME NEW frame \in Frame, Placed(frame)
      PROVE  frame \in T
  <2>1. frame.node \in 1..Len(nodes)
    BY <1>1, <1>3, LenProperties DEF Placed
  <2>2. frame.next \in 1..(MaxBinds + 1)
    <3>1. /\ Len(nodes[frame.node].handlers) \in Nat
          /\ Len(nodes[frame.node].handlers) <= MaxBinds
      BY <1>3, HandlerFacts, HandlersAreFew DEF Placed
    <3>2. /\ frame.next \in Nat \ {0}
          /\ frame.next <= Len(nodes[frame.node].handlers) + 1
      BY <1>3 DEF Placed, Frame
    <3>3. MaxBinds \in Nat
      OBVIOUS
    <3> QED BY <3>1, <3>2, <3>3
  <2> QED BY <2>1, <2>2 DEF Frame, Places
<1>4. stack \in Seq(T)
  <2>1. \A f \in DOMAIN stack : stack[f] \in T
    BY <1>2, <1>3
  <2> HIDE DEF T
  <2> QED BY <1>2, <2>1, SeqDef
<1>5. /\ Len(stack) <= MaxDepth /\ executes \in 0..MaxExecutes
      /\ status \in {"running", "fault"} /\ open \in [Ids -> Int] /\ binds \in 0..MaxBinds
  BY DEF CallsInv, CountersOK, OpenOK, IInv, BindsOK
<1> QED BY <1>1, <1>4, <1>5 DEF TypeOK

\* In every reachable state of every instance, however commands nest and
\* whatever they bind, a binding with a preOp and a postOp has as many of the
\* first done without the second as it has calls in progress.
THEOREM PrePostPaired == Spec => []PreAndPostPair
<1>1. CallsInv => PreAndPostPair
  BY DEF CallsInv
<1> QED BY <1>1, InitIInv, NextIInv, InitCalls, NextCalls, PTL DEF Spec

\* In every reachable state of every instance the variables have their types;
\* an activation is at a node of the list, and never beyond the end of its
\* handlers by more than one.
THEOREM TypeCorrect == Spec => []TypeOK
<1> QED BY TypesFollow, InitIInv, NextIInv, InitCalls, NextCalls, PTL DEF Spec

-----------------------------------------------------------------------------
(* What the commands in progress have called.                              *)

\* An activation in a call has called the handler it is at, and that last.
AtItsLastCall(frame) ==
  frame.at # "match" =>
    /\ frame.called # << >> /\ Last(frame.called) = Id(frame.node, frame.next)
    /\ nodes[frame.node].handlers[frame.next].verb = frame.verb

\* PassedAreCalled is inductive with it.
Right(frame) == CallsWhatItPassed(frame) /\ AtItsLastCall(frame)
TraceInv == \A f \in DOMAIN stack : Right(stack[f])

\* What a frame's fields are.
LEMMA FrameFacts ==
  ASSUME IInv, NEW frame \in Frame, Placed(frame)
  PROVE  /\ frame.node \in DOMAIN nodes /\ frame.next \in Nat \ {0}
         /\ frame.called \in Seq(Ids) /\ Len(frame.called) \in Nat
         /\ DOMAIN frame.called = 1..Len(frame.called)
         /\ Passed(frame) \in Nat
         /\ Passed(frame) <= Len(nodes[frame.node].handlers)
         /\ Len(nodes[frame.node].handlers) \in Nat
         /\ DOMAIN nodes[frame.node].handlers = 1..Len(nodes[frame.node].handlers)
         /\ PassedOfVerb(frame) \subseteq DOMAIN nodes[frame.node].handlers
         /\ PassedOfVerb(frame) \subseteq 1..Passed(frame)
<1>1. /\ frame.next \in Nat \ {0} /\ frame.called \in Seq(Ids)
      /\ Len(frame.called) \in Nat /\ DOMAIN frame.called = 1..Len(frame.called)
  <2>1. frame.next \in Nat \ {0} /\ frame.called \in Seq(Ids)
    BY DEF Frame
  <2> QED BY <2>1, LenProperties
<1> DEFINE handlers == nodes[frame.node].handlers
<1>2. /\ frame.node \in DOMAIN nodes
      /\ Len(handlers) \in Nat /\ DOMAIN handlers = 1..Len(handlers)
  BY HandlerFacts DEF Placed
<1>3. /\ frame.next <= Len(handlers) + 1
      /\ frame.at # "match" => frame.next \in DOMAIN handlers
  BY DEF Placed
<1> HIDE DEF handlers
<1>4. Passed(frame) \in Nat /\ Passed(frame) <= Len(handlers)
  BY <1>1, <1>2, <1>3 DEF Passed
<1>5. PassedOfVerb(frame) \subseteq 1..Passed(frame)
  BY DEF PassedOfVerb
<1>6. PassedOfVerb(frame) \subseteq DOMAIN handlers
  BY <1>2, <1>4, <1>5
<1> QED BY <1>1, <1>2, <1>4, <1>5, <1>6 DEF handlers

\* Handlers added behind those passed change nothing for an activation.
LEMMA RightAsTableGrows ==
  ASSUME IInv, IInv', NEW frame \in Frame, Placed(frame), Right(frame),
         \A i \in DOMAIN nodes : \A k \in DOMAIN nodes[i].handlers :
           nodes'[i].handlers[k] = nodes[i].handlers[k]
  PROVE  Right(frame)'
<1>1. /\ frame.node \in DOMAIN nodes
      /\ PassedOfVerb(frame) \subseteq DOMAIN nodes[frame.node].handlers
      /\ DOMAIN nodes[frame.node].handlers = 1..Len(nodes[frame.node].handlers)
      /\ Passed(frame) \in Nat /\ Passed(frame) <= Len(nodes[frame.node].handlers)
      /\ Len(nodes[frame.node].handlers) \in Nat
  BY FrameFacts
<1>2. \A k \in DOMAIN nodes[frame.node].handlers :
        /\ nodes'[frame.node].handlers[k] = nodes[frame.node].handlers[k]
        /\ Id(frame.node, k)' = Id(frame.node, k)
  BY <1>1 DEF Id
<1>3. Passed(frame)' = Passed(frame)
  BY DEF Passed
<1>4. PassedOfVerb(frame)' = PassedOfVerb(frame)
  <2>1. \A k \in 1..Passed(frame) : k \in DOMAIN nodes[frame.node].handlers
    BY <1>1
  <2> QED BY <1>2, <1>3, <2>1 DEF PassedOfVerb
<1>5. CallsWhatItPassed(frame)'
  <2>1. \A k \in PassedOfVerb(frame) : Id(frame.node, k)' = Id(frame.node, k)
    BY <1>1, <1>2
  <2>2. CallsWhatItPassed(frame)
    BY DEF Right
  <2> QED BY <1>4, <2>1, <2>2 DEF CallsWhatItPassed
<1>6. AtItsLastCall(frame)'
  <2>1. frame.at # "match" => frame.next \in DOMAIN nodes[frame.node].handlers
    BY DEF Placed
  <2> QED BY <1>2, <2>1 DEF Right, AtItsLastCall, Id
<1> QED BY <1>5, <1>6 DEF Right

\* A call adds its handler to those called, behind the others.
LEMMA RightAfterCall ==
  ASSUME IInv, NEW frame \in Frame, Placed(frame), Right(frame), frame.at = "match",
         NEW next \in Frame, next.node = frame.node, next.verb = frame.verb,
         next.next = frame.next, next.at # "match",
         frame.next \in DOMAIN nodes[frame.node].handlers,
         nodes[frame.node].handlers[frame.next].verb = frame.verb,
         next.called = Append(frame.called, Id(frame.node, frame.next))
  PROVE  Right(next)
<1> DEFINE n == Len(frame.called)
           p == frame.next
           Was == PassedOfVerb(frame)
<1>1. /\ frame.node \in DOMAIN nodes /\ p \in Nat \ {0} /\ n \in Nat
      /\ frame.called \in Seq(Ids) /\ DOMAIN frame.called = 1..n
      /\ Was \subseteq 1..(p - 1) /\ Id(frame.node, p) \in Ids
  BY FrameFacts, HandlerFacts DEF Passed
<1>2. /\ DOMAIN next.called = 1..(n + 1)
      /\ \A j \in 1..n : next.called[j] = frame.called[j]
      /\ next.called[n + 1] = Id(frame.node, p)
      /\ next.called # << >> /\ Last(next.called) = Id(frame.node, p)
  <2>1. /\ next.called \in Seq(Ids) /\ Len(next.called) = n + 1
        /\ DOMAIN next.called = 1..(n + 1)
        /\ \A j \in 1..n : next.called[j] = frame.called[j]
        /\ next.called[n + 1] = Id(frame.node, p)
    BY <1>1, AppendProperties, LenProperties
  <2> QED BY <1>1, <2>1, EmptySeq DEF Last
<1>3. PassedOfVerb(next) = Was \cup {p}
  <2>1. Passed(next) = p /\ Passed(frame) = p - 1
    BY DEF Passed
  <2>2. 1..p = (1..(p - 1)) \cup {p}
    BY <1>1
  <2> QED BY <2>1, <2>2 DEF PassedOfVerb
<1>4. CallsWhatItPassed(frame)
  BY DEF Right
<1> HIDE DEF n, p, Was
<1>5. \A k \in PassedOfVerb(next) : \E j \in DOMAIN next.called :
        next.called[j] = Id(next.node, k)
  <2>1. \A k \in Was : \E j \in 1..n : frame.called[j] = Id(frame.node, k)
    BY <1>1, <1>4 DEF CallsWhatItPassed, Was
  <2>2. \A j \in 1..n : j \in DOMAIN next.called
    BY <1>1, <1>2
  <2>3. n + 1 \in DOMAIN next.called
    BY <1>1, <1>2
  <2> QED BY <1>2, <1>3, <2>1, <2>2, <2>3
<1>6. \A j \in DOMAIN next.called : \E k \in PassedOfVerb(next) :
        next.called[j] = Id(next.node, k)
  <2>1. \A j \in 1..n : \E k \in Was : frame.called[j] = Id(frame.node, k)
    BY <1>1, <1>4 DEF CallsWhatItPassed, Was
  <2>2. \A j \in DOMAIN next.called : j \in 1..n \/ j = n + 1
    BY <1>1, <1>2
  <2> SUFFICES ASSUME NEW j \in DOMAIN next.called
               PROVE  \E k \in PassedOfVerb(next) : next.called[j] = Id(next.node, k)
    OBVIOUS
  <2>3. CASE j \in 1..n
    <3>1. PICK k \in Was : frame.called[j] = Id(frame.node, k)
      BY <2>1, <2>3
    <3> QED BY <1>2, <1>3, <2>3, <3>1
  <2>4. CASE j = n + 1
    BY <1>2, <1>3, <2>4
  <2> QED BY <2>2, <2>3, <2>4
<1>7. ASSUME NEW j \in DOMAIN next.called, NEW l \in DOMAIN next.called,
             NEW k \in PassedOfVerb(next), NEW m \in PassedOfVerb(next),
             next.called[j] = Id(next.node, k), next.called[l] = Id(next.node, m), j < l
      PROVE  k < m
  <2>1. j \in 1..n /\ (l \in 1..n \/ l = n + 1)
    BY <1>1, <1>2, <1>7
  <2>2. \A a \in Was : Id(frame.node, a) # Id(frame.node, p)
    <3>1. \A a \in Was : a # p /\ a \in DOMAIN nodes[frame.node].handlers
      BY <1>1, FrameFacts DEF Was
    <3> QED BY <1>1, <3>1 DEF IInv, TableInv, BindingsAreUnique, p
  <2>3. PICK a \in Was : frame.called[j] = Id(frame.node, a)
    BY <1>1, <1>4, <2>1 DEF CallsWhatItPassed, Was
  <2>4. k \in Was
    <3>1. next.called[j] = frame.called[j]
      BY <1>2, <2>1
    <3>2. Id(frame.node, k) = frame.called[j]
      BY <1>7, <3>1
    <3>3. Id(frame.node, k) # Id(frame.node, p)
      BY <2>2, <2>3, <3>2
    <3>4. k # p
      BY <3>3
    <3> QED BY <1>3, <3>4
  <2>5. CASE l = n + 1
    <3>1. m \notin Was
      BY <1>2, <1>7, <2>2, <2>5
    <3>2. m = p
      BY <1>3, <3>1
    <3> QED BY <1>1, <2>4, <3>2
  <2>6. CASE l \in 1..n
    <3>1. PICK b \in Was : frame.called[l] = Id(frame.node, b)
      BY <1>1, <1>4, <2>6 DEF CallsWhatItPassed, Was
    <3>2. m \in Was
      <4>1. m # p
        BY <1>2, <1>7, <2>6, <2>2, <3>1
      <4> QED BY <1>3, <4>1
    <3>3. frame.called[j] = Id(frame.node, k) /\ frame.called[l] = Id(frame.node, m)
      BY <1>2, <1>7, <2>1, <2>6
    <3> QED BY <1>1, <1>4, <1>7, <2>1, <2>4, <2>6, <3>2, <3>3 DEF CallsWhatItPassed, Was
  <2> QED BY <2>1, <2>5, <2>6
<1>8. CallsWhatItPassed(next)
  BY <1>5, <1>6, <1>7 DEF CallsWhatItPassed
<1>9. AtItsLastCall(next)
  BY <1>2 DEF AtItsLastCall, p
<1> QED BY <1>8, <1>9 DEF Right

\* Moving on from a handler passes it; it is called, or of another verb.
LEMMA RightWhenMoving ==
  ASSUME IInv, NEW frame \in Frame, Placed(frame), Right(frame),
         NEW next \in Frame, next.node = frame.node, next.verb = frame.verb,
         next.called = frame.called,
         \/ /\ frame.at # "match"
            /\ \/ next.at # "match" /\ next.next = frame.next
               \/ next.at = "match" /\ next.next = frame.next + 1
         \/ /\ frame.at = "match" /\ next.at = "match" /\ next.next = frame.next + 1
            /\ nodes[frame.node].handlers[frame.next].verb # frame.verb
  PROVE  Right(next)
<1>1. frame.next \in Nat \ {0} /\ Passed(frame) \in Nat
  BY FrameFacts
<1>2. PassedOfVerb(next) = PassedOfVerb(frame)
  <2>1. CASE frame.at # "match"
    <3>1. Passed(next) = Passed(frame)
      BY <1>1, <2>1 DEF Passed
    <3> QED BY <3>1 DEF PassedOfVerb
  <2>2. CASE frame.at = "match"
    <3>1. Passed(frame) = frame.next - 1 /\ Passed(next) = frame.next
      BY <1>1, <2>2 DEF Passed
    <3>2. 1..frame.next = (1..(frame.next - 1)) \cup {frame.next}
      BY <1>1
    <3> QED BY <2>2, <3>1, <3>2 DEF PassedOfVerb
  <2> QED BY <2>1, <2>2
<1>3. CallsWhatItPassed(next)
  BY <1>2 DEF Right, CallsWhatItPassed
<1>4. AtItsLastCall(next)
  BY DEF Right, AtItsLastCall
<1> QED BY <1>3, <1>4 DEF Right

\* What is right depends on the nodes and the activation alone.
LEMMA RightInSameTable ==
  ASSUME nodes' = nodes, NEW f, Right(stack'[f])
  PROVE  Right(stack[f])'
<1>1. PassedOfVerb(stack[f])' = PassedOfVerb(stack'[f])
  BY DEF PassedOfVerb, Passed
<1>2. CallsWhatItPassed(stack[f])'
  <2>1. CallsWhatItPassed(stack'[f])
    BY DEF Right
  <2> QED BY <1>1, <2>1 DEF CallsWhatItPassed, Id
<1>3. AtItsLastCall(stack[f])'
  <2>1. AtItsLastCall(stack'[f])
    BY DEF Right
  <2> QED BY <2>1 DEF AtItsLastCall, Id
<1> QED BY <1>2, <1>3 DEF Right

\* The innermost activation is replaced by one that is as right.
LEMMA TraceReplaced ==
  ASSUME IInv, CallsInv, TraceInv, stack # << >>, nodes' = nodes,
         NEW frame \in Frame, Right(frame), stack' = Replace(frame)
  PROVE  TraceInv'
<1>1. stack \in Seq(Frame)
  BY DEF CallsInv, StackOK
<1>2. /\ DOMAIN stack' = DOMAIN stack
      /\ \A f \in DOMAIN stack : stack'[f] = IF f = Len(stack) THEN frame ELSE stack[f]
  BY <1>1, ReplaceFacts DEF Replace
<1>3. \A f \in DOMAIN stack' : Right(stack'[f])
  BY <1>2 DEF TraceInv
<1>4. \A f : Right(stack'[f]) => Right(stack[f])'
  BY RightInSameTable
<1> QED BY <1>3, <1>4 DEF TraceInv

\* A table that grows, or has another object, leaves the activations right.
LEMMA TraceAsTableGrows ==
  ASSUME IInv, CallsInv, TraceInv, IInv', stack' = stack,
         \A i \in DOMAIN nodes : \A k \in DOMAIN nodes[i].handlers :
           nodes'[i].handlers[k] = nodes[i].handlers[k]
  PROVE  TraceInv'
<1>1. \A f \in DOMAIN stack : stack[f] \in Frame /\ Placed(stack[f]) /\ Right(stack[f])
  BY LenProperties, ElementOfSeq DEF CallsInv, StackOK, TraceInv
<1>2. ASSUME NEW frame \in Frame, Placed(frame), Right(frame) PROVE Right(frame)'
  BY <1>2, RightAsTableGrows
<1>3. \A f \in DOMAIN stack' : Right(stack[f])'
  <2>1. ASSUME NEW f \in DOMAIN stack PROVE Right(stack[f])'
    <3>1. stack[f] \in Frame /\ Placed(stack[f]) /\ Right(stack[f])
      BY <1>1
    <3> DEFINE frame == stack[f]
    <3>2. \E g \in Frame : g = frame /\ Placed(g) /\ Right(g)
      BY <3>1
    <3>3. PICK g \in Frame : g = frame /\ Placed(g) /\ Right(g)
      BY <3>2
    <3>4. Right(g)'
      BY <1>2, <3>3
    <3>5. stack'[f] = g
      BY <3>3
    <3> QED BY <3>4, <3>5 DEF Right, CallsWhatItPassed, PassedOfVerb, Passed, AtItsLastCall, Id
  <2> QED BY <2>1
<1> QED BY <1>3 DEF TraceInv

\* What binding leaves of the table.
LEMMA TableIsKept ==
  ASSUME IInv, NEW name \in Names, NEW verb \in Verbs, NEW target \in Targets,
         NEW hooks \in Hooks, Bind(name, verb, target, hooks)
  PROVE  \A i \in DOMAIN nodes : \A k \in DOMAIN nodes[i].handlers :
           nodes'[i].handlers[k] = nodes[i].handlers[k]
<1>1. CASE Bound(name)
  <2>1. PICK n \in DOMAIN nodes, h \in Binding, more \in Seq(Binding) :
          /\ \A k \in DOMAIN nodes[n].handlers : more[k] = nodes[n].handlers[k]
          /\ \A i \in DOMAIN nodes :
               nodes'[i].handlers = IF i = n THEN more ELSE nodes[i].handlers
    BY <1>1, BindFoundTable
  <2> QED BY <2>1
<1>2. CASE ~Bound(name)
  <2>1. \A i \in DOMAIN nodes : nodes'[i] = nodes[i]
    BY <1>2, BindNewTable
  <2> QED BY <2>1
<1> QED BY <1>1, <1>2

\* Rebinding leaves the names and the handlers of all nodes, and replaces at
\* most the object of the first.
LEMMA RebindHandlers ==
  ASSUME IInv, NEW name \in Names, NEW target \in Targets, Rebind(name, target)
  PROVE  /\ DOMAIN nodes' = DOMAIN nodes
         /\ \A i \in DOMAIN nodes :
              /\ nodes'[i].name = nodes[i].name
              /\ nodes'[i].handlers = nodes[i].handlers
              /\ nodes'[i].object = IF i = 1 /\ name = Global
                                      THEN target ELSE nodes[i].object
<1>1. /\ nodes \in Seq(Node) /\ 1 \in DOMAIN nodes /\ nodes[1] \in Node
      /\ nodes[1].name = Global
  BY DEF IInv, NodesOK, TableInv, FirstIsGlobal
<1>2. CASE nodes[1].name = name
  <2> DEFINE node == [nodes[1] EXCEPT !.object = target]
  <2>1. nodes' = [nodes EXCEPT ![1] = node]
    BY <1>2 DEF Rebind
  <2>2. /\ node.handlers = nodes[1].handlers /\ node.name = nodes[1].name
        /\ node.object = target
    BY <1>1 DEF Node
  <2> HIDE DEF node
  <2>3. DOMAIN nodes' = DOMAIN nodes
        /\ \A i \in DOMAIN nodes : nodes'[i] = IF i = 1 THEN node ELSE nodes[i]
    BY <1>1, <2>1
  <2> QED BY <1>1, <1>2, <2>2, <2>3
<1>3. CASE nodes[1].name # name
  <2>1. nodes' = nodes
    BY <1>3 DEF Rebind
  <2> QED BY <1>1, <1>3, <2>1
<1> QED BY <1>2, <1>3

\* The innermost activation is one of the stack.
LEMMA TopIsRight ==
  ASSUME IInv, CallsInv, TraceInv, stack # << >>
  PROVE  /\ Top \in Frame /\ Placed(Top) /\ Right(Top)
         /\ Handlers = nodes[Top.node].handlers
         /\ Handler = nodes[Top.node].handlers[Top.next]
         /\ Handler.id = Id(Top.node, Top.next)
<1>1. /\ Len(stack) \in DOMAIN stack /\ Top = stack[Len(stack)]
      /\ Top \in Frame /\ Placed(Top)
  BY TopFacts
<1> QED BY <1>1 DEF TraceInv, Handlers, Handler, Id

\* The fields of the frames of a step inside a call, and of a call.
MovedTo(frame, place) == [frame EXCEPT !.at = place]
Calling(frame, place, id) == [frame EXCEPT !.called = Append(@, id), !.at = place]

LEMMA AtFields ==
  ASSUME NEW frame \in Frame, NEW place \in Places
  PROVE  LET next == MovedTo(frame, place) IN
           /\ next \in Frame /\ next.node = frame.node /\ next.verb = frame.verb
           /\ next.called = frame.called /\ next.next = frame.next /\ next.at = place
BY DEF Frame, MovedTo

LEMMA CalledFields ==
  ASSUME NEW frame \in Frame, NEW place \in Places, NEW id \in Ids
  PROVE  LET next == Calling(frame, place, id) IN
           /\ next \in Frame /\ next.node = frame.node /\ next.verb = frame.verb
           /\ next.called = Append(frame.called, id)
           /\ next.next = frame.next /\ next.at = place
<1> DEFINE called == Append(frame.called, id)
           next == [frame EXCEPT !.called = called, !.at = place]
<1>1. called \in Seq(Ids)
  BY AppendProperties DEF Frame
<1>2. Calling(frame, place, id) = next
  BY DEF Frame, Calling
<1> HIDE DEF called
<1>3. /\ next \in Frame /\ next.node = frame.node /\ next.verb = frame.verb
      /\ next.called = called /\ next.next = frame.next /\ next.at = place
  BY <1>1 DEF Frame
<1> HIDE DEF next
<1> QED BY <1>2, <1>3 DEF called

\* Every step leaves every activation with the calls it should have made.
LEMMA MatchTrace ==
  ASSUME IInv, CallsInv, TraceInv, Match
  PROVE  TraceInv'
<1>1. /\ nodes' = nodes /\ stack # << >> /\ Top.at = "match"
      /\ Top.next <= Len(Handlers)
  BY DEF Match, At
<1>2. /\ Top \in Frame /\ Placed(Top) /\ Right(Top)
      /\ Handlers = nodes[Top.node].handlers /\ Handler = nodes[Top.node].handlers[Top.next]
      /\ Handler.id = Id(Top.node, Top.next)
  BY <1>1, TopIsRight
<1>3. Top.next \in DOMAIN Handlers /\ Handler.id \in Ids
  BY <1>1, TopFacts
<1>4. CASE Handler.verb # Top.verb
  <2> DEFINE frame == GoOn(Top)
  <2>1. /\ frame \in Frame /\ frame.node = Top.node /\ frame.verb = Top.verb
        /\ frame.called = Top.called /\ frame.next = Top.next + 1 /\ frame.at = "match"
    BY <1>2, GoOnFields
  <2>2. stack' = Replace(frame)
    BY <1>4 DEF Match
  <2> HIDE DEF frame
  <2>3. Right(frame)
    BY <1>1, <1>2, <1>4, <2>1, RightWhenMoving
  <2> QED BY <1>1, <2>1, <2>2, <2>3, TraceReplaced
<1>5. CASE Handler.verb = Top.verb
  <2> DEFINE place == IF "pre" \in Handler.hooks THEN "pre" ELSE "op"
             id == Handler.id
             frame == Calling(Top, place, id)
  <2>1. place \in Places /\ place # "match" /\ id \in Ids
    BY <1>3 DEF Places
  <2>2. stack' = Replace(frame)
    BY <1>5 DEF Match, Calling
  <2> HIDE DEF place, id
  <2>3. /\ frame \in Frame /\ frame.node = Top.node /\ frame.verb = Top.verb
        /\ frame.called = Append(Top.called, id)
        /\ frame.next = Top.next /\ frame.at = place
    BY <1>2, <2>1, CalledFields
  <2> HIDE DEF frame
  <2>4. frame.called = Append(Top.called, Id(Top.node, Top.next))
    BY <1>2, <2>3 DEF id
  <2>5. Right(frame)
    BY <1>1, <1>2, <1>3, <1>5, <2>1, <2>3, <2>4, RightAfterCall
  <2> QED BY <1>1, <2>2, <2>3, <2>5, TraceReplaced
<1> QED BY <1>4, <1>5

LEMMA ReturnsTrace ==
  ASSUME IInv, CallsInv, TraceInv, PreReturns \/ OpReturns \/ PostReturns
  PROVE  TraceInv'
<1>1. nodes' = nodes /\ stack # << >> /\ Top.at # "match"
  BY DEF PreReturns, OpReturns, PostReturns, At
<1>2. Top \in Frame /\ Placed(Top) /\ Right(Top)
  BY <1>1, TopIsRight
<1>3. \/ stack' = stack
      \/ stack' = Replace(GoOn(Top))
      \/ \E place \in {"op", "post"} : stack' = Replace(MovedTo(Top, place))
  BY DEF PreReturns, OpReturns, PostReturns, MovedTo
<1>4. CASE stack' = stack
  <2>1. \A f : Right(stack'[f]) => Right(stack[f])'
    BY <1>1, RightInSameTable
  <2> QED BY <1>4, <2>1 DEF TraceInv
<1>5. CASE stack' = Replace(GoOn(Top))
  <2> DEFINE frame == GoOn(Top)
  <2>1. /\ frame \in Frame /\ frame.node = Top.node /\ frame.verb = Top.verb
        /\ frame.called = Top.called /\ frame.next = Top.next + 1 /\ frame.at = "match"
    BY <1>2, GoOnFields
  <2> HIDE DEF frame
  <2>2. Right(frame)
    BY <1>1, <1>2, <2>1, RightWhenMoving
  <2>3. stack' = Replace(frame)
    BY <1>5 DEF frame
  <2> QED BY <1>1, <2>1, <2>2, <2>3, TraceReplaced
<1>6. CASE \E place \in {"op", "post"} : stack' = Replace(MovedTo(Top, place))
  <2>1. PICK place \in {"op", "post"} : stack' = Replace(MovedTo(Top, place))
    BY <1>6
  <2> DEFINE frame == MovedTo(Top, place)
  <2>2. place \in Places /\ place # "match"
    BY DEF Places
  <2>3. /\ frame \in Frame /\ frame.node = Top.node /\ frame.verb = Top.verb
        /\ frame.called = Top.called /\ frame.next = Top.next /\ frame.at = place
    BY <1>2, <2>2, AtFields
  <2>4. stack' = Replace(frame)
    BY <2>1
  <2> HIDE DEF frame
  <2>5. Right(frame)
    BY <1>1, <1>2, <2>2, <2>3, RightWhenMoving
  <2> QED BY <1>1, <2>3, <2>4, <2>5, TraceReplaced
<1> QED BY <1>3, <1>4, <1>5, <1>6

LEMMA ExecuteTrace ==
  ASSUME IInv, CallsInv, TraceInv, NEW name \in Names, NEW verb \in Verbs,
         Execute(name, verb)
  PROVE  TraceInv'
<1> DEFINE frame == [node |-> find_node(name), verb |-> verb, next |-> 1,
                     at |-> "match", called |-> << >>]
<1>0. nodes' = nodes /\ stack' = IF Bound(name) THEN Append(stack, frame) ELSE stack
  BY DEF Execute
<1>1. nodes' = nodes /\ (stack' = stack \/ (Bound(name) /\ stack' = Append(stack, frame)))
  <2> HIDE DEF frame
  <2> QED BY <1>0
<1> HIDE DEF frame
<1>2. \A f : Right(stack'[f]) => Right(stack[f])'
  BY <1>1, RightInSameTable
<1>3. CASE stack' = stack
  BY <1>2, <1>3 DEF TraceInv
<1>4. CASE Bound(name) /\ stack' = Append(stack, frame)
  <2> USE DEF frame
  <2>1. frame \in Frame
    <3>1. find_node(name) \in Nat
      BY <1>4, FindNode, HandlerFacts
    <3>2. << >> \in Seq(Ids)
      BY EmptySeq
    <3> QED BY <3>1, <3>2 DEF Frame, Places
  <2>2. Right(frame)
    <3>1. DOMAIN frame.called = {} /\ PassedOfVerb(frame) = {}
      BY DEF PassedOfVerb, Passed
    <3>2. frame.at = "match"
      OBVIOUS
    <3> HIDE DEF frame
    <3> QED BY <3>1, <3>2 DEF Right, CallsWhatItPassed, AtItsLastCall
  <2> HIDE DEF frame
  <2>3. stack \in Seq(Frame)
    BY DEF CallsInv, StackOK
  <2>4. /\ Len(stack) \in Nat /\ DOMAIN stack = 1..Len(stack)
        /\ DOMAIN stack' = 1..(Len(stack) + 1)
        /\ \A i \in 1..Len(stack) : stack'[i] = stack[i]
        /\ stack'[Len(stack) + 1] = frame
    BY <1>4, <2>1, <2>3, AppendProperties, LenProperties
  <2>5. \A f \in DOMAIN stack' : Right(stack'[f])
    <3>1. \A f \in DOMAIN stack' : f \in 1..Len(stack) \/ f = Len(stack) + 1
      BY <2>4
    <3> QED BY <2>2, <2>4, <3>1 DEF TraceInv
  <2> QED BY <1>2, <2>5 DEF TraceInv
<1> QED BY <1>1, <1>3, <1>4

LEMMA ReturnTrace ==
  ASSUME IInv, CallsInv, TraceInv, Return
  PROVE  TraceInv'
<1>1. nodes' = nodes /\ stack # << >> /\ stack' = Front(stack)
  BY DEF Return, At
<1>2. stack \in Seq(Frame)
  BY DEF CallsInv, StackOK
<1>3. /\ Len(stack) \in Nat \ {0} /\ DOMAIN stack = 1..Len(stack)
      /\ DOMAIN stack' = 1..(Len(stack) - 1)
      /\ \A f \in 1..(Len(stack) - 1) : stack'[f] = stack[f]
  BY <1>1, <1>2, FrontElements
<1>4. \A f \in DOMAIN stack' : Right(stack'[f])
  <2>1. \A f \in DOMAIN stack' : f \in DOMAIN stack
    BY <1>3
  <2> QED BY <1>3, <2>1 DEF TraceInv
<1>5. \A f : Right(stack'[f]) => Right(stack[f])'
  BY <1>1, RightInSameTable
<1> QED BY <1>4, <1>5 DEF TraceInv

LEMMA InitTrace == Init => TraceInv
BY EmptySeq DEF Init, TraceInv

LEMMA NextTrace == IInv /\ CallsInv /\ TraceInv /\ [Next]_vars => TraceInv'
<1> SUFFICES ASSUME IInv, CallsInv, TraceInv, [Next]_vars PROVE TraceInv'
  OBVIOUS
<1>0. IInv'
  BY NextIInv
<1>1. CASE \E name \in Names, verb \in Verbs, target \in Targets, hooks \in Hooks :
             Bind(name, verb, target, hooks)
  <2>1. stack' = stack
    BY <1>1 DEF Bind
  <2> QED BY <1>0, <1>1, <2>1, TableIsKept, TraceAsTableGrows
<1>2. CASE \E name \in Rebindable, target \in Targets : Rebind(name, target)
  <2>1. stack' = stack
    BY <1>2 DEF Rebind
  <2>2. PICK name \in Rebindable, target \in Targets : Rebind(name, target)
    BY <1>2
  <2>3. \A i \in DOMAIN nodes : nodes'[i].handlers = nodes[i].handlers
    BY <2>2, RebindHandlers
  <2> QED BY <1>0, <2>1, <2>3, TraceAsTableGrows
<1>3. CASE UNCHANGED <<nodes, stack>>
  BY <1>0, <1>3, TraceAsTableGrows
<1>4. CASE \E name \in Clearable : Clear(name)
  BY <1>3, <1>4 DEF Clear
<1>5. CASE \E name \in Names, verb \in Verbs : Execute(name, verb)
  BY <1>5, ExecuteTrace
<1>6. CASE Match
  BY <1>6, MatchTrace
<1>7. CASE PreReturns \/ OpReturns \/ PostReturns
  BY <1>7, ReturnsTrace
<1>8. CASE Return
  BY <1>8, ReturnTrace
<1>9. CASE UNCHANGED vars
  BY <1>3, <1>9 DEF vars
<1> QED BY <1>1, <1>2, <1>4, <1>5, <1>6, <1>7, <1>8, <1>9 DEF Next

\* In every reachable state of every instance every command in progress has
\* called the handlers of its verb that it has passed, each once, in the order
\* they were bound, and no other.
THEOREM PassedCalled == Spec => []PassedAreCalled
<1>1. TraceInv => PassedAreCalled
  BY DEF TraceInv, Right, PassedAreCalled
<1> QED BY <1>1, InitIInv, NextIInv, InitCalls, NextCalls, InitTrace, NextTrace, PTL
       DEF Spec

-----------------------------------------------------------------------------
(* The list implements the map.                                            *)

\* The map has what the nodes have.
LEMMA MapFacts ==
  ASSUME IInv, NEW i \in DOMAIN nodes
  PROVE  /\ Bound(nodes[i].name) /\ find_node(nodes[i].name) = i
         /\ nodes[i].name \in Names
         /\ handlersOf[nodes[i].name] = OnObject(nodes[i])
<1>1. nodes[i].name \in Names
  BY HandlerFacts
<1>2. Bound(nodes[i].name)
  BY DEF Bound, Found
<1>3. find_node(nodes[i].name) = i
  <2>1. /\ find_node(nodes[i].name) \in DOMAIN nodes
        /\ nodes[find_node(nodes[i].name)].name = nodes[i].name
    BY <1>1, <1>2, FindNode
  <2> QED BY <2>1 DEF IInv, TableInv, NamesAreUnique
<1> QED BY <1>1, <1>2, <1>3 DEF handlersOf

\* The place of the last call: behind it no handler of the verb is passed.
LEMMA LastFacts ==
  ASSUME IInv, NEW frame \in Frame, Placed(frame), Right(frame)
  PROVE  /\ LastCalled(frame) \in {0} \cup PassedOfVerb(frame)
         /\ LastCalled(frame) \in Nat
         /\ \A k \in PassedOfVerb(frame) : k <= LastCalled(frame)
         /\ frame.at # "match" => LastCalled(frame) = frame.next
<1> DEFINE n == Len(frame.called)
           last == LastCalled(frame)
           handlers == nodes[frame.node].handlers
<1>1. /\ frame.node \in DOMAIN nodes /\ frame.next \in Nat \ {0}
      /\ frame.called \in Seq(Ids) /\ n \in Nat /\ DOMAIN frame.called = 1..n
      /\ PassedOfVerb(frame) \subseteq DOMAIN handlers
      /\ PassedOfVerb(frame) \subseteq 1..Passed(frame) /\ Passed(frame) \in Nat
  BY FrameFacts
<1>2. CallsWhatItPassed(frame) /\ AtItsLastCall(frame)
  BY DEF Right
<1>3. CASE frame.called = << >>
  <2>1. last = 0 /\ DOMAIN frame.called = {}
    BY <1>3 DEF LastCalled
  <2>2. PassedOfVerb(frame) = {}
    BY <1>2, <2>1 DEF CallsWhatItPassed
  <2>3. frame.at = "match"
    BY <1>2, <1>3 DEF AtItsLastCall
  <2> QED BY <2>1, <2>2, <2>3
<1>4. CASE frame.called # << >>
  <2>1. n \in DOMAIN frame.called /\ n \in Nat \ {0}
    BY <1>1, <1>4, EmptySeq
  <2>2. PICK k \in PassedOfVerb(frame) : frame.called[n] = Id(frame.node, k)
    BY <1>2, <2>1 DEF CallsWhatItPassed
  <2>3. k \in DOMAIN handlers /\ k \in Nat
    BY <1>1, <2>2
  <2>4. Last(frame.called) = Id(frame.node, k)
    BY <2>2 DEF Last
  <2>5. \A l \in DOMAIN handlers : Id(frame.node, l) = Id(frame.node, k) => l = k
    BY <1>1, <2>3 DEF IInv, TableInv, BindingsAreUnique
  <2>6. last = k
    <3>1. last = CHOOSE l \in DOMAIN handlers : Id(frame.node, l) = Last(frame.called)
      BY <1>4 DEF LastCalled
    <3> HIDE DEF last, handlers
    <3> QED BY <2>3, <2>4, <2>5, <3>1
  <2>7. ASSUME NEW m \in PassedOfVerb(frame) PROVE m <= k
    <3>1. PICK j \in DOMAIN frame.called : frame.called[j] = Id(frame.node, m)
      BY <1>2 DEF CallsWhatItPassed
    <3>2. m \in DOMAIN handlers /\ m \in Nat
      BY <1>1
    <3>3. CASE j = n
      BY <2>2, <2>3, <2>5, <3>1, <3>2, <3>3
    <3>4. CASE j # n
      <4>1. j < n
        BY <1>1, <3>4
      <4>2. m < k
        BY <1>2, <2>1, <2>2, <3>1, <4>1 DEF CallsWhatItPassed
      <4> QED BY <2>3, <3>2, <4>2
    <3> QED BY <3>3, <3>4
  <2>8. ASSUME frame.at # "match" PROVE k = frame.next
    <3>1. Id(frame.node, k) = Id(frame.node, frame.next) /\ frame.next \in DOMAIN handlers
      BY <1>2, <2>4, <2>8 DEF AtItsLastCall, Placed
    <3> QED BY <2>5, <3>1
  <2> QED BY <2>2, <2>3, <2>6, <2>7, <2>8
<1> QED BY <1>3, <1>4

\* The runs are the images of the activations.
Image == [frame \in Frame |-> RunOf(frame)]

\* What the handlers of a node are, with its object.
LEMMA OnObjectFields ==
  ASSUME NEW node
  PROVE  /\ DOMAIN OnObject(node) = DOMAIN node.handlers
         /\ \A k \in DOMAIN node.handlers :
              /\ OnObject(node)[k].verb = node.handlers[k].verb
              /\ OnObject(node)[k].hooks = node.handlers[k].hooks
BY DEF OnObject

\* What the map and the runs are where an activation is on top.
LEMMA RunsFacts ==
  ASSUME IInv, CallsInv, TraceInv
  PROVE  /\ DOMAIN Image = Frame /\ stack \in Seq(Frame)
         /\ runsOf = ImageOf(Image, stack)
         /\ stack # << >> =>
              /\ runsOf # << >> /\ Reg!Top = RunOf(Top)
              /\ Top \in Frame /\ Placed(Top) /\ Right(Top)
              /\ handlersOf[RunOf(Top).name] = OnObject(nodes[Top.node])
              /\ RunOf(Top).name = nodes[Top.node].name /\ RunOf(Top).verb = Top.verb
              /\ RunOf(Top).last = LastCalled(Top)
              /\ RunOf(Top).inside = (IF Top.at = "match" THEN "none" ELSE Top.at)
              /\ Top.at # "match" => Reg!Current.hooks = Handler.hooks
         /\ stack = << >> => runsOf = << >>
<1>1. DOMAIN Image = Frame /\ stack \in Seq(Frame)
  BY DEF Image, CallsInv, StackOK
<1>2. runsOf = ImageOf(Image, stack)
  <2>1. \A f \in DOMAIN stack : stack[f] \in Frame
    BY <1>1, LenProperties, ElementOfSeq
  <2> QED BY <2>1 DEF runsOf, Image, ImageOf
<1>3. /\ stack # << >> => runsOf # << >> /\ Last(runsOf) = Image[Last(stack)]
      /\ stack = << >> => runsOf = << >>
  <2> HIDE DEF Image
  <2>1. /\ stack = << >> <=> ImageOf(Image, stack) = << >>
        /\ stack # << >> => Last(ImageOf(Image, stack)) = Image[Last(stack)]
    <3>1. stack \in Seq(DOMAIN Image)
      BY <1>1
    <3> QED BY <3>1, ImageOfSeq
  <2> QED BY <1>2, <2>1
<1>4. ASSUME stack # << >>
      PROVE  /\ Reg!Top = RunOf(Top)
             /\ Top \in Frame /\ Placed(Top) /\ Right(Top)
             /\ handlersOf[RunOf(Top).name] = OnObject(nodes[Top.node])
             /\ RunOf(Top).name = nodes[Top.node].name /\ RunOf(Top).verb = Top.verb
             /\ RunOf(Top).last = LastCalled(Top)
             /\ RunOf(Top).inside = (IF Top.at = "match" THEN "none" ELSE Top.at)
             /\ Top.at # "match" => Reg!Current.hooks = Handler.hooks
  <2>1. /\ Top \in Frame /\ Placed(Top) /\ Right(Top)
        /\ Handlers = nodes[Top.node].handlers
        /\ Handler = nodes[Top.node].handlers[Top.next]
    BY <1>4, TopIsRight
  <2>2. Reg!Top = RunOf(Top)
    <3>1. Reg!Top = Last(runsOf)
      BY DEF Reg!Top, Reg!Last, Last
    <3> QED BY <1>3, <1>4, <2>1, <3>1 DEF Top, Image
  <2>3. /\ RunOf(Top).name = nodes[Top.node].name /\ RunOf(Top).verb = Top.verb
        /\ RunOf(Top).last = LastCalled(Top)
        /\ RunOf(Top).inside = (IF Top.at = "match" THEN "none" ELSE Top.at)
    BY DEF RunOf
  <2>4. handlersOf[RunOf(Top).name] = OnObject(nodes[Top.node])
    BY <2>1, <2>3, MapFacts DEF Placed
  <2>5. ASSUME Top.at # "match" PROVE Reg!Current.hooks = Handler.hooks
    <3>1. LastCalled(Top) = Top.next
      BY <2>1, <2>5, LastFacts
    <3>2. Reg!Current = OnObject(nodes[Top.node])[Top.next]
      BY <2>2, <2>3, <2>4, <3>1 DEF Reg!Current
    <3>3. Top.next \in DOMAIN nodes[Top.node].handlers
      BY <2>1, <2>5 DEF Placed
    <3> QED BY <2>1, <3>2, <3>3, OnObjectFields
  <2> QED BY <2>1, <2>2, <2>3, <2>4, <2>5
<1> QED BY <1>1, <1>2, <1>3, <1>4

\* A step that leaves the nodes leaves the map, and the run of each activation.
LEMMA SameMap ==
  ASSUME nodes' = nodes
  PROVE  /\ handlersOf' = handlersOf
         /\ runsOf' = [f \in DOMAIN stack' |-> RunOf(stack'[f])]
<1>1. \A n \in Names : /\ (Bound(n))' = Bound(n) /\ (find_node(n))' = find_node(n)
  BY DEF Bound, find_node, Found
<1>2. handlersOf' = handlersOf
  BY <1>1 DEF handlersOf, OnObject
<1>3. \A f \in DOMAIN stack' : RunOf(stack[f])' = RunOf(stack'[f])
  BY DEF RunOf, LastCalled, Id
<1>4. runsOf' = [f \in DOMAIN stack' |-> RunOf(stack'[f])]
  BY <1>3 DEF runsOf
<1> QED BY <1>2, <1>4

LEMMA RunsOfSeq ==
  ASSUME nodes' = nodes, stack' \in Seq(Frame)
  PROVE  runsOf' = ImageOf(Image, stack')
<1>1. \A f \in DOMAIN stack' : stack'[f] \in Frame
  BY LenProperties, ElementOfSeq
<1>2. runsOf' = [f \in DOMAIN stack' |-> RunOf(stack'[f])]
  BY SameMap
<1> QED BY <1>1, <1>2 DEF ImageOf, Image

\* A step of the innermost activation is one of the innermost run.
LEMMA RunsReplaced ==
  ASSUME IInv, CallsInv, TraceInv, stack # << >>, nodes' = nodes,
         NEW frame \in Frame, stack' = Replace(frame)
  PROVE  runsOf' = Reg!Replace(RunOf(frame))
<1>1. /\ DOMAIN Image = Frame /\ stack \in Seq(Frame)
      /\ runsOf = ImageOf(Image, stack) /\ Image[frame] = RunOf(frame)
  BY RunsFacts DEF Image
<1>2. Front(stack) \in Seq(Frame) /\ stack' = Append(Front(stack), frame)
      /\ stack' \in Seq(Frame)
  BY <1>1, FrontElements, AppendProperties, LenProperties DEF Replace
<1>3. runsOf' = ImageOf(Image, stack')
  BY <1>2, RunsOfSeq
<1>4. ImageOf(Image, stack') = Append(ImageOf(Image, Front(stack)), Image[frame])
  <2> HIDE DEF Image
  <2>1. Front(stack) \in Seq(DOMAIN Image) /\ frame \in DOMAIN Image
    BY <1>1, <1>2
  <2> QED BY <1>2, <2>1, ImageOfAppend
<1>5. ImageOf(Image, Front(stack)) = Front(ImageOf(Image, stack))
  <2> HIDE DEF Image
  <2>1. stack \in Seq(DOMAIN Image)
    BY <1>1
  <2> QED BY <2>1, ImageOfFront
<1>6. Reg!Replace(RunOf(frame)) = Append(Front(runsOf), RunOf(frame))
  BY DEF Reg!Replace, Reg!Front, Front
<1> QED BY <1>1, <1>3, <1>4, <1>5, <1>6

LEMMA RunsAppended ==
  ASSUME IInv, CallsInv, TraceInv, nodes' = nodes,
         NEW frame \in Frame, stack' = Append(stack, frame)
  PROVE  runsOf' = Append(runsOf, RunOf(frame))
<1>1. /\ DOMAIN Image = Frame /\ stack \in Seq(Frame)
      /\ runsOf = ImageOf(Image, stack) /\ Image[frame] = RunOf(frame)
  BY RunsFacts DEF Image
<1>2. stack' \in Seq(Frame)
  BY <1>1, AppendProperties, LenProperties
<1>3. runsOf' = ImageOf(Image, stack')
  BY <1>2, RunsOfSeq
<1>4. ImageOf(Image, stack') = Append(ImageOf(Image, stack), Image[frame])
  <2> HIDE DEF Image
  <2>1. stack \in Seq(DOMAIN Image) /\ frame \in DOMAIN Image
    BY <1>1
  <2> QED BY <2>1, ImageOfAppend
<1> QED BY <1>1, <1>3, <1>4

LEMMA RunsFront ==
  ASSUME IInv, CallsInv, TraceInv, stack # << >>, nodes' = nodes, stack' = Front(stack)
  PROVE  runsOf' = Reg!Front(runsOf)
<1>1. /\ DOMAIN Image = Frame /\ stack \in Seq(Frame) /\ runsOf = ImageOf(Image, stack)
  BY RunsFacts
<1>2. stack' \in Seq(Frame)
  BY <1>1, FrontElements
<1>3. runsOf' = ImageOf(Image, stack')
  BY <1>2, RunsOfSeq
<1>4. ImageOf(Image, stack') = Front(ImageOf(Image, stack))
  <2> HIDE DEF Image
  <2>1. stack \in Seq(DOMAIN Image)
    BY <1>1
  <2> QED BY <2>1, ImageOfFront
<1>5. Reg!Front(runsOf) = Front(runsOf)
  BY DEF Reg!Front, Front
<1> QED BY <1>1, <1>3, <1>4, <1>5

\* The application may call headcrab where the map says it may.
LEMMA CallerMaps ==
  ASSUME IInv, CallsInv, TraceInv, Caller
  PROVE  Reg!Caller
<1>1. status = "running" /\ (stack # << >> => Inside)
  BY DEF Caller, Alive
<1>2. ASSUME runsOf # << >> PROVE Reg!Inside
  <2>1. stack # << >> /\ Inside
    BY <1>1, <1>2, RunsFacts
  <2>2. Top.at # "match" /\ (Top.at = "op" => "op" \in Handler.hooks)
    BY <2>1 DEF Inside
  <2>3. Reg!Top.inside = Top.at /\ Reg!Current.hooks = Handler.hooks
    BY <2>1, <2>2, RunsFacts
  <2>4. Top.at # "none"
    BY <2>1, RunsFacts DEF Frame, Places
  <2> QED BY <2>2, <2>3, <2>4 DEF Reg!Inside
<1> QED BY <1>1, <1>2 DEF Reg!Caller

\* Clearing the global name, or one that is not bound, does nothing; any other
\* crashes.
LEMMA ClearRefines ==
  ASSUME NEW name \in Clearable, Clear(name)
  PROVE  Crashes \/ UNCHANGED Reg!registryVars
<1>1. CASE name = Global \/ ~Bound(name)
  <2>1. nodes' = nodes /\ stack' = stack /\ status' = status
    BY <1>1 DEF Clear
  <2>2. handlersOf' = handlersOf /\ runsOf' = runsOf
    BY <2>1, SameMap DEF runsOf
  <2> QED BY <2>1, <2>2 DEF Reg!registryVars
<1>2. CASE name # Global /\ Bound(name)
  <2>1. status' = "fault"
    BY <1>2 DEF Clear
  <2>2. name \in Names \ {Global}
    BY <1>2
  <2>3. ClearsBound
    BY <1>2, <2>2 DEF ClearsBound
  <2> QED BY <2>1, <2>3 DEF Crashes
<1> QED BY <1>1, <1>2

LEMMA ExecuteRefines ==
  ASSUME IInv, CallsInv, TraceInv, NEW name \in Names, NEW verb \in Verbs,
         Execute(name, verb)
  PROVE  [Reg!Next]_Reg!registryVars
<1> DEFINE frame == [node |-> find_node(name), verb |-> verb, next |-> 1,
                     at |-> "match", called |-> << >>]
<1>1. /\ nodes' = nodes /\ status' = status
      /\ stack' = IF Bound(name) THEN Append(stack, frame) ELSE stack
  BY DEF Execute
<1>2. handlersOf' = handlersOf
  BY <1>1, SameMap
<1>3. CASE Bound(name)
  <2>1. find_node(name) \in Nat /\ nodes[find_node(name)].name = name
    BY <1>3, FindNode, HandlerFacts
  <2>2. frame \in Frame
    <3>1. << >> \in Seq(Ids)
      BY EmptySeq
    <3> QED BY <2>1, <3>1 DEF Frame, Places
  <2>3. RunOf(frame) = [name |-> name, verb |-> verb, last |-> 0, inside |-> "none"]
    BY <2>1 DEF RunOf, LastCalled
  <2> HIDE DEF frame
  <2>4. runsOf' = Append(runsOf, RunOf(frame))
    BY <1>1, <1>3, <2>2, RunsAppended
  <2>5. Reg!Caller
    BY CallerMaps DEF Execute
  <2>6. Reg!Execute(name, verb)
    BY <1>1, <1>2, <2>3, <2>4, <2>5 DEF Reg!Execute
  <2> QED BY <2>6 DEF Reg!Next
<1>4. CASE ~Bound(name)
  <2>1. stack' = stack
    BY <1>1, <1>4
  <2>2. runsOf' = runsOf
    BY <1>1, <2>1, SameMap DEF runsOf
  <2> QED BY <1>1, <1>2, <2>2 DEF Reg!registryVars
<1> QED BY <1>3, <1>4

\* The handler compared, if it is of the verb, is the next of those due.
LEMMA MatchRefines ==
  ASSUME IInv, CallsInv, TraceInv, Match
  PROVE  [Reg!Next]_Reg!registryVars
<1>1. /\ nodes' = nodes /\ status' = status /\ status = "running"
      /\ stack # << >> /\ Top.at = "match" /\ Top.next <= Len(Handlers)
  BY DEF Match, At, Alive
<1>2. /\ Top \in Frame /\ Placed(Top) /\ Right(Top)
      /\ Handlers = nodes[Top.node].handlers /\ Handler = nodes[Top.node].handlers[Top.next]
      /\ Handler.id = Id(Top.node, Top.next)
  BY <1>1, TopIsRight
<1>3. /\ Top.next \in DOMAIN Handlers /\ Handler.id \in Ids
      /\ Top.next \in Nat \ {0} /\ DOMAIN Handlers = 1..Len(Handlers)
      /\ Len(Handlers) \in Nat
  BY <1>1, TopFacts
<1>4. /\ handlersOf' = handlersOf
  BY <1>1, SameMap
<1>5. /\ LastCalled(Top) \in {0} \cup PassedOfVerb(Top) /\ LastCalled(Top) \in Nat
      /\ \A k \in PassedOfVerb(Top) : k <= LastCalled(Top)
  BY <1>2, LastFacts
<1>6. CASE Handler.verb # Top.verb
  <2> DEFINE frame == GoOn(Top)
  <2>1. /\ frame \in Frame /\ frame.node = Top.node /\ frame.verb = Top.verb
        /\ frame.called = Top.called /\ frame.at = "match"
    BY <1>2, GoOnFields
  <2>2. stack' = Replace(frame)
    BY <1>6 DEF Match
  <2> HIDE DEF frame
  <2>3. RunOf(frame) = RunOf(Top)
    BY <1>1, <2>1 DEF RunOf, LastCalled
  <2>4. runsOf' = runsOf
    <3>1. stack \in Seq(Frame)
      BY DEF CallsInv, StackOK
    <3>2. /\ DOMAIN stack' = DOMAIN stack
          /\ \A f \in DOMAIN stack : stack'[f] = IF f = Len(stack) THEN frame ELSE stack[f]
      BY <1>1, <2>1, <2>2, <3>1, ReplaceFacts DEF Replace
    <3>3. Top = stack[Len(stack)]
      BY DEF Top, Last
    <3>4. \A f \in DOMAIN stack : RunOf(stack'[f]) = RunOf(stack[f])
      BY <2>3, <3>2, <3>3
    <3> QED BY <1>1, <3>2, <3>4, SameMap DEF runsOf
  <2> QED BY <1>1, <1>4, <2>4 DEF Reg!registryVars
<1>7. CASE Handler.verb = Top.verb
  <2> DEFINE place == IF "pre" \in Handler.hooks THEN "pre" ELSE "op"
             id == Handler.id
             frame == Calling(Top, place, id)
             k == Top.next
             run == [Reg!Top EXCEPT !.last = k, !.inside = place]
  <2>1. place \in Places /\ place # "match" /\ id \in Ids
    BY <1>3 DEF Places
  <2>2. stack' = Replace(frame)
    BY <1>7 DEF Match, Calling
  <2> HIDE DEF place, id
  <2>3. /\ frame \in Frame /\ frame.node = Top.node /\ frame.verb = Top.verb
        /\ frame.called = Append(Top.called, id)
        /\ frame.next = Top.next /\ frame.at = place
    BY <1>2, <2>1, CalledFields
  <2> HIDE DEF frame
  <2>4. frame.called = Append(Top.called, Id(Top.node, Top.next))
    BY <1>2, <2>3 DEF id
  <2>5. Right(frame)
    BY <1>1, <1>2, <1>3, <1>7, <2>1, <2>3, <2>4, RightAfterCall
  <2>6. Placed(frame)
    BY <1>1, <2>3, StaysPlaced
  <2>7. LastCalled(frame) = k
    BY <2>1, <2>3, <2>5, <2>6, LastFacts
  <2>8. RunOf(frame) = run
    <3>1. Reg!Top = RunOf(Top)
      BY <1>1, RunsFacts
    <3>2. RunOf(frame) = [name |-> nodes[Top.node].name, verb |-> Top.verb,
                          last |-> k, inside |-> place]
      BY <2>1, <2>3, <2>7 DEF RunOf
    <3>3. RunOf(Top) = [name |-> nodes[Top.node].name, verb |-> Top.verb,
                        last |-> LastCalled(Top), inside |-> "none"]
      BY <1>1 DEF RunOf
    <3> DEFINE called == [RunOf(Top) EXCEPT !.last = k]
    <3> HIDE DEF k
    <3>4. called = [name |-> nodes[Top.node].name, verb |-> Top.verb,
                    last |-> k, inside |-> "none"]
      BY <3>3
    <3>5. run = [called EXCEPT !.inside = place]
      BY <3>1
    <3> HIDE DEF called
    <3>6. [called EXCEPT !.inside = place]
            = [name |-> nodes[Top.node].name, verb |-> Top.verb,
               last |-> k, inside |-> place]
      BY <3>4
    <3> QED BY <3>2, <3>5, <3>6
  <2>9. /\ Reg!Top.name = nodes[Top.node].name /\ Reg!Top.verb = Top.verb
        /\ Reg!Top.last = LastCalled(Top) /\ Reg!Top.inside = "none"
        /\ handlersOf[Reg!Top.name] = OnObject(nodes[Top.node])
    BY <1>1, RunsFacts
  <2>10. /\ k \in Reg!Due /\ \A l \in Reg!Due : k <= l
    <3>1. Reg!Due = {l \in DOMAIN Handlers : l > LastCalled(Top) /\ Handlers[l].verb = Top.verb}
      <4> DEFINE image == OnObject(nodes[Top.node])
      <4>1. /\ DOMAIN image = DOMAIN Handlers
            /\ \A l \in DOMAIN Handlers : image[l].verb = Handlers[l].verb
        BY <1>2, OnObjectFields
      <4> HIDE DEF image
      <4>2. Reg!Due = {l \in DOMAIN image : l > LastCalled(Top) /\ image[l].verb = Top.verb}
        BY <2>9 DEF Reg!Due, image
      <4> QED BY <4>1, <4>2
    <3>2. Passed(Top) = k - 1
      BY <1>1 DEF Passed
    <3>3. k > LastCalled(Top)
      BY <1>3, <1>5, <3>2 DEF PassedOfVerb
    <3>4. ASSUME NEW l \in DOMAIN Handlers, l > LastCalled(Top),
                 Handlers[l].verb = Top.verb, ~(k <= l)
          PROVE  FALSE
      <4>1. l \in 1..(k - 1)
        BY <1>3, <3>4
      <4>2. l \in PassedOfVerb(Top)
        BY <1>2, <3>2, <3>4, <4>1 DEF PassedOfVerb
      <4> QED BY <1>3, <1>5, <3>4, <4>2
    <3> QED BY <1>2, <1>3, <1>7, <3>1, <3>3, <3>4
  <2>11. runsOf' = Reg!Replace(run)
    BY <1>1, <2>2, <2>3, <2>8, RunsReplaced
  <2>12. handlersOf[Reg!Top.name][k].hooks = Handler.hooks
    <3>1. k \in DOMAIN nodes[Top.node].handlers /\ nodes[Top.node].handlers[k] = Handler
      BY <1>2, <1>3
    <3>2. OnObject(nodes[Top.node])[k].hooks = nodes[Top.node].handlers[k].hooks
      BY <3>1, OnObjectFields
    <3> QED BY <2>9, <3>1, <3>2
  <2>13. runsOf # << >> /\ ~(status = "fault")
    BY <1>1, RunsFacts
  <2> HIDE DEF k
  <2>14. Reg!Call
    BY <1>1, <1>4, <2>9, <2>10, <2>11, <2>12, <2>13 DEF Reg!Call, Reg!Running, run, place
  <2> QED BY <2>14 DEF Reg!Next
<1> QED BY <1>6, <1>7

\* The return of a preOp, an op or a postOp is that of the run; calling an op
\* that is absent crashes.
LEMMA ReturnsRefine ==
  ASSUME IInv, CallsInv, TraceInv, PreReturns \/ OpReturns \/ PostReturns
  PROVE  Reg!Next \/ Crashes
<1>1. /\ nodes' = nodes /\ stack # << >> /\ Top.at # "match"
      /\ status = "running" /\ Top.at \in {"pre", "op", "post"}
  BY DEF PreReturns, OpReturns, PostReturns, At, Alive
<1>2. /\ Top \in Frame /\ Placed(Top) /\ Right(Top)
      /\ Reg!Top = RunOf(Top) /\ Reg!Current.hooks = Handler.hooks /\ runsOf # << >>
      /\ Reg!Top.inside = Top.at
  BY <1>1, RunsFacts
<1>3. handlersOf' = handlersOf
  BY <1>1, SameMap
<1>4. RunOf(Top) = [name |-> nodes[Top.node].name, verb |-> Top.verb,
                    last |-> LastCalled(Top), inside |-> Top.at]
  BY <1>1 DEF RunOf
<1>5. ASSUME NEW place \in {"op", "post"}, stack' = Replace(MovedTo(Top, place))
      PROVE  runsOf' = Reg!Replace([Reg!Top EXCEPT !.inside = place])
  <2> DEFINE frame == MovedTo(Top, place)
  <2>1. place \in Places
    BY DEF Places
  <2>2. /\ frame \in Frame /\ frame.node = Top.node /\ frame.verb = Top.verb
        /\ frame.called = Top.called /\ frame.next = Top.next /\ frame.at = place
    BY <1>2, <2>1, AtFields
  <2>3. stack' = Replace(frame)
    BY <1>5
  <2> HIDE DEF frame
  <2>4. RunOf(frame) = [name |-> nodes[Top.node].name, verb |-> Top.verb,
                        last |-> LastCalled(Top), inside |-> place]
    <3>1. place # "match"
      OBVIOUS
    <3> QED BY <2>2, <3>1 DEF RunOf, LastCalled
  <2>5. RunOf(frame) = [Reg!Top EXCEPT !.inside = place]
    BY <1>2, <1>4, <2>4
  <2>6. runsOf' = Reg!Replace(RunOf(frame))
    BY <1>1, <2>2, <2>3, RunsReplaced
  <2> QED BY <2>5, <2>6
<1>6. ASSUME stack' = Replace(GoOn(Top))
      PROVE  runsOf' = Reg!Replace([Reg!Top EXCEPT !.inside = "none"])
  <2> DEFINE frame == GoOn(Top)
  <2>2. /\ frame \in Frame /\ frame.node = Top.node /\ frame.verb = Top.verb
        /\ frame.called = Top.called /\ frame.at = "match"
    BY <1>2, GoOnFields
  <2>3. stack' = Replace(frame)
    BY <1>6
  <2> HIDE DEF frame
  <2>4. RunOf(frame) = [name |-> nodes[Top.node].name, verb |-> Top.verb,
                        last |-> LastCalled(Top), inside |-> "none"]
    BY <2>2 DEF RunOf, LastCalled
  <2>5. RunOf(frame) = [Reg!Top EXCEPT !.inside = "none"]
    BY <1>2, <1>4, <2>4
  <2>6. runsOf' = Reg!Replace(RunOf(frame))
    BY <1>1, <2>2, <2>3, RunsReplaced
  <2> QED BY <2>5, <2>6
<1>7. CASE PreReturns
  <2>1. /\ Top.at = "pre" /\ status' = status
        /\ runsOf' = Reg!Replace([Reg!Top EXCEPT !.inside = "op"])
    BY <1>5, <1>7 DEF PreReturns, At, MovedTo
  <2>2. Reg!PreReturns
    BY <1>1, <1>2, <1>3, <2>1 DEF Reg!PreReturns, Reg!Running
  <2> QED BY <2>2 DEF Reg!Next
<1>8. CASE OpReturns /\ "op" \notin Handler.hooks
  <2>1. status' = "fault" /\ At("op")
    BY <1>8 DEF OpReturns
  <2>2. CallsAbsentOp
    BY <1>8, <2>1 DEF CallsAbsentOp
  <2> QED BY <2>1, <2>2 DEF Crashes
<1>9. CASE OpReturns /\ "op" \in Handler.hooks
  <2>1. /\ Top.at = "op" /\ status' = status
        /\ stack' = Replace(IF "post" \in Handler.hooks
                              THEN [Top EXCEPT !.at = "post"] ELSE GoOn(Top))
    BY <1>9 DEF OpReturns, At
  <2>2. runsOf' = Reg!Replace([Reg!Top EXCEPT
            !.inside = IF "post" \in Handler.hooks THEN "post" ELSE "none"])
    <3>1. CASE "post" \in Handler.hooks
      BY <1>5, <2>1, <3>1 DEF MovedTo
    <3>2. CASE "post" \notin Handler.hooks
      BY <1>6, <2>1, <3>2
    <3> QED BY <3>1, <3>2
  <2>3. Reg!OpReturns
    BY <1>1, <1>2, <1>3, <1>9, <2>1, <2>2 DEF Reg!OpReturns, Reg!Running
  <2> QED BY <2>3 DEF Reg!Next
<1>10. CASE PostReturns
  <2>1. /\ Top.at = "post" /\ status' = status
        /\ runsOf' = Reg!Replace([Reg!Top EXCEPT !.inside = "none"])
    BY <1>6, <1>10 DEF PostReturns, At
  <2>2. Reg!PostReturns
    BY <1>1, <1>2, <1>3, <2>1 DEF Reg!PostReturns, Reg!Running
  <2> QED BY <2>2 DEF Reg!Next
<1> QED BY <1>7, <1>8, <1>9, <1>10

\* A command that has passed all handlers has none left to call.
LEMMA ReturnRefines ==
  ASSUME IInv, CallsInv, TraceInv, Return
  PROVE  [Reg!Next]_Reg!registryVars
<1>1. /\ nodes' = nodes /\ stack # << >> /\ Top.at = "match" /\ status = "running"
      /\ status' = status /\ Top.next > Len(Handlers) /\ stack' = Front(stack)
  BY DEF Return, At, Alive
<1>2. /\ Top \in Frame /\ Placed(Top) /\ Right(Top) /\ runsOf # << >>
      /\ Reg!Top.inside = "none" /\ Reg!Top.verb = Top.verb
      /\ Reg!Top.last = LastCalled(Top)
      /\ handlersOf[Reg!Top.name] = OnObject(nodes[Top.node])
      /\ Handlers = nodes[Top.node].handlers
  BY <1>1, RunsFacts, TopIsRight
<1>3. handlersOf' = handlersOf
  BY <1>1, SameMap
<1>4. Len(Handlers) \in Nat /\ DOMAIN Handlers = 1..Len(Handlers) /\ Top.next \in Nat
  BY <1>1, TopFacts
<1>5. Reg!Due = {}
  <2>1. \A k \in PassedOfVerb(Top) : k <= LastCalled(Top)
    BY <1>2, LastFacts
  <2>2. LastCalled(Top) \in Nat
    BY <1>2, LastFacts
  <2>3. ASSUME NEW k \in DOMAIN Handlers, Handlers[k].verb = Top.verb
        PROVE  ~(k > LastCalled(Top))
    <3>1. k \in 1..Passed(Top)
      BY <1>1, <1>4 DEF Passed
    <3>2. k \in PassedOfVerb(Top)
      BY <2>3, <3>1 DEF PassedOfVerb, Handlers
    <3> QED BY <1>4, <2>1, <2>2, <3>2
  <2>4. Reg!Due = {k \in DOMAIN Handlers : k > LastCalled(Top) /\ Handlers[k].verb = Top.verb}
    <3> DEFINE image == OnObject(nodes[Top.node])
    <3>1. /\ DOMAIN image = DOMAIN Handlers
          /\ \A k \in DOMAIN Handlers : image[k].verb = Handlers[k].verb
      BY <1>2, OnObjectFields
    <3> HIDE DEF image
    <3>2. Reg!Due = {k \in DOMAIN image : k > LastCalled(Top) /\ image[k].verb = Top.verb}
      BY <1>2 DEF Reg!Due, image
    <3> QED BY <3>1, <3>2
  <2> QED BY <2>3, <2>4
<1>6. runsOf' = Reg!Front(runsOf)
  BY <1>1, RunsFront
<1>7. Reg!Done
  BY <1>1, <1>2, <1>3, <1>5, <1>6 DEF Reg!Done, Reg!Running
<1> QED BY <1>7 DEF Reg!Next

\* A step that keeps the handlers of every activation's node keeps its run.
LEMMA RunsAsTableGrows ==
  ASSUME IInv, IInv', CallsInv, TraceInv, stack' = stack,
         \A i \in DOMAIN nodes :
           /\ i \in DOMAIN nodes' /\ nodes'[i].name = nodes[i].name
           /\ \A k \in DOMAIN nodes[i].handlers :
                /\ k \in DOMAIN nodes'[i].handlers
                /\ nodes'[i].handlers[k] = nodes[i].handlers[k]
  PROVE  runsOf' = runsOf
<1>1. ASSUME NEW frame \in Frame, Placed(frame), Right(frame)
      PROVE  RunOf(frame)' = RunOf(frame)
  <2>1. /\ frame.node \in DOMAIN nodes /\ DOMAIN frame.called = 1..Len(frame.called)
        /\ Len(frame.called) \in Nat /\ frame.called \in Seq(Ids)
        /\ PassedOfVerb(frame) \subseteq DOMAIN nodes[frame.node].handlers
    BY <1>1, FrameFacts
  <2>2. LastCalled(frame)' = LastCalled(frame)
    <3>1. CASE frame.called = << >>
      BY <3>1 DEF LastCalled
    <3>2. CASE frame.called # << >>
      <4>1. Len(frame.called) \in DOMAIN frame.called
        BY <2>1, <3>2, EmptySeq
      <4>2. PICK k \in PassedOfVerb(frame) : frame.called[Len(frame.called)] = Id(frame.node, k)
        BY <1>1, <4>1 DEF Right, CallsWhatItPassed
      <4>3. Last(frame.called) = Id(frame.node, k) /\ k \in DOMAIN nodes[frame.node].handlers
        BY <2>1, <4>2 DEF Last
      <4>4. \A l \in DOMAIN nodes[frame.node].handlers :
              Id(frame.node, l) = Id(frame.node, k) => l = k
        BY <2>1, <4>3 DEF IInv, TableInv, BindingsAreUnique
      <4>5. LastCalled(frame) = k
        <5>1. LastCalled(frame) = CHOOSE l \in DOMAIN nodes[frame.node].handlers :
                                    Id(frame.node, l) = Id(frame.node, k)
          BY <3>2, <4>3 DEF LastCalled
        <5> QED BY <4>3, <4>4, <5>1
      <4>6. /\ frame.node \in DOMAIN nodes' /\ k \in DOMAIN nodes'[frame.node].handlers
            /\ Id(frame.node, k)' = Id(frame.node, k)
        BY <2>1, <4>3 DEF Id
      <4>7. \A l \in DOMAIN nodes'[frame.node].handlers :
              Id(frame.node, l)' = Id(frame.node, k)' => l = k
        BY <4>6 DEF IInv, TableInv, BindingsAreUnique
      <4>8. LastCalled(frame)' = k
        <5>1. LastCalled(frame)' = CHOOSE l \in DOMAIN nodes'[frame.node].handlers :
                                     Id(frame.node, l)' = Id(frame.node, k)'
          BY <3>2, <4>3, <4>6 DEF LastCalled
        <5> QED BY <4>6, <4>7, <5>1
      <4> QED BY <4>5, <4>8
    <3> QED BY <3>1, <3>2
  <2>3. nodes'[frame.node].name = nodes[frame.node].name
    BY <2>1
  <2> QED BY <2>2, <2>3 DEF RunOf
<1>2. \A f \in DOMAIN stack : stack[f] \in Frame /\ Placed(stack[f]) /\ Right(stack[f])
  BY LenProperties, ElementOfSeq DEF CallsInv, StackOK, TraceInv
<1>3. ASSUME NEW f \in DOMAIN stack
      PROVE  RunOf(stack[f])' = RunOf(stack[f])
  <2>1. \E g \in Frame : g = stack[f] /\ Placed(g) /\ Right(g)
    BY <1>2
  <2>2. PICK g \in Frame : g = stack[f] /\ Placed(g) /\ Right(g)
    BY <2>1
  <2>3. RunOf(g)' = RunOf(g)
    BY <1>1, <2>2
  <2>4. stack'[f] = g
    BY <2>2
  <2>5. RunOf(stack[f])' = RunOf(g)'
    BY <2>4 DEF RunOf, LastCalled, Id
  <2> QED BY <2>2, <2>3, <2>5
<1> QED BY <1>3 DEF runsOf

\* A binding with the object its op is called on.
With(h, object) ==
  [id |-> h.id, verb |-> h.verb, target |-> h.target, object |-> object,
   hooks |-> h.hooks]

\* A handler appended to a node is appended to the node's image.
LEMMA OnObjectAppend ==
  ASSUME NEW old \in Node, NEW new \in Node, NEW h \in Binding,
         new.handlers = Append(old.handlers, h), new.object = old.object
  PROVE  OnObject(new) = Append(OnObject(old), With(h, old.object))
<1> DEFINE m == Len(old.handlers)
           image == OnObject(old)
           last == With(h, old.object)
           S == {With(b, old.object) : b \in Binding}
<1>1. /\ old.handlers \in Seq(Binding) /\ m \in Nat /\ DOMAIN old.handlers = 1..m
      /\ new.handlers \in Seq(Binding) /\ DOMAIN new.handlers = 1..(m + 1)
      /\ \A k \in 1..m : new.handlers[k] = old.handlers[k]
      /\ new.handlers[m + 1] = h
  <2>1. old.handlers \in Seq(Binding)
    BY DEF Node
  <2> QED BY <2>1, AppendProperties, LenProperties
<1> HIDE DEF m
<1>2. \A k \in 1..(m + 1) : OnObject(new)[k] = With(new.handlers[k], old.object)
      /\ DOMAIN OnObject(new) = 1..(m + 1)
  BY <1>1 DEF OnObject, With
<1>3. image = [k \in 1..m |-> With(old.handlers[k], old.object)]
  BY <1>1 DEF OnObject, With
<1>4. last \in S /\ \A k \in 1..m : old.handlers[k] \in Binding
  BY <1>1, LenProperties, ElementOfSeq
<1> HIDE DEF image, last
<1>5. image \in [1..m -> S] /\ \A k \in 1..m : image[k] = With(old.handlers[k], old.object)
  BY <1>3, <1>4
<1> HIDE DEF S
<1>6. image \in Seq(S) /\ Len(image) = m
  <2>1. image \in Seq(S)
    BY <1>1, <1>5, SeqDef
  <2>2. DOMAIN image = 1..m /\ DOMAIN image = 1..Len(image) /\ Len(image) \in Nat
    BY <1>5, <2>1, LenProperties
  <2> QED BY <1>1, <2>1, <2>2
<1> DEFINE longer == Append(image, last)
<1>7. /\ longer \in Seq(S) /\ Len(longer) = m + 1
      /\ \A k \in 1..m : longer[k] = image[k]
      /\ longer[m + 1] = last
  BY <1>4, <1>6, AppendProperties
<1> HIDE DEF longer
<1>8. \A k \in 1..(m + 1) : OnObject(new)[k] = longer[k]
  <2>1. \A k \in 1..(m + 1) : k \in 1..m \/ k = m + 1
    BY <1>1
  <2>2. With(h, old.object) = last
    BY DEF last
  <2> QED BY <1>1, <1>2, <1>5, <1>7, <2>1, <2>2
<1>9. OnObject(new) = [k \in 1..(m + 1) |-> OnObject(new)[k]]
  BY <1>1, <1>2 DEF OnObject
<1>10. longer = [k \in 1..(m + 1) |-> longer[k]]
  <2>1. longer \in [1..(m + 1) -> S]
    BY <1>7, LenProperties, SeqDef
  <2> QED BY <2>1
<1>11. OnObject(new) = longer
  BY <1>8, <1>9, <1>10
<1> QED BY <1>11 DEF longer, image, last

\* What binding does to the map, as long as the node of every name has the object
\* that all its bindings give.
LEMMA BindMap ==
  ASSUME IInv, IInv', OneObject', NEW name \in Names, NEW verb \in Verbs,
         NEW target \in Targets, NEW hooks \in Hooks, Bind(name, verb, target, hooks)
  PROVE  LET h == [id |-> binds + 1, verb |-> verb, target |-> target, hooks |-> hooks]
         IN  /\ handlersOf' = [handlersOf EXCEPT ![name] = Append(@, With(h, target))]
             /\ \A i \in DOMAIN nodes :
                  /\ i \in DOMAIN nodes' /\ nodes'[i].name = nodes[i].name
                  /\ \A k \in DOMAIN nodes[i].handlers :
                       /\ k \in DOMAIN nodes'[i].handlers
                       /\ nodes'[i].handlers[k] = nodes[i].handlers[k]
<1> DEFINE h == [id |-> binds + 1, verb |-> verb, target |-> target, hooks |-> hooks]
<1>1. h \in Binding
  BY DEF Binding, Ids, Bind, IInv, BindsOK
<1>2. nodes \in Seq(Node) /\ nodes' \in Seq(Node)
  BY DEF IInv, NodesOK
<1>3. /\ DOMAIN handlersOf = Names
      /\ handlersOf = [n \in Names |-> handlersOf[n]]
      /\ handlersOf' = [n \in Names |-> handlersOf'[n]]
  BY DEF handlersOf
<1>4. \A n \in Names : Bound(n) => /\ find_node(n) \in DOMAIN nodes
                                   /\ nodes[find_node(n)].name = n
  BY FindNode
<1>6. CASE Bound(name)
  <2> DEFINE n == find_node(name)
             node == [nodes[n] EXCEPT !.handlers = Append(@, h)]
  <2>1. n \in DOMAIN nodes /\ nodes[n].name = name
    BY <1>6, FindNode
  <2>2. nodes[n] \in Node /\ nodes[n].handlers \in Seq(Binding)
    <3>1. nodes[n] \in Node
      BY <1>2, <2>1, LenProperties, ElementOfSeq
    <3> QED BY <3>1 DEF Node
  <2>3. nodes' = [nodes EXCEPT ![n] = node]
    BY <1>6 DEF Bind
  <2> HIDE DEF h
  <2>4. /\ node.name = nodes[n].name /\ node.object = nodes[n].object
        /\ node.handlers = Append(nodes[n].handlers, h)
    BY <2>2 DEF Node
  <2>5. LET more == Append(nodes[n].handlers, h) IN
          \A k \in DOMAIN nodes[n].handlers :
            k \in DOMAIN more /\ more[k] = nodes[n].handlers[k]
    BY <1>1, <2>2, AppendProperties, LenProperties
  <2> HIDE DEF node
  <2>6. /\ DOMAIN nodes' = DOMAIN nodes
        /\ \A i \in DOMAIN nodes : nodes'[i] = IF i = n THEN node ELSE nodes[i]
    BY <2>1, <2>3
  <2>a. nodes[n].object = target
    <3>1. LET more == Append(nodes[n].handlers, h)
              last == Len(nodes[n].handlers) + 1 IN
            last \in DOMAIN more /\ more[last] = h
      BY <1>1, <2>2, AppendProperties, LenProperties
    <3>2. LET last == Len(nodes[n].handlers) + 1 IN
            /\ n \in DOMAIN nodes' /\ last \in DOMAIN nodes'[n].handlers
            /\ nodes'[n].handlers[last] = h
      BY <2>1, <2>4, <2>6, <3>1
    <3>3. h.target = nodes'[n].object
      BY <3>2 DEF OneObject
    <3>4. nodes'[n].object = nodes[n].object
      BY <2>1, <2>4, <2>6
    <3> QED BY <3>3, <3>4 DEF h
  <2>7. \A i \in DOMAIN nodes : nodes'[i].name = nodes[i].name
    BY <2>4, <2>6
  <2>8. \A m \in Names : Bound(m)' = Bound(m) /\ find_node(m)' = find_node(m)
    <3>1. \A m : Found(m)' = Found(m)
      BY <2>6, <2>7 DEF Found
    <3> QED BY <3>1 DEF Bound, find_node
  <2>9. OnObject(node) = Append(OnObject(nodes[n]), With(h, target))
    <3>1. node \in Node
      <4>1. nodes'[n] \in Node
        BY <1>2, <2>1, <2>6, LenProperties, ElementOfSeq
      <4> QED BY <2>1, <2>6, <4>1
    <3> HIDE DEF n
    <3> QED BY <1>1, <2>2, <2>4, <2>a, <3>1, OnObjectAppend
  <2> HIDE DEF n
  <2>10. \A m \in Names : handlersOf'[m] = IF m = name
                            THEN Append(handlersOf[m], With(h, target)) ELSE handlersOf[m]
    <3> SUFFICES ASSUME NEW m \in Names
                 PROVE  handlersOf'[m] = IF m = name
                          THEN Append(handlersOf[m], With(h, target)) ELSE handlersOf[m]
      OBVIOUS
    <3>1. handlersOf'[m] = IF Bound(m) THEN OnObject(nodes'[find_node(m)]) ELSE << >>
      BY <2>8 DEF handlersOf, OnObject
    <3>2. handlersOf[m] = IF Bound(m) THEN OnObject(nodes[find_node(m)]) ELSE << >>
      BY DEF handlersOf
    <3>3. CASE m = name
      <4>1. find_node(m) = n /\ Bound(m)
        BY <1>6, <3>3 DEF n
      <4> QED BY <2>1, <2>6, <2>9, <3>1, <3>2, <3>3, <4>1
    <3>4. CASE m # name /\ Bound(m)
      <4>1. find_node(m) # n /\ find_node(m) \in DOMAIN nodes
        BY <1>4, <2>1, <3>4
      <4> QED BY <2>6, <3>1, <3>2, <3>4, <4>1
    <3>5. CASE m # name /\ ~Bound(m)
      BY <3>1, <3>2, <3>5
    <3> QED BY <3>3, <3>4, <3>5
  <2>11. handlersOf' = [handlersOf EXCEPT ![name] = Append(@, With(h, target))]
    BY <1>3, <2>10
  <2>13. \A i \in DOMAIN nodes :
           /\ i \in DOMAIN nodes' /\ nodes'[i].name = nodes[i].name
           /\ \A k \in DOMAIN nodes[i].handlers :
                /\ k \in DOMAIN nodes'[i].handlers
                /\ nodes'[i].handlers[k] = nodes[i].handlers[k]
    BY <2>4, <2>5, <2>6, <2>7
  <2> QED BY <2>11, <2>13 DEF h
<1>7. CASE ~Bound(name)
  <2> DEFINE n == Len(nodes) + 1
             node == [name |-> name, object |-> target, handlers |-> << h >>]
  <2>1. nodes' = Append(nodes, node)
    BY <1>7 DEF Bind
  <2> HIDE DEF h
  <2>2. node \in Node /\ node.name = name /\ node.object = target /\ node.handlers = << h >>
    BY <1>1 DEF Node
  <2> HIDE DEF node
  <2>3. /\ Len(nodes) \in Nat /\ DOMAIN nodes = 1..Len(nodes)
        /\ DOMAIN nodes' = 1..(Len(nodes) + 1)
        /\ \A i \in 1..Len(nodes) : nodes'[i] = nodes[i]
        /\ nodes'[Len(nodes) + 1] = node
    BY <1>2, <2>1, <2>2, AppendProperties, LenProperties
  <2>4. /\ n \notin DOMAIN nodes /\ DOMAIN nodes' = DOMAIN nodes \cup {n}
        /\ \A i \in DOMAIN nodes : nodes'[i] = nodes[i]
        /\ nodes'[n] = node
    BY <2>3
  <2> HIDE DEF n
  <2>5. \A m \in Names : Found(m)' = IF m = name THEN {n} ELSE Found(m)
    <3>1. Found(name) = {}
      BY <1>7 DEF Bound
    <3>2. \A m, i : i \in Found(m)' <=> (i \in Found(m) \/ (i = n /\ m = name))
      BY <2>2, <2>4 DEF Found
    <3>3. Found(name)' = {n}
      BY <3>1, <3>2
    <3>4. ASSUME NEW m \in Names, m # name
          PROVE  Found(m)' = Found(m)
      BY <2>2, <2>4, <3>4 DEF Found
    <3> QED BY <3>3, <3>4
  <2>6. /\ Bound(name)' /\ find_node(name)' = n
        /\ \A m \in Names : m # name => Bound(m)' = Bound(m) /\ find_node(m)' = find_node(m)
    <3>1. Found(name)' = {n} /\ \A m \in Names : m # name => Found(m)' = Found(m)
      BY <2>5
    <3>2. n \in Nat
      BY <2>3 DEF n
    <3>3. find_node(name)' = CHOOSE i \in Found(name)' : \A j \in Found(name)' : i <= j
      BY DEF find_node
    <3> HIDE DEF Found
    <3>4. find_node(name)' = n
      BY <3>1, <3>2, <3>3
    <3> QED BY <3>1, <3>4 DEF Bound, find_node
  <2>7. OnObject(node) = << With(h, target) >>
    <3>1. DOMAIN node.handlers = {1} /\ node.handlers[1] = h
      BY <2>2
    <3>2. OnObject(node) = [k \in {1} |-> With(h, target)]
      BY <2>2, <3>1 DEF OnObject, With
    <3>3. << With(h, target) >> = [k \in {1} |-> With(h, target)]
      OBVIOUS
    <3> QED BY <3>2, <3>3
  <2>8. \A m \in Names :
          handlersOf'[m] = IF m = name THEN << With(h, target) >> ELSE handlersOf[m]
    <3> SUFFICES ASSUME NEW m \in Names
                 PROVE  handlersOf'[m] = IF m = name THEN << With(h, target) >>
                                                     ELSE handlersOf[m]
      OBVIOUS
    <3>1. handlersOf'[m] = IF Bound(m)' THEN OnObject(nodes'[find_node(m)']) ELSE << >>
      BY DEF handlersOf, OnObject
    <3>2. handlersOf[m] = IF Bound(m) THEN OnObject(nodes[find_node(m)]) ELSE << >>
      BY DEF handlersOf
    <3> QED BY <1>4, <2>4, <2>6, <2>7, <3>1, <3>2
  <2>9. handlersOf[name] = << >> /\ << With(h, target) >> = Append(<< >>, With(h, target))
    BY <1>7 DEF handlersOf
  <2>10. handlersOf' = [handlersOf EXCEPT ![name] = Append(@, With(h, target))]
    BY <1>3, <2>8, <2>9
  <2>12. \A i \in DOMAIN nodes :
           /\ i \in DOMAIN nodes' /\ nodes'[i].name = nodes[i].name
           /\ \A k \in DOMAIN nodes[i].handlers :
                /\ k \in DOMAIN nodes'[i].handlers
                /\ nodes'[i].handlers[k] = nodes[i].handlers[k]
    BY <2>4
  <2> QED BY <2>10, <2>12 DEF h
<1> QED BY <1>6, <1>7

LEMMA BindRefines ==
  ASSUME IInv, IInv', CallsInv, TraceInv, OneObject',
         NEW name \in Names, NEW verb \in Verbs, NEW target \in Targets,
         NEW hooks \in Hooks, Bind(name, verb, target, hooks)
  PROVE  [Reg!Next]_Reg!registryVars
<1>1. /\ stack' = stack /\ status' = status
      /\ binds + 1 \in Ids /\ Caller
  BY DEF Bind, IInv, BindsOK, Ids
<1> DEFINE h == [id |-> binds + 1, verb |-> verb, target |-> target, hooks |-> hooks]
<1>2. /\ handlersOf' = [handlersOf EXCEPT ![name] = Append(@, With(h, target))]
      /\ \A i \in DOMAIN nodes :
           /\ i \in DOMAIN nodes' /\ nodes'[i].name = nodes[i].name
           /\ \A k \in DOMAIN nodes[i].handlers :
                /\ k \in DOMAIN nodes'[i].handlers
                /\ nodes'[i].handlers[k] = nodes[i].handlers[k]
  BY BindMap
<1>3. runsOf' = runsOf
  BY <1>1, <1>2, RunsAsTableGrows
<1>4. Reg!Caller
  BY <1>1, CallerMaps
<1>5. Reg!Bind(binds + 1, name, verb, target, hooks)
  BY <1>1, <1>2, <1>3, <1>4 DEF Reg!Bind, With
<1> QED BY <1>1, <1>5 DEF Reg!Next

LEMMA InitRefines == Init => Reg!Init
<1> SUFFICES ASSUME Init PROVE Reg!Init
  OBVIOUS
<1>1. /\ DOMAIN nodes = {1} /\ nodes[1].handlers = << >>
      /\ stack = << >> /\ status = "running"
  BY DEF Init
<1>2. \A n \in Names : Bound(n) => find_node(n) = 1
  <2>1. \A n \in Names : Found(n) \subseteq {1}
    BY <1>1 DEF Found
  <2>2. \A n \in Names : Bound(n) => Found(n) = {1}
    BY <2>1 DEF Bound
  <2> QED BY <2>2 DEF find_node
<1>3. handlersOf = [n \in Names |-> << >>]
  <2>1. DOMAIN nodes[1].handlers = {}
    BY <1>1
  <2>2. OnObject(nodes[1]) = << >>
    BY <2>1 DEF OnObject
  <2> QED BY <1>2, <2>2 DEF handlersOf
<1>4. runsOf = << >>
  BY <1>1 DEF runsOf
<1> QED BY <1>1, <1>3, <1>4 DEF Reg!Init

\* Every step of the list and of its walks, while no name has a second object, is
\* one of the map, one of the three crashes, or none.
LEMMA NextRefines ==
  ASSUME IInv, IInv', CallsInv, TraceInv, [Next]_vars
  PROVE  [OneObject' => Reg!Next \/ Crashes]_(Reg!registryVars)
<1> SUFFICES ASSUME OneObject'
             PROVE  Reg!Next \/ Crashes \/ UNCHANGED Reg!registryVars
  OBVIOUS
<1>1. CASE \E name \in Names, verb \in Verbs, target \in Targets, hooks \in Hooks :
             Bind(name, verb, target, hooks)
  BY <1>1, BindRefines
<1>2. CASE \E name \in Rebindable, target \in Targets : Rebind(name, target)
  <2>1. PICK name \in Rebindable, target \in Targets : Rebind(name, target)
    BY <1>2
  <2>2. status' = "fault" /\ name \in Names
    BY <2>1 DEF Rebind
  <2>3. Rebinds
    BY <2>1, <2>2 DEF Rebinds
  <2> QED BY <2>2, <2>3 DEF Crashes
<1>4. CASE \E name \in Clearable : Clear(name)
  BY <1>4, ClearRefines
<1>5. CASE \E name \in Names, verb \in Verbs : Execute(name, verb)
  BY <1>5, ExecuteRefines
<1>6. CASE Match
  BY <1>6, MatchRefines
<1>7. CASE PreReturns \/ OpReturns \/ PostReturns
  BY <1>7, ReturnsRefine
<1>8. CASE Return
  BY <1>8, ReturnRefines
<1>9. CASE UNCHANGED vars
  <2>1. nodes' = nodes /\ stack' = stack /\ status' = status
    BY <1>9 DEF vars
  <2>2. handlersOf' = handlersOf /\ runsOf' = runsOf
    BY <2>1, SameMap DEF runsOf
  <2> QED BY <2>1, <2>2 DEF Reg!registryVars
<1> QED BY <1>1, <1>2, <1>4, <1>5, <1>6, <1>7, <1>8, <1>9 DEF Next

\* For every application and as long as it gives no name a second object, the
\* linked list and its nested walks are the map from names to handlers that
\* headcrab.h promises, what commands call and on which object included; the only
\* departures are the three crashes, of clearing, rebinding and an absent op.
THEOREM Refinement == Spec => Implements
<1>1. ASSUME IInv, CallsInv, TraceInv, [Next]_vars
      PROVE  IInv' /\ CallsInv' /\ TraceInv'
  BY <1>1, NextIInv, NextCalls, NextTrace
<1>2. ASSUME IInv, IInv', CallsInv, TraceInv, [Next]_vars
      PROVE  [OneObject' => Reg!Next \/ Crashes]_(Reg!registryVars)
  BY <1>2, NextRefines
<1> QED BY <1>1, <1>2, InitIInv, InitCalls, InitTrace, InitRefines, PTL
       DEF Spec, Implements

=============================================================================
