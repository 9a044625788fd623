---------------------------- MODULE TopologyProofs ---------------------------
(***************************************************************************)
(* Theorems about TopologyStore, for any log, edges by hand and bounds:    *)
(* who holds what, that MongoDB keeps no edge without its ends, that the   *)
(* two graphs agree where the code can make them agree, and that replaying *)
(* the log leads to the graph it describes.                                *)
(*                                                                         *)
(* TypeInv is inductive.  GroundInv and AgreeInv are each inductive        *)
(* relative to it, and LogInv relative to the three.                       *)
(***************************************************************************)
EXTENDS TopologyStore, SumTheorems, FiniteSetTheorems, FunctionTheorems,
        SequenceTheorems, TLAPS

\* What a program is made of, and what MongoDB is called with.
Changes ==
  ({"node", "delete"} \X Ids) \union ({"edge", "unlink"} \X Edges)
    \union ({"clear"} \X Devices)

SimpleCalls == ({"node"} \X Ids) \union ({"edge", "unlink"} \X Edges)

\* The calls that are left of one change.
OneChange(p) ==
  \/ p = <<>>
  \/ \E c \in SimpleCalls : p = <<c>>
  \/ \E n \in Ids : p = <<<<"drop", n>>, <<"detach", n>>>> \/ p = <<<<"detach", n>>>>

\* The nodes a list of changes adds.
Noded(q) == {n \in Ids : \E i \in DOMAIN q : q[i] = <<"node", n>>}

Manual(x) == \E m \in ManualEdges : m.edge = x

\* The edges the holder of the lock may add by hand.
ByHand == {x \in Edges : lock = "edge" /\ Manual(x)}

\* Every edge but those of H is added after its ends, given that N is there to
\* begin with.
Grounded(q, N, H) ==
  \A i \in DOMAIN q : \A x \in Edges :
    q[i] = <<"edge", x>> =>
      \/ x \in H
      \/ \A n \in {x.from, x.to} :
           n \in N \/ \E j \in 1 .. (i - 1) : q[j] = <<"node", n>>

\* A list of changes that deletes no node, or only deletes one.
Deletes(q) == \E i \in DOMAIN q : q[i][1] = "delete"

Plan(q, N, H) == q \in Seq(Changes) /\ ~Deletes(q) /\ Grounded(q, N, H)

Stages == {"none", "nodes", "edges", "assign"}

Reading == [stage : Stages, nodes : SUBSET Ids, edges : SUBSET Edges]

Finite(g) == IsFiniteSet(g.edges)

OffsetsInv ==
  /\ position \in Nat /\ committed \in Nat /\ high \in Nat
  /\ committed <= position /\ position <= high /\ high <= Len(TopologyLog)

StoresInv ==
  /\ mongo \in Graphs /\ Finite(mongo)
  /\ graph \in Graphs \union {None} /\ (graph # None => Finite(graph))
  /\ own \in Graphs \union {None} /\ (own # None => Finite(own))
  /\ loading \in [Loaders -> Reading] /\ \A w \in Loaders : Finite(loading[w])

HolderInv ==
  /\ up \in BOOLEAN /\ lock \in {"free", "event", "edge"}
  /\ todo \in Seq(Changes) /\ OneChange(pending)
  /\ Deletes(todo) => \E c \in Changes : todo = <<c>>
  /\ (\E n \in Ids : <<"detach", n>> \in Range(pending)) => todo = <<>>
  /\ lock = "free" => own = None /\ todo = <<>> /\ pending = <<>>
                      /\ ~Loading("holder")
  /\ Loading("holder") => pending = <<>>
  /\ Working => graph # None
  /\ ~up => lock = "free" /\ graph = None /\ ~Loading("query")

TypeInv == OffsetsInv /\ StoresInv /\ HolderInv

GroundInv ==
  /\ Grounded(todo, mongo.nodes \union Noded(pending), ByHand)
  /\ \A x \in Edges : pending = <<<<"edge", x>>>> =>
       x \in ByHand \/ {x.from, x.to} \subseteq mongo.nodes
  /\ EdgesHaveEnds

\* Two graphs that differ only where one of the calls in D is about it.
Near(g, h, D) ==
  /\ \A n \in SymDiff(g.nodes, h.nodes) :
       D \intersect {<<"node", n>>, <<"drop", n>>} # {}
  /\ \A x \in SymDiff(g.edges, h.edges) :
       D \intersect {<<"edge", x>>, <<"unlink", x>>,
                     <<"detach", x.from>>, <<"detach", x.to>>} # {}

\* The graph has the effect of a call.
Done(g, c) ==
  /\ c[1] = "node"   => c[2] \in g.nodes
  /\ c[1] = "drop"   => c[2] \notin g.nodes
  /\ c[1] = "edge"   => c[2] \in g.edges
  /\ c[1] = "unlink" => c[2] \notin g.edges
  /\ c[1] = "detach" => \A x \in g.edges : ~At(c[2], x)

AgreeInv ==
  ~overtaken =>
    /\ own = None
    /\ graph # None => /\ Near(graph, mongo, split \union Range(pending))
                       /\ \A c \in Range(pending) : Done(graph, c)
    /\ \A w \in Loaders : graph = None \/ w = "holder" =>
         /\ loading[w].stage \in {"edges", "assign"} =>
              loading[w].nodes = mongo.nodes
         /\ loading[w].stage = "assign" => loading[w].edges = mongo.edges

------------------------------------------------------------------------------
(* Changes and lists of them.                                              *)

LEMMA EmptyTyped == Empty \in Graphs /\ Finite(Empty)
BY FS_EmptySet DEF Empty, Graphs, Finite

\* What a call does to the graph.
LEMMA ChangeDoes ==
  ASSUME NEW g \in Graphs, NEW v
  PROVE  /\ Change(g, <<"node", v>>).nodes = g.nodes \union {v}
         /\ Change(g, <<"node", v>>).edges = g.edges
         /\ Change(g, <<"drop", v>>).nodes = g.nodes \ {v}
         /\ Change(g, <<"drop", v>>).edges = g.edges
         /\ Change(g, <<"edge", v>>).nodes = g.nodes
         /\ Change(g, <<"edge", v>>).edges = g.edges \union {v}
         /\ Change(g, <<"unlink", v>>).nodes = g.nodes
         /\ Change(g, <<"unlink", v>>).edges = g.edges \ {v}
         /\ Change(g, <<"detach", v>>).nodes = g.nodes
         /\ Change(g, <<"detach", v>>).edges = {x \in g.edges : ~At(v, x)}
<1>1. /\ Change(g, <<"node", v>>).nodes = g.nodes \union {v}
      /\ Change(g, <<"node", v>>).edges = g.edges
  BY DEF Change, Graphs
<1>2. /\ Change(g, <<"drop", v>>).nodes = g.nodes \ {v}
      /\ Change(g, <<"drop", v>>).edges = g.edges
  BY DEF Change, Graphs
<1>3. /\ Change(g, <<"edge", v>>).nodes = g.nodes
      /\ Change(g, <<"edge", v>>).edges = g.edges \union {v}
  BY DEF Change, Graphs
<1>4. /\ Change(g, <<"unlink", v>>).nodes = g.nodes
      /\ Change(g, <<"unlink", v>>).edges = g.edges \ {v}
  BY DEF Change, Graphs
<1>5. /\ Change(g, <<"detach", v>>).nodes = g.nodes
      /\ Change(g, <<"detach", v>>).edges = {x \in g.edges : ~At(v, x)}
  BY DEF Change, Graphs
<1>. QED  BY <1>1, <1>2, <1>3, <1>4, <1>5

Calling == ({"node", "drop", "detach"} \X Ids) \union ({"edge", "unlink"} \X Edges)

LEMMA ChangeTyped ==
  ASSUME NEW g \in Graphs, NEW c \in Calling
  PROVE  Change(g, c) \in Graphs /\ (Finite(g) => Finite(Change(g, c)))
<1> USE DEF Finite
<1>1. ASSUME NEW v \in Ids, c = <<"node", v>>
      PROVE  Change(g, c) \in Graphs /\ (Finite(g) => Finite(Change(g, c)))
  <2>1. Change(g, c) = [g EXCEPT !.nodes = g.nodes \union {v}]
    BY <1>1 DEF Change
  <2>. QED  BY <1>1, <2>1 DEF Graphs
<1>2. ASSUME NEW v \in Ids, c = <<"drop", v>>
      PROVE  Change(g, c) \in Graphs /\ (Finite(g) => Finite(Change(g, c)))
  <2>1. Change(g, c) = [g EXCEPT !.nodes = g.nodes \ {v}]
    BY <1>2 DEF Change
  <2>. QED  BY <1>2, <2>1 DEF Graphs
<1>3. ASSUME NEW v \in Edges, c = <<"edge", v>>
      PROVE  Change(g, c) \in Graphs /\ (Finite(g) => Finite(Change(g, c)))
  <2>1. Change(g, c) = [g EXCEPT !.edges = g.edges \union {v}]
    BY <1>3 DEF Change
  <2>2. Finite(g) => IsFiniteSet(g.edges \union {v})
    BY FS_AddElement
  <2>. QED  BY <1>3, <2>1, <2>2 DEF Graphs
<1>4. ASSUME NEW v \in Edges, c = <<"unlink", v>>
      PROVE  Change(g, c) \in Graphs /\ (Finite(g) => Finite(Change(g, c)))
  <2>1. Change(g, c) = [g EXCEPT !.edges = g.edges \ {v}]
    BY <1>4 DEF Change
  <2>2. Finite(g) => IsFiniteSet(g.edges \ {v})
    BY FS_Subset
  <2>. QED  BY <1>4, <2>1, <2>2 DEF Graphs
<1>5. ASSUME NEW v \in Ids, c = <<"detach", v>>
      PROVE  Change(g, c) \in Graphs /\ (Finite(g) => Finite(Change(g, c)))
  <2> DEFINE E == {x \in g.edges : ~At(v, x)}
  <2>1. Change(g, c) = [g EXCEPT !.edges = E]
    BY <1>5 DEF Change
  <2>2. E \subseteq g.edges /\ (Finite(g) => IsFiniteSet(E))
    BY FS_Subset
  <2> HIDE DEF E
  <2>. QED  BY <1>5, <2>1, <2>2 DEF Graphs
<1>6. \/ \E v \in Ids : c = <<"node", v>> \/ c = <<"drop", v>> \/ c = <<"detach", v>>
      \/ \E v \in Edges : c = <<"edge", v>> \/ c = <<"unlink", v>>
  BY DEF Calling
<1>. QED  BY <1>1, <1>2, <1>3, <1>4, <1>5, <1>6

\* What is left of a change are calls, and what is left after its first call
\* is of one change too.
LEMMA OneChangeCalls ==
  ASSUME NEW p, OneChange(p)
  PROVE  /\ p \in Seq(Calling) /\ Range(p) \subseteq Calling
         /\ p # <<>> => /\ Head(p) \in Calling /\ OneChange(Tail(p))
                        /\ Range(p) = {Head(p)} \union Range(Tail(p))
<1>1. CASE p = <<>>
  BY <1>1 DEF Range
<1>2. ASSUME NEW c \in SimpleCalls, p = <<c>>
      PROVE  /\ p \in Seq(Calling) /\ Range(p) \subseteq Calling
             /\ Head(p) \in Calling /\ OneChange(Tail(p))
             /\ Range(p) = {Head(p)} \union Range(Tail(p))
  <2>1. c \in Calling
    BY DEF SimpleCalls, Calling
  <2>2. p \in Seq(Calling) /\ Head(p) = c /\ Tail(p) = <<>> /\ DOMAIN p = {1}
    BY <1>2, <2>1
  <2>3. Range(p) = {c} /\ Range(<<>>) = {}
    BY <1>2, <2>2 DEF Range
  <2>. QED  BY <2>1, <2>2, <2>3 DEF OneChange
<1>3. ASSUME NEW n \in Ids, p = <<<<"drop", n>>, <<"detach", n>>>>
      PROVE  /\ p \in Seq(Calling) /\ Range(p) \subseteq Calling
             /\ Head(p) \in Calling /\ OneChange(Tail(p))
             /\ Range(p) = {Head(p)} \union Range(Tail(p))
  <2> DEFINE a == <<"drop", n>>  b == <<"detach", n>>
  <2>1. a \in Calling /\ b \in Calling
    BY DEF Calling
  <2>2. p = <<a, b>>
    BY <1>3
  <2>3. OneChange(<<b>>)
    BY DEF OneChange
  <2> HIDE DEF a, b
  <2>4. p \in Seq(Calling) /\ Head(p) = a /\ Tail(p) = <<b>>
    BY <2>1, <2>2
  <2>5. Range(p) = {a, b} /\ Range(<<b>>) = {b}
    BY <2>2 DEF Range
  <2>. QED  BY <2>1, <2>3, <2>4, <2>5
<1>4. ASSUME NEW n \in Ids, p = <<<<"detach", n>>>>
      PROVE  /\ p \in Seq(Calling) /\ Range(p) \subseteq Calling
             /\ Head(p) \in Calling /\ OneChange(Tail(p))
             /\ Range(p) = {Head(p)} \union Range(Tail(p))
  <2> DEFINE b == <<"detach", n>>
  <2>1. b \in Calling /\ p = <<b>>
    BY <1>4 DEF Calling
  <2> HIDE DEF b
  <2>2. p \in Seq(Calling) /\ Head(p) = b /\ Tail(p) = <<>>
    BY <2>1
  <2>3. Range(p) = {b} /\ Range(<<>>) = {}
    BY <2>1 DEF Range
  <2>. QED  BY <2>1, <2>2, <2>3 DEF OneChange
<1>. QED  BY <1>1, <1>2, <1>3, <1>4 DEF OneChange

LEMMA GroundedMore ==
  ASSUME NEW q, NEW H, NEW N, NEW M, N \subseteq M, Grounded(q, N, H)
  PROVE  Grounded(q, M, H)
BY DEF Grounded

\* The rest of a list is grounded on what its head adds; an edge at its head
\* has its ends.
LEMMA GroundedTail ==
  ASSUME NEW q \in Seq(Changes), q # <<>>, NEW H, NEW N, Grounded(q, N, H)
  PROVE  /\ Grounded(Tail(q), N \union {n \in Ids : Head(q) = <<"node", n>>}, H)
         /\ \A x \in Edges : Head(q) = <<"edge", x>> =>
              x \in H \/ {x.from, x.to} \subseteq N
<1> DEFINE t == Tail(q)
           k == Len(q)
           M == N \union {n \in Ids : Head(q) = <<"node", n>>}
<1>1. /\ k \in Nat \ {0} /\ DOMAIN q = 1 .. k /\ Head(q) = q[1]
      /\ DOMAIN t = 1 .. (k - 1) /\ \A i \in 1 .. (k - 1) : t[i] = q[i + 1]
  <2>1. Len(q) \in Nat /\ Len(q) # 0 /\ Head(q) = q[1] /\ t \in Seq(Changes)
        /\ Len(t) = Len(q) - 1 /\ \A i \in 1 .. Len(t) : t[i] = q[i + 1]
    BY HeadTailProperties, EmptySeq
  <2>. QED  BY <2>1
<1> HIDE DEF t, k
<1>2. ASSUME NEW i \in DOMAIN t, NEW x \in Edges, t[i] = <<"edge", x>>, x \notin H,
             NEW n \in {x.from, x.to}
      PROVE  n \in M \/ \E j \in 1 .. (i - 1) : t[j] = <<"node", n>>
  <2>1. i \in 1 .. (k - 1) /\ i + 1 \in DOMAIN q /\ q[i + 1] = <<"edge", x>>
    BY <1>1, <1>2
  <2>2. n \in N \/ \E j \in 1 .. ((i + 1) - 1) : q[j] = <<"node", n>>
    BY <1>2, <2>1 DEF Grounded
  <2>3. n \in Ids
    BY <1>2 DEF Edges
  <2>4. ASSUME NEW j \in 1 .. ((i + 1) - 1), q[j] = <<"node", n>>
        PROVE  n \in M \/ \E j2 \in 1 .. (i - 1) : t[j2] = <<"node", n>>
    <3>1. CASE j = 1
      BY <1>1, <2>3, <2>4, <3>1
    <3>2. CASE j # 1
      <4>1. j - 1 \in 1 .. (i - 1) /\ j - 1 \in 1 .. (k - 1) /\ (j - 1) + 1 = j
        BY <1>1, <2>1, <3>2
      <4>2. t[j - 1] = <<"node", n>>
        BY <1>1, <2>4, <4>1
      <4>. QED  BY <4>1, <4>2
    <3>. QED  BY <3>1, <3>2
  <2>. QED  BY <2>2, <2>4
<1>3. Grounded(t, M, H)
  BY <1>2 DEF Grounded
<1>4. ASSUME NEW x \in Edges, Head(q) = <<"edge", x>>
      PROVE  x \in H \/ {x.from, x.to} \subseteq N
  <2>1. 1 \in DOMAIN q /\ q[1] = <<"edge", x>> /\ 1 .. (1 - 1) = {}
    BY <1>1, <1>4
  <2>. QED  BY <2>1 DEF Grounded
<1>. QED  BY <1>3, <1>4 DEF t

\* Two lists, one after the other.
LEMMA PlanConcat ==
  ASSUME NEW p, NEW q, NEW H, NEW N, Plan(p, N, H), Plan(q, N \union Noded(p), H)
  PROVE  Plan(p \o q, N, H) /\ Noded(p \o q) = Noded(p) \union Noded(q)
<1> DEFINE s == p \o q
           k == Len(p)
           l == Len(q)
<1>1. p \in Seq(Changes) /\ q \in Seq(Changes)
  BY DEF Plan
<1>2. /\ k \in Nat /\ l \in Nat /\ s \in Seq(Changes)
      /\ DOMAIN p = 1 .. k /\ DOMAIN q = 1 .. l /\ DOMAIN s = 1 .. (k + l)
      /\ \A i \in 1 .. (k + l) : s[i] = IF i <= k THEN p[i] ELSE q[i - k]
  BY <1>1, ConcatProperties
<1> HIDE DEF s, k, l
<1>3. \A i \in 1 .. k : i \in DOMAIN s /\ s[i] = p[i]
  BY <1>2
<1>4. ASSUME NEW i \in 1 .. l PROVE i + k \in DOMAIN s /\ s[i + k] = q[i]
  <2>1. i + k \in 1 .. (k + l) /\ ~(i + k <= k) /\ (i + k) - k = i
    BY <1>2
  <2>. QED  BY <1>2, <2>1
<1>5. ASSUME NEW i \in DOMAIN s
      PROVE  i \in 1 .. k \/ (i - k \in 1 .. l /\ s[i] = q[i - k])
  BY <1>2
<1>6. ~Deletes(s)
  BY <1>2, <1>3, <1>5 DEF Plan, Deletes
<1>7. Noded(s) = Noded(p) \union Noded(q)
  <2>1. Noded(s) \subseteq Noded(p) \union Noded(q)
    BY <1>2, <1>3, <1>5 DEF Noded
  <2>2. Noded(p) \subseteq Noded(s)
    BY <1>2, <1>3 DEF Noded
  <2>3. Noded(q) \subseteq Noded(s)
    <3>1. ASSUME NEW n \in Ids, NEW i \in DOMAIN q, q[i] = <<"node", n>>
          PROVE  n \in Noded(s)
      BY <1>2, <1>4, <3>1 DEF Noded
    <3>. QED  BY <3>1 DEF Noded
  <2>. QED  BY <2>1, <2>2, <2>3
<1>8. ASSUME NEW i \in DOMAIN s, NEW x \in Edges, s[i] = <<"edge", x>>, x \notin H,
             NEW n \in {x.from, x.to}
      PROVE  n \in N \/ \E j \in 1 .. (i - 1) : s[j] = <<"node", n>>
  <2>1. CASE i \in 1 .. k
    <3>1. n \in N \/ \E j \in 1 .. (i - 1) : p[j] = <<"node", n>>
      <4>1. i \in DOMAIN p /\ p[i] = <<"edge", x>> /\ Grounded(p, N, H)
        BY <1>2, <1>3, <1>8, <2>1 DEF Plan
      <4>. QED  BY <1>8, <4>1 DEF Grounded
    <3>2. \A j \in 1 .. (i - 1) : j \in 1 .. k
      BY <1>2, <2>1
    <3>. QED  BY <1>3, <3>1, <3>2
  <2>2. CASE i \notin 1 .. k
    <3>1. i - k \in 1 .. l /\ q[i - k] = <<"edge", x>> /\ i \in 1 .. (k + l)
      BY <1>2, <1>5, <1>8, <2>2
    <3>2. \/ n \in N \union Noded(p)
          \/ \E j \in 1 .. ((i - k) - 1) : q[j] = <<"node", n>>
      BY <1>2, <1>8, <3>1 DEF Plan, Grounded
    <3>3. ASSUME n \in Noded(p) PROVE \E j \in 1 .. (i - 1) : s[j] = <<"node", n>>
      <4>1. PICK j \in 1 .. k : p[j] = <<"node", n>>
        BY <1>2, <3>3 DEF Noded
      <4>2. j \in 1 .. (i - 1)
        BY <1>2, <2>2, <3>1
      <4>. QED  BY <1>3, <4>1, <4>2
    <3>4. ASSUME NEW j \in 1 .. ((i - k) - 1), q[j] = <<"node", n>>
          PROVE  \E j2 \in 1 .. (i - 1) : s[j2] = <<"node", n>>
      <4>1. j \in 1 .. l /\ j + k \in 1 .. (i - 1)
        BY <1>2, <3>1
      <4>. QED  BY <1>4, <3>4, <4>1
    <3>. QED  BY <3>2, <3>3, <3>4
  <2>. QED  BY <2>1, <2>2
<1>9. Grounded(s, N, H)
  BY <1>8 DEF Grounded
<1>. QED  BY <1>2, <1>6, <1>7, <1>9 DEF Plan, s

LEMMA PlanMore ==
  ASSUME NEW q, NEW H, NEW N, NEW M, N \subseteq M, Plan(q, N, H)
  PROVE  Plan(q, M, H)
BY GroundedMore DEF Plan

LEMMA NoPlan == ASSUME NEW H, NEW N PROVE Plan(<<>>, N, H) /\ Noded(<<>>) = {}
BY DEF Plan, Noded, Deletes, Grounded

\* One node, one edge between nodes that are there.
LEMMA NodePlan ==
  ASSUME NEW n \in Ids, NEW H, NEW N
  PROVE  Plan(<<Node(n)>>, N, H) /\ Noded(<<Node(n)>>) = {n}
<1> DEFINE q == <<Node(n)>>
<1>1. q \in Seq(Changes) /\ DOMAIN q = {1} /\ q[1] = <<"node", n>>
  BY DEF Node, Changes
<1> HIDE DEF q
<1>2. ~Deletes(q)
  BY <1>1 DEF Deletes
<1>3. Grounded(q, N, H)
  BY <1>1 DEF Grounded
<1>4. Noded(q) = {n}
  BY <1>1 DEF Noded
<1>. QED  BY <1>1, <1>2, <1>3, <1>4 DEF Plan, q

LEMMA TiePlan ==
  ASSUME NEW H, NEW N, NEW a \in Ids \intersect N, NEW b \in Ids \intersect N,
         NEW t \in Types
  PROVE  Plan(<<Tie(a, b, t)>>, N, H) /\ Noded(<<Tie(a, b, t)>>) = {}
<1> DEFINE q == <<Tie(a, b, t)>>
<1>1. Edge(a, b, t) \in Edges /\ Edge(a, b, t).from = a /\ Edge(a, b, t).to = b
  BY DEF Edge, Edges
<1>2. q \in Seq(Changes) /\ DOMAIN q = {1} /\ q[1] = <<"edge", Edge(a, b, t)>>
  BY <1>1 DEF Tie, Changes
<1> HIDE DEF q
<1>3. ~Deletes(q)
  BY <1>2 DEF Deletes
<1>4. Grounded(q, N, H)
  BY <1>1, <1>2 DEF Grounded
<1>5. Noded(q) = {}
  BY <1>2 DEF Noded
<1>. QED  BY <1>2, <1>3, <1>4, <1>5 DEF Plan, q

\* A device's cables: every edge after its ends.
LEMMA CablePlan ==
  ASSUME NEW H, NEW N, NEW d \in Devices \intersect N, NEW r \in Racks \intersect N
  PROVE  Plan(Cable(d, r), N, H)
<1> DEFINE q == Cable(d, r)
           a == Edge(d, TOR(r), "network")
           b == Edge(TOR(r), SPINE, "network")
           e == Edge(r, PDU(r), "power")
           f == Edge(r, COOLING(r), "cooling")
<1>1. /\ d \in Ids /\ r \in Ids /\ TOR(r) \in Ids /\ SPINE \in Ids
      /\ PDU(r) \in Ids /\ COOLING(r) \in Ids
  BY DEF Ids, TOR, PDU, COOLING
<1>2. /\ a \in Edges /\ a.from = d /\ a.to = TOR(r)
      /\ b \in Edges /\ b.from = TOR(r) /\ b.to = SPINE
      /\ e \in Edges /\ e.from = r /\ e.to = PDU(r)
      /\ f \in Edges /\ f.from = r /\ f.to = COOLING(r)
  BY <1>1 DEF Edge, Edges, Types
<1>3. q = << <<"node", TOR(r)>>, <<"node", SPINE>>, <<"node", PDU(r)>>,
             <<"node", COOLING(r)>>, <<"edge", a>>, <<"edge", b>>,
             <<"edge", e>>, <<"edge", f>> >>
  BY DEF Cable, Node, Tie
<1> HIDE DEF a, b, e, f, q
<1>4. /\ DOMAIN q = 1 .. 8
      /\ q[1] = <<"node", TOR(r)>> /\ q[2] = <<"node", SPINE>>
      /\ q[3] = <<"node", PDU(r)>> /\ q[4] = <<"node", COOLING(r)>>
      /\ q[5] = <<"edge", a>> /\ q[6] = <<"edge", b>>
      /\ q[7] = <<"edge", e>> /\ q[8] = <<"edge", f>>
  BY <1>3
<1>5. q \in Seq(Changes)
  <2>1. /\ \A n \in Ids : <<"node", n>> \in Changes
        /\ \A x \in Edges : <<"edge", x>> \in Changes
    BY DEF Changes
  <2>. QED  BY <1>1, <1>2, <1>3, <2>1
<1>6. \A i \in 1 .. 8 : q[i][1] \in {"node", "edge"}
  BY <1>4
<1>7. ~Deletes(q)
  BY <1>4, <1>6 DEF Deletes
<1>8. ASSUME NEW i \in DOMAIN q, NEW x \in Edges, q[i] = <<"edge", x>>,
             NEW n \in {x.from, x.to}
      PROVE  n \in N \/ \E j \in 1 .. (i - 1) : q[j] = <<"node", n>>
  <2>1. \/ i = 5 /\ x = a
        \/ i = 6 /\ x = b
        \/ i = 7 /\ x = e
        \/ i = 8 /\ x = f
    BY <1>4, <1>8
  <2>2. CASE i = 5 /\ x = a
    <3>1. 1 \in 1 .. (i - 1)
      BY <2>2
    <3>. QED  BY <1>2, <1>4, <1>8, <2>2, <3>1
  <2>3. CASE i = 6 /\ x = b
    <3>1. 1 \in 1 .. (i - 1) /\ 2 \in 1 .. (i - 1)
      BY <2>3
    <3>. QED  BY <1>2, <1>4, <1>8, <2>3, <3>1
  <2>4. CASE i = 7 /\ x = e
    <3>1. 3 \in 1 .. (i - 1)
      BY <2>4
    <3>. QED  BY <1>2, <1>4, <1>8, <2>4, <3>1
  <2>5. CASE i = 8 /\ x = f
    <3>1. 4 \in 1 .. (i - 1)
      BY <2>5
    <3>. QED  BY <1>2, <1>4, <1>8, <2>5, <3>1
  <2>. QED  BY <2>1, <2>2, <2>3, <2>4, <2>5
<1>9. Grounded(q, N, H)
  BY <1>8 DEF Grounded
<1>. QED  BY <1>5, <1>7, <1>9 DEF Plan, q

LEMMA Pair == ASSUME NEW a, NEW b PROVE <<a>> \o <<b>> = <<a, b>>
<1>1. /\ <<a>> \in Seq({a, b}) /\ <<b>> \in Seq({a, b})
      /\ Len(<<a>>) = 1 /\ Len(<<b>>) = 1 /\ <<a>>[1] = a /\ <<b>>[1] = b
  OBVIOUS
<1>2. /\ <<a>> \o <<b>> \in Seq({a, b}) /\ Len(<<a>> \o <<b>>) = 2
      /\ (<<a>> \o <<b>>)[1] = a /\ (<<a>> \o <<b>>)[2] = b
  BY <1>1, ConcatProperties
<1>3. /\ <<a, b>> \in Seq({a, b}) /\ Len(<<a, b>>) = 2
      /\ <<a, b>>[1] = a /\ <<a, b>>[2] = b
  OBVIOUS
<1>4. \A i \in 1 .. 2 : (<<a>> \o <<b>>)[i] = <<a, b>>[i]
  BY <1>2, <1>3
<1>. QED  BY <1>2, <1>3, <1>4, SeqEqual

\* A node, and an edge to it from one that is there.
LEMMA NodeTiePlan ==
  ASSUME NEW H, NEW N, NEW a \in Ids \intersect N, NEW b \in Ids, NEW t \in Types
  PROVE  Plan(<<Node(b), Tie(a, b, t)>>, N, H)
<1>1. Plan(<<Node(b)>>, N, H) /\ Noded(<<Node(b)>>) = {b}
  BY NodePlan
<1>2. Plan(<<Tie(a, b, t)>>, N \union {b}, H)
  BY TiePlan
<1>3. Plan(<<Node(b)>> \o <<Tie(a, b, t)>>, N, H)
  BY <1>1, <1>2, PlanConcat
<1>4. <<Node(b)>> \o <<Tie(a, b, t)>> = <<Node(b), Tie(a, b, t)>>
  BY Pair
<1>. QED  BY <1>3, <1>4

LEMMA PlacedPlan ==
  ASSUME NEW H, NEW N, NEW d \in Devices \intersect N, NEW r \in Racks \union {None}
  PROVE  Plan(Placed(d, r), N, H)
<1>1. CASE r = None
  BY <1>1, NoPlan DEF Placed
<1>2. CASE r # None
  <2>1. r \in Racks /\ r \in Ids /\ d \in Ids
    BY <1>2 DEF Ids
  <2>2. Plan(<<Node(r), Tie(d, r, "structural")>>, N, H)
    BY <2>1, NodeTiePlan DEF Types
  <2> DEFINE p == <<Node(r), Tie(d, r, "structural")>>
  <2>3. r \in Noded(p)
    <3>1. 1 \in DOMAIN p /\ p[1] = <<"node", r>>
      BY DEF Node
    <3> HIDE DEF p
    <3>. QED  BY <2>1, <3>1 DEF Noded
  <2>4. Plan(Cable(d, r), N \union Noded(p), H)
    <3> HIDE DEF p
    <3>. QED  BY <2>1, <2>3, CablePlan
  <2>5. Placed(d, r) = p \o Cable(d, r)
    BY <1>2 DEF Placed
  <2> HIDE DEF p
  <2>6. Plan(p, N, H)
    BY <2>2 DEF p
  <2>. QED  BY <2>4, <2>5, <2>6, PlanConcat
<1>. QED  BY <1>1, <1>2

LEMMA ContainedPlan ==
  ASSUME NEW H, NEW N, NEW r \in Racks \intersect N, NEW s \in Sites \union {None}
  PROVE  Plan(Contained(r, s), N, H)
<1>1. CASE s = None
  BY <1>1, NoPlan DEF Contained
<1>2. CASE s # None
  <2>1. r \in Ids /\ s \in Ids
    BY <1>2 DEF Ids
  <2>2. Plan(<<Node(s), Tie(r, s, "structural")>>, N, H)
    BY <2>1, NodeTiePlan DEF Types
  <2>. QED  BY <1>2, <2>2 DEF Contained
<1>. QED  BY <1>1, <1>2

\* The head of the deletion of a node.
LEMMA DeleteTyped ==
  ASSUME NEW n \in Ids
  PROVE  /\ <<<<"delete", n>>>> \in Seq(Changes)
         /\ \E c \in Changes : <<<<"delete", n>>>> = <<c>>
         /\ \A N, H : Grounded(<<<<"delete", n>>>>, N, H)
<1> DEFINE c == <<"delete", n>>
<1>1. c \in Changes /\ c[1] # "edge"
  BY DEF Changes
<1>2. \A x : c # <<"edge", x>>
  OBVIOUS
<1> HIDE DEF c
<1>3. <<c>> \in Seq(Changes) /\ DOMAIN <<c>> = {1} /\ <<c>>[1] = c
  BY <1>1
<1>4. \A N, H : Grounded(<<c>>, N, H)
  BY <1>2, <1>3 DEF Grounded
<1>. QED  BY <1>1, <1>3, <1>4 DEF c

\* The changes a holder of the lock may be given.
Assignable(q, H) ==
  /\ q \in Seq(Changes)
  /\ Deletes(q) => \E c \in Changes : q = <<c>>
  /\ Grounded(q, {}, H)

LEMMA PlanAssignable == ASSUME NEW q, NEW H, Plan(q, {}, H) PROVE Assignable(q, H)
BY DEF Plan, Assignable

\* What an event asks for is typed, adds every edge after its ends, and deletes
\* a node only by itself.
LEMMA ProgramAssignable ==
  ASSUME NEW e \in Events, NEW H
  PROVE  Assignable(Program(e), H)
<1>1. /\ e.rack \in Racks \union {None} /\ e.device \in Devices \union {None}
      /\ e.hall \in Sites \union {None} /\ e.facility \in Sites \union {None}
  BY DEF Events
<1>2. CASE e.event = "FACILITY_CREATED" /\ e.facility # None
  <2>1. e.facility \in Ids /\ Program(e) = <<Node(e.facility)>>
    BY <1>1, <1>2 DEF Program, Ids
  <2>. QED  BY <2>1, NodePlan, PlanAssignable
<1>3. CASE e.event = "RACK_CREATED" /\ e.rack # None
  <2> DEFINE r == e.rack
             p == Contained(r, e.hall)
             q == Contained(r, e.facility)
  <2>1. r \in Racks /\ r \in Ids
    BY <1>1, <1>3 DEF Ids
  <2>2. Program(e) = <<Node(r)>> \o p \o q
    BY <1>3 DEF Program
  <2>3. Plan(<<Node(r)>>, {}, H) /\ Noded(<<Node(r)>>) = {r}
    BY <2>1, NodePlan
  <2>4. Plan(p, {} \union {r}, H)
    BY <1>1, <2>1, ContainedPlan
  <2> HIDE DEF p
  <2>5. Plan(<<Node(r)>> \o p, {}, H)
        /\ Noded(<<Node(r)>> \o p) = {r} \union Noded(p)
    BY <2>3, <2>4, PlanConcat
  <2>6. Plan(q, {} \union Noded(<<Node(r)>> \o p), H)
    BY <1>1, <2>1, <2>5, ContainedPlan
  <2> HIDE DEF q
  <2>7. Plan((<<Node(r)>> \o p) \o q, {}, H)
    BY <2>5, <2>6, PlanConcat
  <2>. QED  BY <2>2, <2>7, PlanAssignable
<1>4. CASE \/ e.event = "RACK_DELETED" /\ e.rack # None
           \/ e.event = "DEVICE_DELETED" /\ e.device # None
  <2>1. PICK n \in Ids : Program(e) = <<<<"delete", n>>>>
    BY <1>1, <1>4 DEF Program, Ids
  <2>. QED  BY <2>1, DeleteTyped DEF Assignable
<1>5. CASE e.event = "DEVICE_CREATED" /\ e.device # None
  <2> DEFINE d == e.device
             p == Placed(d, e.rack)
  <2>1. d \in Devices /\ d \in Ids
    BY <1>1, <1>5 DEF Ids
  <2>2. Program(e) = <<Node(d)>> \o p
    BY <1>5 DEF Program
  <2>3. Plan(<<Node(d)>>, {}, H) /\ Noded(<<Node(d)>>) = {d}
    BY <2>1, NodePlan
  <2>4. Plan(p, {} \union {d}, H)
    BY <1>1, <2>1, PlacedPlan
  <2> HIDE DEF p
  <2>. QED  BY <2>2, <2>3, <2>4, PlanConcat, PlanAssignable
<1>6. CASE e.event = "DEVICE_MOVED" /\ e.device # None
  <2> DEFINE d == e.device
             h == <<Node(d), <<"clear", d>>>>
             p == Placed(d, e.rack)
  <2>1. d \in Devices /\ d \in Ids
    BY <1>1, <1>6 DEF Ids
  <2>2. Program(e) = h \o p
    BY <1>6 DEF Program
  <2>3. /\ h \in Seq(Changes) /\ DOMAIN h = {1, 2}
        /\ h[1] = <<"node", d>> /\ h[2] = <<"clear", d>>
    <3>1. <<"node", d>> \in Changes /\ <<"clear", d>> \in Changes
      BY <2>1 DEF Changes
    <3>. QED  BY <3>1 DEF Node
  <2> HIDE DEF h
  <2>4. Plan(h, {}, H) /\ d \in Noded(h)
    <3>1. ~Deletes(h)
      BY <2>3 DEF Deletes
    <3>2. Grounded(h, {}, H)
      BY <2>3 DEF Grounded
    <3>. QED  BY <2>1, <2>3, <3>1, <3>2 DEF Plan, Noded
  <2>5. Plan(p, {} \union Noded(h), H)
    BY <1>1, <2>1, <2>4, PlacedPlan
  <2> HIDE DEF p
  <2>. QED  BY <2>2, <2>4, <2>5, PlanConcat, PlanAssignable
<1>7. CASE Program(e) = <<>>
  BY <1>7, NoPlan, PlanAssignable
<1>. QED
  BY <1>2, <1>3, <1>4, <1>5, <1>6, <1>7 DEF Program

\* So is what a body of POST /api/v1/topology/edges asks for: its edge is one
\* added by hand.
LEMMA ManualAssignable ==
  ASSUME NEW m \in ManualEdges, NEW H, m.edge \in H
  PROVE  Assignable(ManualProgram(m), H)
<1> DEFINE x == m.edge
           q == <<<<"edge", x>>>>
           p == <<Node(x.from), Node(x.to)>>
<1>1. x \in Edges /\ x.from \in Ids /\ x.to \in Ids /\ x \in H
  BY ConstantsOK DEF Edges
<1>2. \A N : Plan(q, N, H)
  <2>1. <<"edge", x>> \in Changes
    BY <1>1 DEF Changes
  <2>2. q \in Seq(Changes) /\ DOMAIN q = {1} /\ q[1] = <<"edge", x>>
    BY <2>1
  <2> HIDE DEF q
  <2>3. ~Deletes(q)
    BY <2>2 DEF Deletes
  <2>4. \A N : Grounded(q, N, H)
    BY <1>1, <2>2 DEF Grounded
  <2>. QED  BY <2>2, <2>3, <2>4 DEF Plan
<1>3. Plan(p, {}, H)
  <2>1. Plan(<<Node(x.from)>>, {}, H) /\ Plan(<<Node(x.to)>>, {} \union Noded(<<Node(x.from)>>), H)
    BY <1>1, NodePlan
  <2>2. Plan(<<Node(x.from)>> \o <<Node(x.to)>>, {}, H)
    BY <2>1, PlanConcat
  <2>3. <<Node(x.from)>> \o <<Node(x.to)>> = p
    BY Pair
  <2>. QED  BY <2>2, <2>3
<1> HIDE DEF p, q
<1>4. ManualProgram(m) = p \o q \/ ManualProgram(m) = <<>> \o q
  BY DEF ManualProgram, p, q
<1>5. Plan(p \o q, {}, H) /\ Plan(<<>> \o q, {}, H)
  BY <1>2, <1>3, NoPlan, PlanConcat
<1>. QED  BY <1>4, <1>5, PlanAssignable

------------------------------------------------------------------------------
(* TypeInv is inductive.                                                   *)

\* A load goes on, or is done with.
LEMMA LoadingMoves ==
  ASSUME StoresInv, NEW w \in Loaders, NEW r \in Reading, Finite(r),
         loading' = [loading EXCEPT ![w] = r]
  PROVE  /\ loading' \in [Loaders -> Reading]
         /\ \A v \in Loaders : Finite(loading'[v])
         /\ loading'[w] = r
         /\ \A v \in Loaders : v # w => loading'[v] = loading[v]
BY DEF StoresInv

LEMMA NoLoadTyped == NoLoad \in Reading /\ Finite(NoLoad) /\ NoLoad.stage = "none"
BY FS_EmptySet DEF NoLoad, Reading, Finite, Stages

LEMMA StageTyped ==
  ASSUME StoresInv, NEW w \in Loaders, NEW s \in Stages
  PROVE  LET r == [loading[w] EXCEPT !.stage = s]
         IN /\ r \in Reading /\ Finite(r) /\ r.stage = s
            /\ r.nodes = loading[w].nodes /\ r.edges = loading[w].edges
<1>1. loading[w] \in Reading /\ Finite(loading[w])
  BY DEF StoresInv
<1>. QED  BY <1>1 DEF Reading, Finite

LEMMA StartQueryType == TypeInv /\ StartQuery => TypeInv'
<1> SUFFICES ASSUME TypeInv, StartQuery PROVE TypeInv'
  OBVIOUS
<1> DEFINE r == [loading["query"] EXCEPT !.stage = "nodes"]
<1>1. r \in Reading /\ Finite(r) /\ "query" \in Loaders /\ "holder" \in Loaders
  BY StageTyped DEF TypeInv, Loaders, Stages
<1>2. loading' = [loading EXCEPT !["query"] = r]
  BY DEF StartQuery
<1> HIDE DEF r
<1>3. StoresInv' /\ loading'["holder"] = loading["holder"]
  BY <1>1, <1>2, LoadingMoves DEF StartQuery, TypeInv, StoresInv, holder
<1>. QED
  BY <1>3 DEF StartQuery, TypeInv, OffsetsInv, HolderInv, Working, Loading,
              holder, offsets

LEMMA ListNodesType ==
  ASSUME TypeInv, NEW w \in Loaders, ListNodes(w)
  PROVE  /\ TypeInv' /\ Loading(w)
         /\ loading'[w].stage = "edges" /\ loading'[w].nodes = mongo.nodes
         /\ \A v \in Loaders : v # w => loading'[v] = loading[v]
<1> DEFINE r == [loading[w] EXCEPT !.stage = "edges", !.nodes = mongo.nodes]
<1>1. loading[w] \in Reading /\ Finite(loading[w]) /\ mongo \in Graphs
  BY DEF TypeInv, StoresInv
<1>2. PICK h \in Reading : /\ Finite(h) /\ h.stage = "edges"
                          /\ r = [h EXCEPT !.nodes = mongo.nodes]
  BY StageTyped DEF TypeInv, Stages
<1>3. r \in Reading /\ Finite(r) /\ r.stage = "edges" /\ r.nodes = mongo.nodes
  <2> HIDE DEF r
  <2>. QED  BY <1>1, <1>2 DEF Reading, Graphs, Finite
<1>4. loading' = [loading EXCEPT ![w] = r]
  BY <1>1 DEF ListNodes, TypeInv, StoresInv
<1> HIDE DEF r
<1>5. StoresInv' /\ \A v \in Loaders : v # w => loading'[v] = loading[v]
  BY <1>3, <1>4, LoadingMoves DEF ListNodes, TypeInv, StoresInv, holder
<1>6. loading'[w] = r /\ Loading(w)
  BY <1>3, <1>4, LoadingMoves DEF ListNodes, TypeInv, Loading
<1>7. \A v \in Loaders : Loading(v)' <=> Loading(v)
  BY <1>3, <1>5, <1>6 DEF Loading
<1>8. TypeInv'
  BY <1>5, <1>7 DEF ListNodes, TypeInv, OffsetsInv, HolderInv, Working, Loaders,
                    holder, offsets
<1>. QED  BY <1>3, <1>5, <1>6, <1>8

LEMMA ListEdgesType ==
  ASSUME TypeInv, NEW w \in Loaders, ListEdges(w)
  PROVE  /\ TypeInv' /\ Loading(w)
         /\ loading'[w].stage = "assign" /\ loading'[w].edges = mongo.edges
         /\ loading'[w].nodes = loading[w].nodes
         /\ \A v \in Loaders : v # w => loading'[v] = loading[v]
<1> DEFINE r == [loading[w] EXCEPT !.stage = "assign", !.edges = mongo.edges]
<1>1. loading[w] \in Reading /\ mongo \in Graphs /\ Finite(mongo)
  BY DEF TypeInv, StoresInv
<1>2. PICK h \in Reading : /\ h.stage = "assign" /\ h.nodes = loading[w].nodes
                          /\ r = [h EXCEPT !.edges = mongo.edges]
  BY StageTyped DEF TypeInv, Stages
<1>3. /\ r \in Reading /\ Finite(r) /\ r.stage = "assign"
      /\ r.edges = mongo.edges /\ r.nodes = loading[w].nodes
  <2> HIDE DEF r
  <2>. QED  BY <1>1, <1>2 DEF Reading, Graphs, Finite
<1>4. loading' = [loading EXCEPT ![w] = r]
  BY <1>1 DEF ListEdges, TypeInv, StoresInv
<1> HIDE DEF r
<1>5. StoresInv' /\ \A v \in Loaders : v # w => loading'[v] = loading[v]
  BY <1>3, <1>4, LoadingMoves DEF ListEdges, TypeInv, StoresInv, holder
<1>6. loading'[w] = r /\ Loading(w)
  BY <1>3, <1>4, LoadingMoves DEF ListEdges, TypeInv, Loading
<1>7. \A v \in Loaders : Loading(v)' <=> Loading(v)
  BY <1>3, <1>5, <1>6 DEF Loading
<1>8. TypeInv'
  BY <1>5, <1>7 DEF ListEdges, TypeInv, OffsetsInv, HolderInv, Working, Loaders,
                    holder, offsets
<1>. QED  BY <1>3, <1>5, <1>6, <1>8

LEMMA AssignType ==
  ASSUME TypeInv, NEW w \in Loaders, Assign(w)
  PROVE  /\ TypeInv' /\ Loading(w)
         /\ graph' \in Graphs /\ graph' # None
         /\ graph'.nodes = loading[w].nodes /\ graph'.edges = loading[w].edges
         /\ ~Loading(w)'
         /\ \A v \in Loaders : v # w => loading'[v] = loading[v]
<1>1. loading[w] \in Reading /\ Finite(loading[w]) /\ Loading(w)
  BY DEF TypeInv, StoresInv, Assign, Loading
<1>2. graph' = [nodes |-> loading[w].nodes, edges |-> loading[w].edges]
  BY DEF Assign
<1>3. /\ graph' \in Graphs /\ Finite(graph)'
      /\ graph'.nodes = loading[w].nodes /\ graph'.edges = loading[w].edges
  BY <1>1, <1>2 DEF Reading, Graphs, Finite
<1>4. graph' # None
  BY <1>3, ConstantsOK
<1>5. own' \in {graph, own} /\ (own' # own => lock # "free" /\ graph # None)
  BY DEF Assign
<1>6. /\ loading' \in [Loaders -> Reading] /\ \A v \in Loaders : Finite(loading'[v])
      /\ ~Loading(w)'
      /\ \A v \in Loaders : v # w => loading'[v] = loading[v]
  BY NoLoadTyped, LoadingMoves DEF Assign, TypeInv, Loading
<1>7. StoresInv'
  BY <1>3, <1>5, <1>6 DEF Assign, TypeInv, StoresInv, Finite
<1>8. Loading("holder")' => Loading("holder")
  BY <1>1, <1>6 DEF Loading, Loaders
<1>9. HolderInv'
  BY <1>1, <1>4, <1>5, <1>8 DEF Assign, TypeInv, HolderInv, Working, Loaders
<1>10. OffsetsInv'
  BY DEF Assign, TypeInv, OffsetsInv, offsets
<1>. QED  BY <1>1, <1>3, <1>4, <1>6, <1>7, <1>9, <1>10 DEF TypeInv

LEMMA AcquireType ==
  ASSUME TypeInv, NEW who \in {"event", "edge"}, NEW q, NEW H, Assignable(q, H),
         Acquire(who, q), OffsetsInv', UNCHANGED <<up, mongo, graph, own, pending>>
  PROVE  /\ TypeInv' /\ own = None /\ pending = <<>> /\ todo' = q
         /\ loading'["query"] = loading["query"]
         /\ \A w \in Loaders : loading'[w].stage \in {"edges", "assign"} =>
              loading'[w] = loading[w]
<1>1. /\ lock = "free" /\ own = None /\ pending = <<>> /\ up
      /\ ~Loading("holder")
  BY DEF Acquire, TypeInv, HolderInv
<1>2. /\ StoresInv' /\ loading'["query"] = loading["query"]
      /\ graph = None => Loading("holder")'
      /\ \A w \in Loaders : loading'[w].stage \in {"edges", "assign"} =>
           loading'[w] = loading[w]
  <2>1. CASE graph = None
    <3> DEFINE r == [loading["holder"] EXCEPT !.stage = "nodes"]
    <3>1. /\ r \in Reading /\ Finite(r) /\ r.stage = "nodes"
          /\ "query" \in Loaders /\ "holder" \in Loaders
      BY StageTyped DEF TypeInv, Loaders, Stages
    <3>2. loading' = [loading EXCEPT !["holder"] = r]
      BY <2>1 DEF Acquire
    <3> HIDE DEF r
    <3>3. /\ loading' \in [Loaders -> Reading] /\ \A v \in Loaders : Finite(loading'[v])
          /\ loading'["holder"] = r /\ loading'["query"] = loading["query"]
      BY <3>1, <3>2, LoadingMoves DEF TypeInv
    <3>4. Loading("holder")'
      BY <3>1, <3>3 DEF Loading
    <3>. QED  BY <3>1, <3>3, <3>4 DEF TypeInv, StoresInv, Loaders
  <2>2. CASE graph # None
    BY <2>2 DEF Acquire, TypeInv, StoresInv
  <2>. QED  BY <2>1, <2>2
<1>3. todo' = q /\ lock' = who
  BY DEF Acquire
<1>4. HolderInv'
  <2>1. OneChange(pending') /\ Range(pending') = {}
    BY <1>1 DEF OneChange, Range
  <2>. QED  BY <1>1, <1>2, <1>3, <2>1 DEF TypeInv, HolderInv, Working, Assignable
<1>. QED  BY <1>1, <1>2, <1>3, <1>4 DEF TypeInv

LEMMA ConsumeType ==
  ASSUME TypeInv, ConsumeNext
  PROVE  /\ TypeInv' /\ own = None /\ pending = <<>>
         /\ \A H : Assignable(todo', H)
         /\ UNCHANGED <<up, mongo, graph, own, pending, ghosts>>
         /\ loading'["query"] = loading["query"]
         /\ \A w \in Loaders : loading'[w].stage \in {"edges", "assign"} =>
              loading'[w] = loading[w]
<1> DEFINE q == Program(TopologyLog[position + 1])
<1>1. TopologyLog[position + 1] \in Events
  BY ConstantsOK DEF ConsumeNext, TypeInv, OffsetsInv
<1>2. \A H : Assignable(q, H)
  BY <1>1, ProgramAssignable
<1>3. Acquire("event", q)
  BY DEF ConsumeNext
<1>4. OffsetsInv'
  <2>1. Len(TopologyLog) \in Nat
    BY ConstantsOK
  <2>. QED  BY <2>1 DEF ConsumeNext, TypeInv, OffsetsInv
<1>5. UNCHANGED <<up, mongo, graph, own, pending, ghosts>>
  BY DEF ConsumeNext
<1>6. todo' = q
  BY DEF ConsumeNext, Acquire
<1> HIDE DEF q
<1>7. Assignable(q, {})
  BY <1>2
<1>. QED  BY <1>2, <1>3, <1>4, <1>5, <1>6, <1>7, AcquireType

LEMMA AddEdgeType ==
  ASSUME TypeInv, NEW m \in ManualEdges, AddEdge(m)
  PROVE  /\ TypeInv' /\ own = None /\ pending = <<>> /\ Assignable(todo', ByHand')
         /\ UNCHANGED <<up, mongo, graph, own, pending, ghosts>>
         /\ loading'["query"] = loading["query"]
         /\ \A w \in Loaders : loading'[w].stage \in {"edges", "assign"} =>
              loading'[w] = loading[w]
<1> DEFINE q == ManualProgram(m)
<1>1. Assignable(q, ByHand')
  <2>1. m.edge \in Edges /\ Manual(m.edge)
    BY ConstantsOK DEF Manual
  <2>2. lock' = "edge"
    BY DEF AddEdge, Acquire
  <2>3. m.edge \in ByHand'
    BY <2>1, <2>2 DEF ByHand, Manual
  <2>. QED  BY <2>3, ManualAssignable
<1>2. Acquire("edge", q) /\ UNCHANGED <<up, mongo, graph, own, pending, ghosts>>
  BY DEF AddEdge
<1>3. OffsetsInv'
  BY DEF AddEdge, TypeInv, OffsetsInv, offsets
<1>4. todo' = q
  BY DEF AddEdge, Acquire
<1> HIDE DEF q
<1>. QED  BY <1>1, <1>2, <1>3, <1>4, AcquireType

\* A finite set, listed.
LEMMA Listed ==
  ASSUME NEW S, IsFiniteSet(S), NEW s \in SetToSeqs(S)
  PROVE  s \in Seq(S) /\ Range(s) = S
<1> DEFINE n == Cardinality(S)
           D == 1 .. n
<1>1. n \in Nat
  BY FS_CardinalityType
<1>2. s \in [D -> S] /\ \A i, j \in D : s[i] = s[j] => i = j
  BY DEF SetToSeqs
<1>3. Cardinality(D) = n
  BY <1>1, FS_Interval
<1> HIDE DEF n
<1>4. s \in Injection(D, S)
  <2> HIDE DEF D
  <2>. QED  BY <1>2, Fun_IsInj
<1>5. s \in Surjection(D, S)
  <2> HIDE DEF D
  <2>. QED  BY <1>3, <1>4, FS_Injection DEF n
<1>6. \A x \in S : \E i \in D : s[i] = x
  <2> HIDE DEF D
  <2>. QED  BY <1>5, Fun_SurjectionProperties
<1>7. Range(s) = S
  BY <1>2, <1>6 DEF Range
<1>. QED  BY <1>1, <1>2, <1>7

\* The holder works on a graph.
LEMMA HeldTyped ==
  ASSUME TypeInv, Working
  PROVE  /\ HeldGraph \in Graphs /\ Finite(HeldGraph) /\ HeldGraph # None
         /\ up /\ graph # None
BY DEF TypeInv, StoresInv, HolderInv, HeldGraph, Working

LEMMA CallsOfOne ==
  ASSUME NEW c \in Changes, c[1] # "clear"
  PROVE  /\ OneChange(Calls(c))
         /\ \A n \in Ids : <<"detach", n>> \in Range(Calls(c)) =>
              c[1] = "delete" /\ c[2] = n
         /\ \A n \in Ids : <<"node", n>> \in Range(Calls(c)) => c = <<"node", n>>
<1>1. ASSUME NEW n \in Ids, c = <<"delete", n>>
      PROVE  /\ Calls(c) = <<<<"drop", n>>, <<"detach", n>>>>
             /\ OneChange(Calls(c))
             /\ Range(Calls(c)) = {<<"drop", n>>, <<"detach", n>>}
  <2>1. Calls(c) = <<<<"drop", n>>, <<"detach", n>>>>
    BY <1>1 DEF Calls
  <2>. QED  BY <2>1 DEF OneChange, Range
<1>2. ASSUME c \in SimpleCalls, c[1] # "delete"
      PROVE  Calls(c) = <<c>> /\ OneChange(Calls(c)) /\ Range(Calls(c)) = {c}
  <2>1. Calls(c) = <<c>>
    BY <1>2 DEF Calls
  <2>. QED  BY <1>2, <2>1 DEF OneChange, Range
<1>3. \/ \E n \in Ids : c = <<"delete", n>>
      \/ c \in SimpleCalls /\ c[1] \in {"node", "edge", "unlink"}
  BY DEF Changes, SimpleCalls
<1>4. CASE \E n \in Ids : c = <<"delete", n>>
  <2>1. PICK n \in Ids : c = <<"delete", n>>
    BY <1>4
  <2>2. OneChange(Calls(c)) /\ Range(Calls(c)) = {<<"drop", n>>, <<"detach", n>>}
    BY <1>1, <2>1
  <2>. QED  BY <2>1, <2>2
<1>5. CASE c \in SimpleCalls /\ c[1] \in {"node", "edge", "unlink"}
  <2>1. OneChange(Calls(c)) /\ Range(Calls(c)) = {c}
    BY <1>2, <1>5
  <2>. QED  BY <1>5, <2>1
<1>. QED  BY <1>3, <1>4, <1>5

LEMMA InMemoryTyped ==
  ASSUME NEW g \in Graphs, NEW c \in Changes, c[1] # "clear"
  PROVE  InMemory(g, c) \in Graphs /\ (Finite(g) => Finite(InMemory(g, c)))
<1>1. ASSUME NEW n \in Ids, c = <<"delete", n>>
      PROVE  InMemory(g, c) \in Graphs /\ (Finite(g) => Finite(InMemory(g, c)))
  <2> DEFINE h == Change(g, <<"drop", n>>)
  <2>1. <<"drop", n>> \in Calling /\ <<"detach", n>> \in Calling
    BY DEF Calling
  <2>2. h \in Graphs /\ (Finite(g) => Finite(h))
    BY <2>1, ChangeTyped
  <2>3. InMemory(g, c) = Change(h, <<"detach", n>>)
    BY <1>1 DEF InMemory
  <2> HIDE DEF h
  <2>. QED  BY <2>1, <2>2, <2>3, ChangeTyped
<1>2. CASE c[1] # "delete"
  <2>1. InMemory(g, c) = Change(g, c) /\ c \in Calling
    BY <1>2 DEF InMemory, Changes, Calling
  <2>. QED  BY <2>1, ChangeTyped
<1>3. c[1] = "delete" => \E n \in Ids : c = <<"delete", n>>
  BY DEF Changes
<1>. QED  BY <1>1, <1>2, <1>3

\* ApplyInMemory either spreads the clearing of a device into removals, or
\* makes a change in memory and leaves its calls pending.
LEMMA ApplyCases ==
  ASSUME TypeInv, ApplyInMemory
  PROVE  /\ Working /\ pending = <<>> /\ todo \in Seq(Changes) /\ todo # <<>>
         /\ Head(todo) \in Changes /\ Tail(todo) \in Seq(Changes)
         /\ UNCHANGED <<up, offsets, mongo, loading, lock, ghosts>>
         /\ \/ /\ Head(todo)[1] = "clear"
               /\ \E u \in Seq({"unlink"} \X Edges) :
                    /\ todo' = u \o Tail(todo)
                    /\ Range(u) = {<<"unlink", x>> :
                                     x \in RackEdges(HeldGraph, Head(todo)[2])}
               /\ UNCHANGED <<graph, own, pending>>
            \/ /\ Head(todo)[1] # "clear" /\ todo' = Tail(todo)
               /\ pending' = Calls(Head(todo))
               /\ \/ own = None /\ UNCHANGED own
                     /\ graph' = InMemory(graph, Head(todo))
                  \/ own # None /\ UNCHANGED graph
                     /\ own' = InMemory(own, Head(todo))
<1>1. /\ Working /\ pending = <<>> /\ todo # <<>> /\ todo \in Seq(Changes)
      /\ UNCHANGED <<up, offsets, mongo, loading, lock, ghosts>>
  BY DEF ApplyInMemory, TypeInv, HolderInv
<1>2. Head(todo) \in Changes /\ Tail(todo) \in Seq(Changes)
  BY <1>1, HeadTailProperties
<1>3. CASE Head(todo)[1] = "clear"
  <2> DEFINE S == RackEdges(HeldGraph, Head(todo)[2])
  <2>1. PICK s \in SetToSeqs(S) :
               todo' = [i \in DOMAIN s |-> <<"unlink", s[i]>>] \o Tail(todo)
    BY <1>3 DEF ApplyInMemory
  <2>2. S \subseteq HeldGraph.edges /\ HeldGraph.edges \subseteq Edges
    BY <1>1, HeldTyped DEF RackEdges, Graphs
  <2>3. S \subseteq Edges /\ IsFiniteSet(S)
    BY <1>1, <2>2, HeldTyped, FS_Subset DEF Finite
  <2> HIDE DEF S
  <2>4. s \in Seq(Edges) /\ Range(s) = S
    <3>1. s \in Seq(S) /\ Range(s) = S
      BY <2>3, Listed
    <3>. QED  BY <2>3, <3>1
  <2> DEFINE u == [i \in DOMAIN s |-> <<"unlink", s[i]>>]
  <2>5. u \in Seq({"unlink"} \X Edges)
    <3>1. Len(s) \in Nat /\ DOMAIN s = 1 .. Len(s) /\ \A i \in DOMAIN s : s[i] \in Edges
      BY <2>4
    <3>2. u \in [1 .. Len(s) -> {"unlink"} \X Edges]
      BY <3>1
    <3> HIDE DEF u
    <3>. QED  BY <3>1, <3>2
  <2>6. UNCHANGED <<graph, own, pending>>
    BY <1>3 DEF ApplyInMemory
  <2>7. Range(u) = {<<"unlink", x>> : x \in S}
    BY <2>4 DEF Range
  <2> HIDE DEF u
  <2>. QED  BY <1>1, <1>2, <1>3, <2>1, <2>5, <2>6, <2>7 DEF u, S
<1>4. CASE Head(todo)[1] # "clear"
  <2>1. /\ todo' = Tail(todo) /\ pending' = Calls(Head(todo))
        /\ IF own = None THEN graph' = InMemory(HeldGraph, Head(todo)) /\ UNCHANGED own
           ELSE own' = InMemory(HeldGraph, Head(todo)) /\ UNCHANGED graph
    BY <1>4 DEF ApplyInMemory
  <2>. QED  BY <1>1, <1>2, <1>4, <2>1 DEF HeldGraph
<1>. QED  BY <1>3, <1>4

\* Removals and the rest of a list delete no more than the list.
LEMMA StillDeletes ==
  ASSUME NEW q \in Seq(Changes), q # <<>>,
         Deletes(q) => \E c \in Changes : q = <<c>>
  PROVE  /\ ~Deletes(Tail(q))
         /\ Deletes(q) <=> Head(q)[1] = "delete"
         /\ Head(q)[1] = "delete" => Tail(q) = <<>>
         /\ \A u \in Seq({"unlink"} \X Edges) :
              u \o Tail(q) \in Seq(Changes) /\ ~Deletes(u \o Tail(q))
<1> DEFINE t == Tail(q)
           k == Len(q)
<1>1. /\ k \in Nat \ {0} /\ DOMAIN q = 1 .. k /\ Head(q) = q[1]
      /\ t \in Seq(Changes) /\ DOMAIN t = 1 .. (k - 1)
      /\ \A i \in 1 .. (k - 1) : t[i] = q[i + 1]
  <2>1. Len(q) \in Nat /\ Len(q) # 0 /\ Head(q) = q[1] /\ t \in Seq(Changes)
        /\ Len(t) = Len(q) - 1 /\ \A i \in 1 .. Len(t) : t[i] = q[i + 1]
    BY HeadTailProperties, EmptySeq
  <2>. QED  BY <2>1
<1>2. Deletes(q) => Head(q)[1] = "delete" /\ t = <<>>
  <2> SUFFICES ASSUME Deletes(q) PROVE Head(q)[1] = "delete" /\ t = <<>>
    OBVIOUS
  <2>1. PICK c \in Changes : q = <<c>>
    OBVIOUS
  <2>2. Head(q) = c /\ Tail(q) = <<>> /\ DOMAIN q = {1} /\ q[1] = c
    BY <2>1
  <2>. QED  BY <2>2 DEF Deletes
<1> HIDE DEF t, k
<1>3. Head(q)[1] = "delete" => Deletes(q)
  BY <1>1 DEF Deletes
<1>4. ~Deletes(t)
  <2> SUFFICES ASSUME Deletes(t) PROVE FALSE
    OBVIOUS
  <2>1. PICK i \in 1 .. (k - 1) : t[i][1] = "delete"
    BY <1>1 DEF Deletes
  <2>2. i + 1 \in DOMAIN q /\ q[i + 1][1] = "delete"
    BY <1>1, <2>1
  <2>3. t = <<>>
    BY <1>2, <2>2 DEF Deletes
  <2>. QED  BY <2>3 DEF Deletes
<1>5. ASSUME NEW u \in Seq({"unlink"} \X Edges)
      PROVE  u \o t \in Seq(Changes) /\ ~Deletes(u \o t)
  <2>1. {"unlink"} \X Edges \subseteq Changes
    BY DEF Changes
  <2>2. u \in Seq(Changes) /\ \A i \in DOMAIN u : u[i][1] = "unlink"
    <3>1. \A i \in DOMAIN u : u[i] \in {"unlink"} \X Edges
      BY ElementOfSeq
    <3>. QED  BY <2>1, <3>1
  <2> DEFINE s == u \o t
             l == Len(u)
             m == Len(t)
  <2>3. /\ l \in Nat /\ m \in Nat /\ s \in Seq(Changes)
        /\ DOMAIN u = 1 .. l /\ DOMAIN t = 1 .. m /\ DOMAIN s = 1 .. (l + m)
        /\ \A i \in 1 .. (l + m) : s[i] = IF i <= l THEN u[i] ELSE t[i - l]
    BY <1>1, <2>2, ConcatProperties
  <2> HIDE DEF s, l, m
  <2>4. ASSUME NEW i \in DOMAIN s PROVE s[i][1] # "delete"
    <3>1. CASE i <= l
      BY <2>2, <2>3, <3>1
    <3>2. CASE ~(i <= l)
      <4>1. i - l \in DOMAIN t /\ s[i] = t[i - l]
        BY <2>3, <3>2
      <4>. QED  BY <1>4, <4>1 DEF Deletes
    <3>. QED  BY <3>1, <3>2
  <2>. QED  BY <2>3, <2>4 DEF Deletes, s
<1>. QED  BY <1>2, <1>3, <1>4, <1>5 DEF t

LEMMA ApplyInMemoryType == TypeInv /\ ApplyInMemory => TypeInv'
<1> SUFFICES ASSUME TypeInv, ApplyInMemory PROVE TypeInv'
  OBVIOUS
<1> DEFINE c == Head(todo)
<1>1. /\ Working /\ pending = <<>> /\ todo \in Seq(Changes) /\ todo # <<>>
      /\ c \in Changes /\ Tail(todo) \in Seq(Changes)
      /\ UNCHANGED <<up, offsets, mongo, loading, lock, ghosts>>
  BY ApplyCases
<1>2. /\ lock # "free" /\ ~Loading("holder") /\ graph # None /\ graph \in Graphs
      /\ Finite(graph) /\ up /\ ~Loading("holder")'
  BY <1>1 DEF TypeInv, HolderInv, StoresInv, Working, Loading
<1>3. /\ ~Deletes(Tail(todo))
      /\ c[1] = "delete" => Tail(todo) = <<>>
      /\ \A u \in Seq({"unlink"} \X Edges) :
           u \o Tail(todo) \in Seq(Changes) /\ ~Deletes(u \o Tail(todo))
  BY <1>1, StillDeletes DEF TypeInv, HolderInv
<1>4. OffsetsInv'
  BY <1>1 DEF TypeInv, OffsetsInv, offsets
<1>5. CASE /\ \E u \in Seq({"unlink"} \X Edges) : todo' = u \o Tail(todo)
           /\ UNCHANGED <<graph, own, pending>>
  <2>1. todo' \in Seq(Changes) /\ ~Deletes(todo')
    BY <1>3, <1>5
  <2>2. Range(pending') = {}
    BY <1>1, <1>5 DEF Range
  <2>3. StoresInv'
    BY <1>1, <1>5 DEF TypeInv, StoresInv
  <2>4. HolderInv'
    BY <1>1, <1>2, <1>5, <2>1, <2>2 DEF TypeInv, HolderInv, Working
  <2>. QED  BY <1>4, <2>3, <2>4 DEF TypeInv
<1>6. CASE /\ c[1] # "clear" /\ todo' = Tail(todo) /\ pending' = Calls(c)
           /\ \/ own = None /\ UNCHANGED own /\ graph' = InMemory(graph, c)
              \/ own # None /\ UNCHANGED graph /\ own' = InMemory(own, c)
  <2>1. /\ OneChange(pending')
        /\ (\E n \in Ids : <<"detach", n>> \in Range(pending')) => c[1] = "delete"
    BY <1>1, <1>6, CallsOfOne
  <2>2. todo' \in Seq(Changes) /\ ~Deletes(todo') /\ (c[1] = "delete" => todo' = <<>>)
    BY <1>1, <1>3, <1>6
  <2>3. graph' \in Graphs /\ Finite(graph') /\ graph' # None
    <3>1. graph' = graph \/ graph' = InMemory(graph, c)
      BY <1>6
    <3>. QED  BY <1>1, <1>2, <1>6, <3>1, InMemoryTyped, ConstantsOK
  <2>4. own' \in Graphs \union {None} /\ (own' # None => Finite(own'))
    <3>1. CASE own = None
      BY <1>6, <3>1
    <3>2. CASE own # None
      <4>1. own \in Graphs /\ Finite(own) /\ own' = InMemory(own, c)
        BY <1>6, <3>2 DEF TypeInv, StoresInv
      <4>. QED  BY <1>1, <1>6, <4>1, InMemoryTyped
    <3>. QED  BY <3>1, <3>2
  <2>5. StoresInv'
    BY <1>1, <2>3, <2>4 DEF TypeInv, StoresInv, Finite
  <2>6. HolderInv'
    BY <1>1, <1>2, <2>1, <2>2, <2>3 DEF TypeInv, HolderInv, Working
  <2>. QED  BY <1>4, <2>5, <2>6 DEF TypeInv
<1>. QED  BY <1>5, <1>6, ApplyCases

\* One call returns.
LEMMA PersistType ==
  ASSUME TypeInv, Persist
  PROVE  /\ TypeInv' /\ Head(pending) \in Calling
         /\ Range(pending) = {Head(pending)} \union Range(pending')
         /\ lock # "free" /\ up /\ Working /\ graph # None
<1>1. /\ pending # <<>> /\ OneChange(pending)
      /\ mongo' = Change(mongo, Head(pending)) /\ pending' = Tail(pending)
      /\ UNCHANGED <<up, offsets, graph, loading, lock, own, todo>>
  BY DEF Persist, TypeInv, HolderInv
<1>2. /\ Head(pending) \in Calling /\ OneChange(pending')
      /\ Range(pending) = {Head(pending)} \union Range(pending')
  BY <1>1, OneChangeCalls
<1>3. mongo' \in Graphs /\ Finite(mongo')
  BY <1>1, <1>2, ChangeTyped DEF TypeInv, StoresInv
<1>4. lock # "free" /\ up /\ Working /\ graph # None
  BY <1>1 DEF TypeInv, HolderInv, Working
<1>5. StoresInv'
  BY <1>1, <1>3 DEF TypeInv, StoresInv, Finite
<1>6. HolderInv'
  BY <1>1, <1>2, <1>4 DEF TypeInv, HolderInv, Working, Loading
<1>7. OffsetsInv'
  BY <1>1 DEF TypeInv, OffsetsInv, offsets
<1>. QED  BY <1>2, <1>4, <1>5, <1>6, <1>7 DEF TypeInv

\* Nothing in hand.
LEMMA NothingInHand ==
  /\ <<>> \in Seq(Changes) /\ ~Deletes(<<>>) /\ OneChange(<<>>)
  /\ Range(<<>>) = {} /\ \A N, H : Grounded(<<>>, N, H)
BY DEF Deletes, OneChange, Grounded, Range

LEMMA LetGoType ==
  ASSUME TypeInv, LetGo, up' \in BOOLEAN,
         ~Loading("holder")', ~up' => graph' = None /\ ~Loading("query")'
  PROVE  HolderInv'
BY NothingInHand DEF LetGo, TypeInv, HolderInv, Working

LEMMA ReleaseType == TypeInv /\ Release => TypeInv'
<1> SUFFICES ASSUME TypeInv, Release PROVE TypeInv'
  OBVIOUS
<1>1. /\ LetGo /\ ~Loading("holder") /\ own' = None
      /\ UNCHANGED <<up, offsets, mongo, graph, loading>>
  BY DEF Release, Working, LetGo
<1>2. HolderInv'
  BY <1>1, LetGoType DEF TypeInv, HolderInv, Loading
<1>3. StoresInv' /\ OffsetsInv'
  BY <1>1 DEF TypeInv, StoresInv, OffsetsInv, offsets
<1>. QED  BY <1>2, <1>3 DEF TypeInv

\* A call that raises has changed MongoDB or not.
LEMMA CallFailsType ==
  ASSUME TypeInv, CallFails
  PROVE  /\ TypeInv' /\ up /\ lock # "free"
         /\ Range(pending) \subseteq Calling
         /\ \/ mongo' = mongo
            \/ \E c \in Range(pending) : c = Head(pending) /\ mongo' = Change(mongo, c)
         /\ loading'["query"] = loading["query"] /\ ~Loading("holder")'
<1>1. /\ LetGo /\ own' = None /\ OneChange(pending)
      /\ loading' = [loading EXCEPT !["holder"] = NoLoad]
      /\ UNCHANGED <<up, offsets, graph>>
      /\ up /\ lock # "free" /\ up \in BOOLEAN
  BY DEF CallFails, LetGo, TypeInv, HolderInv
<1>2. /\ loading' \in [Loaders -> Reading] /\ \A v \in Loaders : Finite(loading'[v])
      /\ loading'["holder"] = NoLoad /\ loading'["query"] = loading["query"]
  BY <1>1, NoLoadTyped, LoadingMoves DEF TypeInv, Loaders
<1>3. ~Loading("holder")'
  BY <1>2, NoLoadTyped DEF Loading
<1>4. /\ Range(pending) \subseteq Calling
      /\ \/ mongo' = mongo
         \/ pending # <<>> /\ Head(pending) \in Range(pending)
            /\ mongo' = Change(mongo, Head(pending))
  BY <1>1, OneChangeCalls DEF CallFails
<1>5. mongo' \in Graphs /\ Finite(mongo')
  BY <1>4, ChangeTyped DEF TypeInv, StoresInv
<1>6. HolderInv'
  BY <1>1, <1>3, LetGoType
<1>7. StoresInv' /\ OffsetsInv'
  BY <1>1, <1>2, <1>5 DEF TypeInv, StoresInv, OffsetsInv, offsets, Finite
<1>. QED  BY <1>1, <1>2, <1>3, <1>4, <1>6, <1>7 DEF TypeInv

LEMMA QueryFailsType ==
  ASSUME TypeInv, QueryFails
  PROVE  TypeInv' /\ ~Loading("query")' /\ loading'["holder"] = loading["holder"]
<1>1. /\ loading' = [loading EXCEPT !["query"] = NoLoad]
      /\ UNCHANGED <<up, offsets, mongo, graph, holder>>
  BY DEF QueryFails
<1>2. /\ loading' \in [Loaders -> Reading] /\ \A v \in Loaders : Finite(loading'[v])
      /\ loading'["query"] = NoLoad /\ loading'["holder"] = loading["holder"]
  BY <1>1, NoLoadTyped, LoadingMoves DEF TypeInv, Loaders
<1>3. ~Loading("query")' /\ (Loading("holder")' <=> Loading("holder"))
  BY <1>2, NoLoadTyped DEF Loading
<1>4. StoresInv' /\ OffsetsInv'
  BY <1>1, <1>2 DEF TypeInv, StoresInv, OffsetsInv, offsets, holder
<1>5. HolderInv'
  BY <1>1, <1>3 DEF TypeInv, HolderInv, Working, holder
<1>. QED  BY <1>2, <1>3, <1>4, <1>5 DEF TypeInv

LEMMA CrashType ==
  ASSUME TypeInv, Crash
  PROVE  /\ TypeInv' /\ graph' = None /\ own' = None
         /\ \A w \in Loaders : ~Loading(w)'
<1>1. /\ LetGo /\ own' = None /\ graph' = None /\ up' = FALSE
      /\ loading' = [w \in Loaders |-> NoLoad]
      /\ committed' \in committed .. position
      /\ UNCHANGED <<position, high, mongo>>
  BY DEF Crash, LetGo
<1>2. /\ loading' \in [Loaders -> Reading] /\ \A v \in Loaders : Finite(loading'[v])
      /\ \A v \in Loaders : ~Loading(v)'
  BY <1>1, NoLoadTyped DEF Loading
<1>3. StoresInv'
  BY <1>1, <1>2 DEF TypeInv, StoresInv
<1>4. OffsetsInv'
  BY <1>1 DEF TypeInv, OffsetsInv
<1>5. HolderInv'
  BY <1>1, <1>2, LetGoType DEF Loaders
<1>. QED  BY <1>1, <1>2, <1>3, <1>4, <1>5 DEF TypeInv

LEMMA RestartType ==
  ASSUME TypeInv, Restart
  PROVE  /\ TypeInv' /\ graph' \in {None, mongo} /\ pending = <<>> /\ own = None
         /\ \A w \in Loaders : ~Loading(w)
<1>1. /\ ~up /\ up' = TRUE /\ position' = committed
      /\ graph' \in {None, mongo}
      /\ UNCHANGED <<committed, high, mongo, loading, holder>>
  BY DEF Restart
<1>2. /\ lock = "free" /\ pending = <<>> /\ own = None /\ ~Loading("query")
      /\ ~Loading("holder")
  BY <1>1 DEF TypeInv, HolderInv
<1>3. StoresInv'
  BY <1>1 DEF TypeInv, StoresInv, holder
<1>4. OffsetsInv'
  BY <1>1 DEF TypeInv, OffsetsInv
<1>5. HolderInv'
  BY <1>1, <1>2 DEF TypeInv, HolderInv, Working, Loading, holder
<1>. QED  BY <1>1, <1>2, <1>3, <1>4, <1>5 DEF TypeInv, Loaders

LEMMA TypeInit == Init => TypeInv
<1> SUFFICES ASSUME Init PROVE TypeInv
  OBVIOUS
<1>1. /\ loading \in [Loaders -> Reading] /\ \A w \in Loaders : Finite(loading[w])
      /\ ~Loading("holder") /\ ~Loading("query")
  BY NoLoadTyped DEF Init, Loading, Loaders
<1>2. StoresInv
  BY <1>1, EmptyTyped DEF Init, StoresInv
<1>3. Len(TopologyLog) \in Nat
  BY ConstantsOK
<1>4. OffsetsInv
  BY <1>3 DEF Init, OffsetsInv
<1>5. HolderInv
  BY <1>1, NothingInHand DEF Init, HolderInv, Working
<1>. QED  BY <1>2, <1>4, <1>5 DEF TypeInv

LEMMA TypeStutter == TypeInv /\ UNCHANGED vars => TypeInv'
<1> SUFFICES ASSUME TypeInv, UNCHANGED vars PROVE TypeInv'
  OBVIOUS
<1> USE DEF vars, offsets, holder
<1>1. OffsetsInv' /\ StoresInv'
  BY DEF TypeInv, OffsetsInv, StoresInv
<1>2. HolderInv'
  BY DEF TypeInv, HolderInv, Working, Loading
<1>. QED  BY <1>1, <1>2 DEF TypeInv

LEMMA TypeStays == Spec => []TypeInv
<1>1. ASSUME TypeInv, [Next]_vars PROVE TypeInv'
  <2>1. ASSUME NEW w \in Loaders, Load(w) PROVE TypeInv'
    BY <1>1, <2>1, ListNodesType, ListEdgesType, AssignType DEF Load
  <2>2. CASE Work
    BY <1>1, <2>1, <2>2, ConsumeType, ApplyInMemoryType, PersistType, ReleaseType
       DEF Work, Loaders
  <2>3. CASE Restart
    BY <1>1, <2>3, RestartType
  <2>4. CASE StartQuery
    BY <1>1, <2>4, StartQueryType
  <2>5. CASE Load("query")
    BY <2>1, <2>5 DEF Loaders
  <2>6. CASE \E m \in ManualEdges : AddEdge(m)
    BY <1>1, <2>6, AddEdgeType
  <2>7. CASE CallFails
    BY <1>1, <2>7, CallFailsType
  <2>8. CASE QueryFails
    BY <1>1, <2>8, QueryFailsType
  <2>9. CASE Crash
    BY <1>1, <2>9, CrashType
  <2>10. CASE UNCHANGED vars
    BY <1>1, <2>10, TypeStutter
  <2>. QED
    BY <1>1, <2>2, <2>3, <2>4, <2>5, <2>6, <2>7, <2>8, <2>9, <2>10 DEF Next
<1>. QED  BY <1>1, TypeInit, PTL DEF Spec

\* Who holds what, for every log and every run of failures: the offsets stay
\* in order, both graphs stay graphs, the lock is never free with changes or a
\* graph in hand, and whoever works through changes has a graph to make them
\* in.
THEOREM TypeCorrect == Spec => []TypeOK
<1>1. TypeInv => TypeOK
  <2> SUFFICES ASSUME TypeInv PROVE TypeOK
    OBVIOUS
  <2>1. Working => HeldGraph # None
    BY HeldTyped
  <2>. QED  BY <2>1 DEF TypeInv, OffsetsInv, StoresInv, HolderInv, TypeOK
<1>. QED  BY <1>1, TypeStays, PTL

------------------------------------------------------------------------------
(* GroundInv is inductive, given TypeInv.                                  *)

\* Every edge of g has its ends, but for those T is still to detach and those
\* added by hand.
Ends(g, T) ==
  \A x \in g.edges : \A n \in {x.from, x.to} :
    n \in g.nodes \/ <<"detach", n>> \in T \/ Manual(x)

LEMMA EdgesHaveEndsIs == EdgesHaveEnds <=> Ends(mongo, Range(pending) \union torn)
BY DEF EdgesHaveEnds, Ends, Manual

LEMMA EndsMore ==
  ASSUME NEW g, NEW T, NEW U, T \subseteq U, Ends(g, T)
  PROVE  Ends(g, U)
BY DEF Ends

\* What the first call of a change leaves is grounded, once the rest of the
\* change is among what is still to do.
LEMMA CallKeepsEnds ==
  ASSUME TypeInv, GroundInv, pending # <<>>,
         NEW T, Range(Tail(pending)) \union torn \subseteq T
  PROVE  LET g == Change(mongo, Head(pending))
         IN /\ Ends(g, T)
            /\ Grounded(todo, g.nodes \union Noded(Tail(pending)), ByHand)
<1> DEFINE c == Head(pending)
           g == Change(mongo, c)
<1>1. /\ mongo \in Graphs /\ Ends(mongo, Range(pending) \union torn)
      /\ OneChange(pending) /\ c \in Calling
      /\ Range(pending) = {c} \union Range(Tail(pending))
      /\ Grounded(todo, mongo.nodes \union Noded(pending), ByHand)
  BY OneChangeCalls, EdgesHaveEndsIs DEF TypeInv, StoresInv, HolderInv, GroundInv
<1>2. \A n : c # <<"detach", n>> =>
        (<<"detach", n>> \in Range(pending) \union torn => <<"detach", n>> \in T)
  BY <1>1
<1>3. ASSUME NEW a \in SimpleCalls, pending = <<a>>
      PROVE  c = a /\ Tail(pending) = <<>> /\ DOMAIN pending = {1} /\ pending[1] = a
  BY <1>3
<1>4. ASSUME NEW v \in Ids, pending = <<<<"node", v>>>>
      PROVE  Ends(g, T) /\ Grounded(todo, g.nodes \union Noded(Tail(pending)), ByHand)
  <2>1. <<"node", v>> \in SimpleCalls
    BY DEF SimpleCalls
  <2>2. c = <<"node", v>> /\ Noded(pending) = {v}
    BY <1>3, <1>4, <2>1 DEF Noded
  <2>3. g.nodes = mongo.nodes \union {v} /\ g.edges = mongo.edges
    <3> DEFINE h == Change(mongo, <<"node", v>>)
    <3>1. h.nodes = mongo.nodes \union {v} /\ h.edges = mongo.edges
      BY <1>1, ChangeDoes
    <3>2. g = h
      BY <2>2
    <3> HIDE DEF g, h
    <3>. QED  BY <3>1, <3>2
  <2> HIDE DEF c, g
  <2>4. Ends(g, T)
    BY <1>1, <1>2, <2>2, <2>3 DEF Ends
  <2>5. Grounded(todo, g.nodes \union Noded(Tail(pending)), ByHand)
    BY <1>1, <2>2, <2>3, GroundedMore
  <2>. QED  BY <2>4, <2>5
<1>5. ASSUME NEW v \in Edges, pending = <<<<"edge", v>>>>
      PROVE  Ends(g, T) /\ Grounded(todo, g.nodes \union Noded(Tail(pending)), ByHand)
  <2>1. <<"edge", v>> \in SimpleCalls
    BY DEF SimpleCalls
  <2>2. c = <<"edge", v>> /\ Noded(pending) = {}
    BY <1>3, <1>5, <2>1 DEF Noded
  <2>3. g.nodes = mongo.nodes /\ g.edges = mongo.edges \union {v}
    <3> DEFINE h == Change(mongo, <<"edge", v>>)
    <3>1. h.nodes = mongo.nodes /\ h.edges = mongo.edges \union {v}
      BY <1>1, ChangeDoes
    <3>2. g = h
      BY <2>2
    <3> HIDE DEF g, h
    <3>. QED  BY <3>1, <3>2
  <2>4. Manual(v) \/ {v.from, v.to} \subseteq mongo.nodes
    BY <1>5 DEF GroundInv, ByHand
  <2> HIDE DEF c, g
  <2>5. Ends(g, T)
    BY <1>1, <1>2, <2>2, <2>3, <2>4 DEF Ends
  <2>6. Grounded(todo, g.nodes \union Noded(Tail(pending)), ByHand)
    BY <1>1, <2>2, <2>3, GroundedMore
  <2>. QED  BY <2>5, <2>6
<1>6. ASSUME NEW v \in Edges, pending = <<<<"unlink", v>>>>
      PROVE  Ends(g, T) /\ Grounded(todo, g.nodes \union Noded(Tail(pending)), ByHand)
  <2>1. <<"unlink", v>> \in SimpleCalls
    BY DEF SimpleCalls
  <2>2. c = <<"unlink", v>> /\ Noded(pending) = {}
    BY <1>3, <1>6, <2>1 DEF Noded
  <2>3. g.nodes = mongo.nodes /\ g.edges \subseteq mongo.edges
    <3> DEFINE h == Change(mongo, <<"unlink", v>>)
    <3>1. h.nodes = mongo.nodes /\ h.edges = mongo.edges \ {v}
      BY <1>1, ChangeDoes
    <3>2. g = h
      BY <2>2
    <3> HIDE DEF g, h
    <3>. QED  BY <3>1, <3>2
  <2> HIDE DEF c, g
  <2>4. Ends(g, T)
    BY <1>1, <1>2, <2>2, <2>3 DEF Ends
  <2>5. Grounded(todo, g.nodes \union Noded(Tail(pending)), ByHand)
    BY <1>1, <2>2, <2>3, GroundedMore
  <2>. QED  BY <2>4, <2>5
<1>7. ASSUME NEW v \in Ids, pending = <<<<"drop", v>>, <<"detach", v>>>>
      PROVE  Ends(g, T) /\ Grounded(todo, g.nodes \union Noded(Tail(pending)), ByHand)
  <2>1. c = <<"drop", v>> /\ <<"detach", v>> \in Range(Tail(pending))
    <3>1. Tail(pending) = <<<<"detach", v>>>> /\ c = <<"drop", v>>
      BY <1>7
    <3>2. Range(<<<<"detach", v>>>>) = {<<"detach", v>>}
      BY DEF Range
    <3>. QED  BY <3>1, <3>2
  <2>2. g.nodes = mongo.nodes \ {v} /\ g.edges = mongo.edges
    <3> DEFINE h == Change(mongo, <<"drop", v>>)
    <3>1. h.nodes = mongo.nodes \ {v} /\ h.edges = mongo.edges
      BY <1>1, ChangeDoes
    <3>2. g = h
      BY <2>1
    <3> HIDE DEF g, h
    <3>. QED  BY <3>1, <3>2
  <2>3. todo = <<>>
    BY <1>1, <1>7, <2>1 DEF TypeInv, HolderInv
  <2> HIDE DEF c, g
  <2>4. Ends(g, T)
    BY <1>1, <1>2, <2>1, <2>2 DEF Ends
  <2>. QED  BY <2>3, <2>4, NothingInHand
<1>8. ASSUME NEW v \in Ids, pending = <<<<"detach", v>>>>
      PROVE  Ends(g, T) /\ Grounded(todo, g.nodes \union Noded(Tail(pending)), ByHand)
  <2>1. c = <<"detach", v>>
    BY <1>8
  <2>2. g.nodes = mongo.nodes /\ g.edges = {x \in mongo.edges : ~At(v, x)}
    <3> DEFINE h == Change(mongo, <<"detach", v>>)
    <3>1. h.nodes = mongo.nodes /\ h.edges = {x \in mongo.edges : ~At(v, x)}
      BY <1>1, ChangeDoes
    <3>2. g = h
      BY <2>1
    <3> HIDE DEF g, h
    <3>. QED  BY <3>1, <3>2
  <2>3. todo = <<>>
    BY <1>1, <1>8, <2>1 DEF TypeInv, HolderInv
  <2> HIDE DEF c, g
  <2>4. ASSUME NEW x \in g.edges, NEW n \in {x.from, x.to}
        PROVE  n \in g.nodes \/ <<"detach", n>> \in T \/ Manual(x)
    <3>1. x \in mongo.edges /\ n # v
      BY <2>2, <2>4 DEF At
    <3>2. c # <<"detach", n>>
      BY <2>1, <3>1
    <3>. QED  BY <1>1, <1>2, <2>2, <2>4, <3>1, <3>2 DEF Ends
  <2>5. Ends(g, T)
    BY <2>4 DEF Ends
  <2>. QED  BY <2>3, <2>5, NothingInHand
<1>9. \/ \E v \in Ids : pending = <<<<"node", v>>>>
      \/ \E v \in Edges : pending = <<<<"edge", v>>>> \/ pending = <<<<"unlink", v>>>>
      \/ \E v \in Ids : \/ pending = <<<<"drop", v>>, <<"detach", v>>>>
                        \/ pending = <<<<"detach", v>>>>
  BY <1>1 DEF OneChange, SimpleCalls
<1>. QED  BY <1>4, <1>5, <1>6, <1>7, <1>8, <1>9

LEMMA GroundSame ==
  GroundInv /\ UNCHANGED <<mongo, lock, pending, todo, torn>> => GroundInv'
BY DEF GroundInv, EdgesHaveEnds, ByHand, Manual

LEMMA NotAnEdge == Noded(<<>>) = {} /\ \A x : <<>> # <<<<"edge", x>>>>
BY DEF Noded

LEMMA AcquireGround ==
  ASSUME GroundInv, pending = <<>>, Assignable(todo', ByHand'),
         UNCHANGED <<mongo, pending, torn>>
  PROVE  GroundInv'
<1>1. Grounded(todo', mongo'.nodes \union Noded(pending'), ByHand')
  BY GroundedMore DEF Assignable
<1>. QED  BY <1>1, NotAnEdge DEF GroundInv, EdgesHaveEnds

LEMMA NodedCalls ==
  ASSUME NEW c \in Changes, c[1] # "clear"
  PROVE  /\ {n \in Ids : c = <<"node", n>>} \subseteq Noded(Calls(c))
         /\ \A x : Calls(c) = <<<<"edge", x>>>> => c = <<"edge", x>>
<1>1. ASSUME NEW n \in Ids, c = <<"node", n>> PROVE n \in Noded(Calls(c))
  <2>1. Calls(c) = <<<<"node", n>>>>
    BY <1>1 DEF Calls
  <2>. QED  BY <2>1 DEF Noded
<1>2. ASSUME NEW x, Calls(c) = <<<<"edge", x>>>> PROVE c = <<"edge", x>>
  BY <1>2 DEF Calls
<1>. QED  BY <1>1, <1>2

LEMMA RemovalsGrounded ==
  ASSUME NEW u \in Seq({"unlink"} \X Edges), NEW q \in Seq(Changes), ~Deletes(q),
         NEW H, NEW N, Grounded(q, N, H)
  PROVE  Grounded(u \o q, N, H)
<1>1. \A i \in DOMAIN u : u[i] \in {"unlink"} \X Edges
  BY ElementOfSeq
<1>2. \A i \in DOMAIN u : u[i][1] = "unlink"
  BY <1>1
<1>3. u \in Seq(Changes)
  BY DEF Changes
<1>4. ~Deletes(u) /\ Noded(u) = {} /\ Grounded(u, N, H)
  BY <1>2 DEF Deletes, Noded, Grounded
<1>5. Plan(u, N, H) /\ Plan(q, N \union Noded(u), H)
  BY <1>3, <1>4 DEF Plan
<1>. QED  BY <1>5, PlanConcat DEF Plan

LEMMA ApplyInMemoryGround == TypeInv /\ GroundInv /\ ApplyInMemory => GroundInv'
<1> SUFFICES ASSUME TypeInv, GroundInv, ApplyInMemory PROVE GroundInv'
  OBVIOUS
<1> DEFINE c == Head(todo)
           t == Tail(todo)
           N == mongo.nodes
<1>1. /\ pending = <<>> /\ todo \in Seq(Changes) /\ todo # <<>>
      /\ c \in Changes /\ t \in Seq(Changes)
      /\ UNCHANGED <<mongo, lock, torn>> /\ ByHand' = ByHand
  BY ApplyCases DEF ghosts, ByHand, Manual
<1>2. Grounded(todo, N, ByHand)
  BY <1>1, NotAnEdge DEF GroundInv
<1>3. /\ Grounded(t, N \union {n \in Ids : c = <<"node", n>>}, ByHand)
      /\ \A x \in Edges : c = <<"edge", x>> =>
           x \in ByHand \/ {x.from, x.to} \subseteq N
  BY <1>1, <1>2, GroundedTail
<1>4. ~Deletes(t)
  BY <1>1, StillDeletes DEF TypeInv, HolderInv
<1>5. Ends(mongo', Range(pending') \union torn')
  <2>1. Ends(mongo, Range(pending) \union torn)
    BY EdgesHaveEndsIs DEF GroundInv
  <2>2. Range(pending) \union torn \subseteq Range(pending') \union torn'
    BY <1>1, NothingInHand
  <2>3. Ends(mongo, Range(pending') \union torn')
    BY <2>1, <2>2, EndsMore
  <2>. QED  BY <1>1, <2>3
<1>6. EdgesHaveEnds'
  BY <1>5 DEF EdgesHaveEnds, Ends, Manual
<1> HIDE DEF c, t
<1>7. ASSUME NEW u \in Seq({"unlink"} \X Edges), todo' = u \o t, c[1] = "clear",
             UNCHANGED pending
      PROVE  GroundInv'
  <2>1. {n \in Ids : c = <<"node", n>>} = {}
    BY <1>7
  <2>2. Grounded(t, N, ByHand) /\ t \in Seq(Changes)
    BY <1>1, <1>3, <2>1 DEF t
  <2>3. Grounded(todo', N, ByHand)
    BY <1>4, <1>7, <2>2, RemovalsGrounded
  <2>4. Grounded(todo', N \union Noded(pending'), ByHand)
    BY <1>1, <1>7, <2>3, NotAnEdge
  <2>. QED  BY <1>1, <1>6, <1>7, <2>4, NotAnEdge DEF GroundInv
<1>8. ASSUME c[1] # "clear", todo' = t, pending' = Calls(c)
      PROVE  GroundInv'
  <2>1. /\ {n \in Ids : c = <<"node", n>>} \subseteq Noded(pending')
        /\ \A x : pending' = <<<<"edge", x>>>> => c = <<"edge", x>>
    BY <1>1, <1>8, NodedCalls DEF c
  <2>2. Grounded(todo', N \union Noded(pending'), ByHand)
    BY <1>3, <1>8, <2>1, GroundedMore
  <2>. QED  BY <1>1, <1>3, <1>6, <2>1, <2>2 DEF GroundInv
<1>. QED  BY <1>7, <1>8, ApplyCases DEF c, t

LEMMA PersistGround == TypeInv /\ GroundInv /\ Persist => GroundInv'
<1> SUFFICES ASSUME TypeInv, GroundInv, Persist PROVE GroundInv'
  OBVIOUS
<1>1. /\ pending # <<>> /\ OneChange(pending) /\ pending' = Tail(pending)
      /\ mongo' = Change(mongo, Head(pending)) /\ UNCHANGED <<todo, torn>>
      /\ ByHand' = ByHand
  BY DEF Persist, TypeInv, HolderInv, ghosts, ByHand, Manual
<1>2. /\ Ends(mongo', Range(pending') \union torn')
      /\ Grounded(todo', mongo'.nodes \union Noded(pending'), ByHand)
  <2>1. Range(Tail(pending)) \union torn \subseteq Range(pending') \union torn'
    BY <1>1
  <2>. QED  BY <1>1, <2>1, CallKeepsEnds
<1>3. EdgesHaveEnds'
  BY <1>2 DEF EdgesHaveEnds, Ends, Manual
<1>4. ASSUME NEW x PROVE pending' # <<<<"edge", x>>>>
  <2>1. \/ \E a \in SimpleCalls : pending = <<a>>
        \/ \E n \in Ids : \/ pending = <<<<"drop", n>>, <<"detach", n>>>>
                          \/ pending = <<<<"detach", n>>>>
    BY <1>1 DEF OneChange
  <2>2. pending' = <<>> \/ \E n \in Ids : pending' = <<<<"detach", n>>>>
    <3>1. /\ \A a : Tail(<<a>>) = <<>>
          /\ \A n : Tail(<<<<"drop", n>>, <<"detach", n>>>>) = <<<<"detach", n>>>>
          /\ \A n : Tail(<<<<"detach", n>>>>) = <<>>
      OBVIOUS
    <3>. QED  BY <1>1, <2>1, <3>1, Zenon
  <2>3. <<>> # <<<<"edge", x>>>>
    BY NotAnEdge
  <2>4. \A n : <<<<"detach", n>>>> # <<<<"edge", x>>>>
    OBVIOUS
  <2>. QED  BY <2>2, <2>3, <2>4
<1>. QED  BY <1>1, <1>2, <1>3, <1>4 DEF GroundInv

\* Giving the rest up leaves it among the torn.
LEMMA CutGround ==
  ASSUME TypeInv, GroundInv, LetGo, torn' = torn \union Cut,
         \/ mongo' = mongo
         \/ pending # <<>> /\ mongo' = Change(mongo, Head(pending))
  PROVE  GroundInv'
<1>1. todo' = <<>> /\ pending' = <<>>
  BY DEF LetGo
<1>2. Range(pending) \union torn \subseteq Range(pending') \union torn'
  BY DEF Cut
<1>3. Ends(mongo', Range(pending') \union torn')
  <2>1. CASE mongo' = mongo
    <3>1. Ends(mongo, Range(pending) \union torn)
      BY EdgesHaveEndsIs DEF GroundInv
    <3>2. Ends(mongo, Range(pending') \union torn')
      BY <1>2, <3>1, EndsMore
    <3>. QED  BY <2>1, <3>2
  <2>2. CASE pending # <<>> /\ mongo' = Change(mongo, Head(pending))
    <3>1. Range(Tail(pending)) \subseteq Range(pending)
      BY <2>2, OneChangeCalls DEF TypeInv, HolderInv
    <3>2. Range(Tail(pending)) \union torn \subseteq Range(pending') \union torn'
      BY <1>2, <3>1
    <3>. QED  BY <2>2, <3>2, CallKeepsEnds
  <2>. QED  BY <2>1, <2>2
<1>4. EdgesHaveEnds'
  BY <1>3 DEF EdgesHaveEnds, Ends, Manual
<1>. QED  BY <1>1, <1>4, NothingInHand, NotAnEdge DEF GroundInv

LEMMA GroundStays == Spec => []GroundInv
<1>1. Init => GroundInv
  <2> SUFFICES ASSUME Init PROVE GroundInv
    OBVIOUS
  <2>1. mongo.edges = {} /\ todo = <<>> /\ pending = <<>>
    BY DEF Init, Empty
  <2>. QED  BY <2>1, NothingInHand, NotAnEdge DEF GroundInv, EdgesHaveEnds
<1>2. ASSUME TypeInv, GroundInv, [Next]_vars PROVE GroundInv'
  <2> USE DEF holder, ghosts
  <2>1. ASSUME NEW w \in Loaders, Load(w) PROVE GroundInv'
    <3>1. UNCHANGED <<mongo, lock, pending, todo, torn>>
      BY <2>1 DEF Load, ListNodes, ListEdges, Assign
    <3>. QED  BY <1>2, <3>1, GroundSame
  <2>2. CASE ConsumeNext
    BY <1>2, <2>2, ConsumeType, AcquireGround
  <2>3. CASE ApplyInMemory
    BY <1>2, <2>3, ApplyInMemoryGround
  <2>4. CASE Persist
    BY <1>2, <2>4, PersistGround
  <2>5. CASE Release
    <3>1. todo' = <<>> /\ pending' = <<>> /\ pending = <<>> /\ UNCHANGED <<mongo, torn>>
      BY <2>5 DEF Release, LetGo
    <3>. QED  BY <1>2, <3>1, NothingInHand, NotAnEdge DEF GroundInv, EdgesHaveEnds
  <2>6. CASE Restart \/ StartQuery \/ QueryFails \/ UNCHANGED vars
    <3>1. UNCHANGED <<mongo, lock, pending, todo, torn>>
      BY <2>6 DEF Restart, StartQuery, QueryFails, vars
    <3>. QED  BY <1>2, <3>1, GroundSame
  <2>7. CASE \E m \in ManualEdges : AddEdge(m)
    BY <1>2, <2>7, AddEdgeType, AcquireGround
  <2>8. CASE CallFails
    <3>1. /\ LetGo /\ torn' = torn \union Cut
          /\ \/ mongo' = mongo
             \/ pending # <<>> /\ mongo' = Change(mongo, Head(pending))
      BY <2>8 DEF CallFails
    <3>. QED  BY <1>2, <3>1, CutGround
  <2>9. CASE Crash
    <3>1. LetGo /\ torn' = torn \union Cut /\ mongo' = mongo
      BY <2>9 DEF Crash
    <3>. QED  BY <1>2, <3>1, CutGround
  <2>. QED
    BY <1>2, <2>1, <2>2, <2>3, <2>4, <2>5, <2>6, <2>7, <2>8, <2>9
       DEF Next, Work, Loaders
<1>. QED  BY <1>1, <1>2, TypeStays, PTL DEF Spec

\* MongoDB never keeps an edge whose ends it has not, for every log, every
\* crash and every failing call: the exceptions are the ends a deletion has
\* dropped and not yet detached, or never will because it was cut short, and
\* the edges added by hand.
THEOREM EdgesKeepEnds == Spec => []EdgesHaveEnds
<1>1. GroundInv => EdgesHaveEnds
  BY DEF GroundInv
<1>. QED  BY <1>1, GroundStays, PTL

------------------------------------------------------------------------------
(* AgreeInv is inductive, given TypeInv.                                   *)

LEMMA NearItself == ASSUME NEW g, NEW D PROVE Near(g, g, D)
BY DEF Near, SymDiff

LEMMA NearMore ==
  ASSUME NEW g, NEW h, NEW D, NEW E, D \subseteq E, Near(g, h, D)
  PROVE  Near(g, h, E)
BY DEF Near

\* A node or an edge, in one graph and not in the other.
LEMMA NearIs ==
  ASSUME NEW g, NEW h, NEW D
  PROVE  Near(g, h, D) <=>
    /\ \A n : ~(n \in g.nodes <=> n \in h.nodes) =>
         <<"node", n>> \in D \/ <<"drop", n>> \in D
    /\ \A x : ~(x \in g.edges <=> x \in h.edges) =>
         \/ <<"edge", x>> \in D \/ <<"unlink", x>> \in D
         \/ <<"detach", x.from>> \in D \/ <<"detach", x.to>> \in D
<1>1. \A n : n \in SymDiff(g.nodes, h.nodes) <=> ~(n \in g.nodes <=> n \in h.nodes)
  BY DEF SymDiff
<1>2. \A x : x \in SymDiff(g.edges, h.edges) <=> ~(x \in g.edges <=> x \in h.edges)
  BY DEF SymDiff
<1>3. \A n : D \intersect {<<"node", n>>, <<"drop", n>>} # {} <=>
              <<"node", n>> \in D \/ <<"drop", n>> \in D
  OBVIOUS
<1>4. \A x : D \intersect {<<"edge", x>>, <<"unlink", x>>,
                          <<"detach", x.from>>, <<"detach", x.to>>} # {} <=>
              \/ <<"edge", x>> \in D \/ <<"unlink", x>> \in D
              \/ <<"detach", x.from>> \in D \/ <<"detach", x.to>> \in D
  OBVIOUS
<1>. QED  BY <1>1, <1>2, <1>3, <1>4, Zenon DEF Near

\* What the effects of a call are, on one node and on one edge.
LEMMA ChangeMoves ==
  ASSUME NEW g \in Graphs, NEW c \in Calling
  PROVE  LET h == Change(g, c)
         IN /\ \A n : n \in h.nodes <=>
                 c = <<"node", n>> \/ (n \in g.nodes /\ c # <<"drop", n>>)
            /\ \A x : x \in h.edges <=>
                 \/ c = <<"edge", x>>
                 \/ /\ x \in g.edges /\ c # <<"unlink", x>>
                    /\ c # <<"detach", x.from>> /\ c # <<"detach", x.to>>
<1> DEFINE h == Change(g, c)
<1>1. ASSUME NEW v, c = <<"node", v>>
      PROVE  h.nodes = g.nodes \union {v} /\ h.edges = g.edges
  BY <1>1, ChangeDoes
<1>2. ASSUME NEW v, c = <<"drop", v>>
      PROVE  h.nodes = g.nodes \ {v} /\ h.edges = g.edges
  BY <1>2, ChangeDoes
<1>3. ASSUME NEW v, c = <<"edge", v>>
      PROVE  h.nodes = g.nodes /\ h.edges = g.edges \union {v}
  BY <1>3, ChangeDoes
<1>4. ASSUME NEW v, c = <<"unlink", v>>
      PROVE  h.nodes = g.nodes /\ h.edges = g.edges \ {v}
  BY <1>4, ChangeDoes
<1>5. ASSUME NEW v, c = <<"detach", v>>
      PROVE  h.nodes = g.nodes /\ h.edges = {x \in g.edges : ~At(v, x)}
  BY <1>5, ChangeDoes
<1>6. \/ \E v \in Ids : c = <<"node", v>> \/ c = <<"drop", v>> \/ c = <<"detach", v>>
      \/ \E v \in Edges : c = <<"edge", v>> \/ c = <<"unlink", v>>
  BY DEF Calling
<1> HIDE DEF h
<1>7. CASE \E v \in Ids : c = <<"node", v>>
  BY <1>1, <1>7 DEF h
<1>8. CASE \E v \in Ids : c = <<"drop", v>>
  BY <1>2, <1>8 DEF h
<1>9. CASE \E v \in Edges : c = <<"edge", v>>
  BY <1>3, <1>9 DEF h
<1>10. CASE \E v \in Edges : c = <<"unlink", v>>
  BY <1>4, <1>10 DEF h
<1>11. CASE \E v \in Ids : c = <<"detach", v>>
  BY <1>5, <1>11 DEF h, At
<1>. QED  BY <1>6, <1>7, <1>8, <1>9, <1>10, <1>11 DEF h

\* The same for a graph that has the effect already.
LEMMA DoneIs ==
  ASSUME NEW g, NEW c \in Calling
  PROVE  Done(g, c) <=>
    /\ \A n : /\ c = <<"node", n>> => n \in g.nodes
              /\ c = <<"drop", n>> => n \notin g.nodes
    /\ \A x : /\ c = <<"edge", x>> => x \in g.edges
              /\ c = <<"unlink", x>> => x \notin g.edges
              /\ c = <<"detach", x.from>> \/ c = <<"detach", x.to>> =>
                   x \notin g.edges
<1>1. \/ \E v \in Ids : c = <<"node", v>> \/ c = <<"drop", v>> \/ c = <<"detach", v>>
      \/ \E v \in Edges : c = <<"edge", v>> \/ c = <<"unlink", v>>
  BY DEF Calling
<1>2. CASE \E v \in Ids : c = <<"node", v>>
  BY <1>2 DEF Done
<1>3. CASE \E v \in Ids : c = <<"drop", v>>
  BY <1>3 DEF Done
<1>4. CASE \E v \in Ids : c = <<"detach", v>>
  BY <1>4 DEF Done, At
<1>5. CASE \E v \in Edges : c = <<"edge", v>>
  BY <1>5 DEF Done
<1>6. CASE \E v \in Edges : c = <<"unlink", v>>
  BY <1>6 DEF Done
<1>. QED  BY <1>1, <1>2, <1>3, <1>4, <1>5, <1>6

\* A change in memory, which MongoDB has still to be told of.
LEMMA NearChange ==
  ASSUME NEW g \in Graphs, NEW m \in Graphs, NEW D, NEW c \in Calling, Near(g, m, D)
  PROVE  Near(Change(g, c), m, D \union {c}) /\ Done(Change(g, c), c)
<1> DEFINE h == Change(g, c)
<1>1. /\ \A n : n \in h.nodes <=>
           c = <<"node", n>> \/ (n \in g.nodes /\ c # <<"drop", n>>)
      /\ \A x : x \in h.edges <=>
           \/ c = <<"edge", x>>
           \/ /\ x \in g.edges /\ c # <<"unlink", x>>
              /\ c # <<"detach", x.from>> /\ c # <<"detach", x.to>>
  BY ChangeMoves
<1> HIDE DEF h
<1>2. Near(h, m, D \union {c})
  BY <1>1, NearIs
<1>3. Done(h, c)
  <2>1. \A n : <<"node", n>> # <<"drop", n>>
    OBVIOUS
  <2>2. \A x, n : /\ <<"edge", x>> # <<"unlink", x>>
                  /\ <<"edge", x>> # <<"detach", n>>
    OBVIOUS
  <2>. QED  BY <1>1, <2>1, <2>2, DoneIs
<1>. QED  BY <1>2, <1>3 DEF h

\* MongoDB is told.
LEMMA NearCalled ==
  ASSUME NEW g \in Graphs, NEW m \in Graphs, NEW D, NEW c \in Calling,
         Near(g, m, D \union {c}), Done(g, c)
  PROVE  Near(g, Change(m, c), D)
<1> DEFINE h == Change(m, c)
<1>1. /\ \A n : n \in h.nodes <=>
           c = <<"node", n>> \/ (n \in m.nodes /\ c # <<"drop", n>>)
      /\ \A x : x \in h.edges <=>
           \/ c = <<"edge", x>>
           \/ /\ x \in m.edges /\ c # <<"unlink", x>>
              /\ c # <<"detach", x.from>> /\ c # <<"detach", x.to>>
  BY ChangeMoves
<1> HIDE DEF h
<1>2. /\ \A n : /\ c = <<"node", n>> => n \in g.nodes
                /\ c = <<"drop", n>> => n \notin g.nodes
      /\ \A x : /\ c = <<"edge", x>> => x \in g.edges
                /\ c = <<"unlink", x>> => x \notin g.edges
                /\ c = <<"detach", x.from>> \/ c = <<"detach", x.to>> =>
                     x \notin g.edges
  BY DoneIs
<1>3. ASSUME NEW n, ~(n \in g.nodes <=> n \in h.nodes)
      PROVE  <<"node", n>> \in D \/ <<"drop", n>> \in D
  <2>1. c # <<"node", n>> /\ c # <<"drop", n>>
    BY <1>1, <1>2, <1>3
  <2>2. ~(n \in g.nodes <=> n \in m.nodes)
    BY <1>1, <1>3, <2>1
  <2>. QED  BY <2>1, <2>2, NearIs
<1>4. ASSUME NEW x, ~(x \in g.edges <=> x \in h.edges)
      PROVE  \/ <<"edge", x>> \in D \/ <<"unlink", x>> \in D
             \/ <<"detach", x.from>> \in D \/ <<"detach", x.to>> \in D
  <2>1. /\ c # <<"edge", x>> /\ c # <<"unlink", x>>
        /\ c # <<"detach", x.from>> /\ c # <<"detach", x.to>>
    BY <1>1, <1>2, <1>4
  <2>2. ~(x \in g.edges <=> x \in m.edges)
    BY <1>1, <1>4, <2>1
  <2>. QED  BY <2>1, <2>2, NearIs
<1>. QED  BY <1>3, <1>4, NearIs DEF h

LEMMA InMemoryNear ==
  ASSUME NEW g \in Graphs, NEW m \in Graphs, NEW D, Near(g, m, D),
         NEW c \in Changes, c[1] # "clear"
  PROVE  /\ Near(InMemory(g, c), m, D \union Range(Calls(c)))
         /\ \A k \in Range(Calls(c)) : Done(InMemory(g, c), k)
<1>1. ASSUME NEW n \in Ids, c = <<"delete", n>>
      PROVE  /\ Near(InMemory(g, c), m, D \union Range(Calls(c)))
             /\ \A k \in Range(Calls(c)) : Done(InMemory(g, c), k)
  <2> DEFINE a == <<"drop", n>>
             b == <<"detach", n>>
             h == Change(g, a)
             f == Change(h, b)
  <2>1. a \in Calling /\ b \in Calling
    BY DEF Calling
  <2>2. InMemory(g, c) = f /\ Calls(c) = <<a, b>>
    BY <1>1 DEF InMemory, Calls
  <2>3. h \in Graphs
    <3>1. h = [g EXCEPT !.nodes = g.nodes \ {n}]
      BY DEF Change
    <3> HIDE DEF h
    <3>. QED  BY <3>1 DEF Graphs
  <2>4. f.nodes = h.nodes
    <3> HIDE DEF h
    <3>. QED  BY <2>3, ChangeDoes
  <2>5. n \notin h.nodes
    <3>1. h.nodes = g.nodes \ {n}
      BY ChangeDoes
    <3> HIDE DEF h
    <3>. QED  BY <3>1
  <2>6. Done(f, a)
    <3> HIDE DEF f, h
    <3>. QED  BY <2>4, <2>5 DEF Done
  <2> HIDE DEF a, b
  <2>7. Near(h, m, D \union {a})
    BY <2>1, NearChange
  <2> HIDE DEF h
  <2>8. Near(f, m, (D \union {a}) \union {b}) /\ Done(f, b)
    BY <2>1, <2>3, <2>7, NearChange
  <2>9. Range(Calls(c)) = {a, b}
    BY <2>2 DEF Range
  <2> HIDE DEF f
  <2>10. D \union Range(Calls(c)) = (D \union {a}) \union {b}
    BY <2>9
  <2>. QED  BY <2>2, <2>6, <2>8, <2>9, <2>10
<1>2. CASE c[1] # "delete"
  <2>1. c \in Calling /\ InMemory(g, c) = Change(g, c) /\ Calls(c) = <<c>>
    BY <1>2 DEF Changes, Calling, InMemory, Calls
  <2>2. Range(Calls(c)) = {c}
    BY <2>1 DEF Range
  <2>. QED  BY <2>1, <2>2, NearChange
<1>3. c[1] = "delete" => \E n \in Ids : c = <<"delete", n>>
  BY DEF Changes
<1>. QED  BY <1>1, <1>2, <1>3

\* What the loads have read is what MongoDB has: those of the holder always,
\* those of a query as long as there is no graph.
Current(w) ==
  graph = None \/ w = "holder" =>
    /\ loading[w].stage \in {"edges", "assign"} => loading[w].nodes = mongo.nodes
    /\ loading[w].stage = "assign" => loading[w].edges = mongo.edges

GraphNear ==
  graph # None => /\ Near(graph, mongo, split \union Range(pending))
                  /\ \A c \in Range(pending) : Done(graph, c)

LEMMA AgreeInvIs ==
  AgreeInv <=> (~overtaken => own = None /\ GraphNear /\ \A w \in Loaders : Current(w))
BY DEF AgreeInv, GraphNear, Current

LEMMA NotLoading ==
  ASSUME NEW w \in Loaders, ~Loading(w) PROVE Current(w)
BY DEF Loading, Current

\* Nothing here reads or writes what AgreeInv is about.
LEMMA AgreeSame ==
  ASSUME AgreeInv, UNCHANGED <<mongo, graph, split, pending, own, overtaken>>,
         \A w \in Loaders : Current(w) => Current(w)'
  PROVE  AgreeInv'
BY AgreeInvIs DEF GraphNear, AgreeInv, Current

\* Where a call is pending, there is a graph and the holder is not loading.
LEMMA PendingWorks ==
  ASSUME TypeInv, pending # <<>>
  PROVE  Working /\ graph # None /\ ~Loading("holder")
BY DEF TypeInv, HolderInv, Working

LEMMA AcquireAgree ==
  ASSUME AgreeInv, UNCHANGED <<up, mongo, graph, own, pending, ghosts>>,
         \A w \in Loaders : loading'[w].stage \in {"edges", "assign"} =>
                              loading'[w] = loading[w]
  PROVE  AgreeInv'
<1>1. \A w \in Loaders : Current(w) => Current(w)'
  BY DEF Current
<1>. QED  BY <1>1, AgreeSame DEF ghosts

LEMMA LoadAgree ==
  ASSUME TypeInv, AgreeInv, NEW w \in Loaders, Load(w)
  PROVE  AgreeInv'
<1> USE DEF ghosts, holder
<1>1. CASE ListNodes(w)
  <2>1. /\ loading'[w].stage = "edges" /\ loading'[w].nodes = mongo.nodes
        /\ \A v \in Loaders : v # w => loading'[v] = loading[v]
        /\ UNCHANGED <<mongo, graph, split, pending, own, overtaken>>
    BY <1>1, ListNodesType DEF ListNodes
  <2>2. \A v \in Loaders : Current(v) => Current(v)'
    BY <2>1 DEF Current
  <2>. QED  BY <2>1, <2>2, AgreeSame
<1>2. CASE ListEdges(w)
  <2>1. /\ loading[w].stage = "edges" /\ loading'[w].stage = "assign"
        /\ loading'[w].edges = mongo.edges /\ loading'[w].nodes = loading[w].nodes
        /\ \A v \in Loaders : v # w => loading'[v] = loading[v]
        /\ UNCHANGED <<mongo, graph, split, pending, own, overtaken>>
    BY <1>2, ListEdgesType DEF ListEdges
  <2>2. \A v \in Loaders : Current(v) => Current(v)'
    BY <2>1 DEF Current
  <2>. QED  BY <2>1, <2>2, AgreeSame
<1>3. CASE Assign(w)
  <2> SUFFICES ASSUME ~overtaken' PROVE AgreeInv'
    BY DEF AgreeInv
  <2>1. /\ ~overtaken /\ own' = own /\ ~(w = "query" /\ graph # None)
        /\ UNCHANGED <<mongo, split, pending>> /\ loading[w].stage = "assign"
    BY <1>3 DEF Assign
  <2>2. /\ graph' \in Graphs /\ graph' # None /\ Loading(w) /\ ~Loading(w)'
        /\ graph'.nodes = loading[w].nodes /\ graph'.edges = loading[w].edges
        /\ \A v \in Loaders : v # w => loading'[v] = loading[v]
    BY <1>3, AssignType
  <2>3. own = None /\ \A v \in Loaders : Current(v)
    BY <2>1, AgreeInvIs
  <2>4. graph'.nodes = mongo.nodes /\ graph'.edges = mongo.edges
    <3>1. graph = None \/ w = "holder"
      BY <2>1 DEF Loaders
    <3>. QED  BY <2>1, <2>2, <2>3, <3>1 DEF Current
  <2>5. Range(pending) = {}
    <3>1. pending = <<>>
      BY <2>1, <2>2, PendingWorks DEF Loaders
    <3>. QED  BY <3>1, NothingInHand
  <2>6. GraphNear'
    <3>1. Near(graph', mongo, split \union Range(pending))
      BY <2>4, NearIs
    <3>. QED  BY <2>1, <2>5, <3>1 DEF GraphNear
  <2>7. \A v \in Loaders : Current(v)'
    <3> SUFFICES ASSUME NEW v \in Loaders PROVE Current(v)'
      OBVIOUS
    <3>1. CASE v = w
      BY <2>2, <3>1 DEF Current, Loading
    <3>2. CASE v # w
      BY <2>1, <2>2, <2>3, <3>2 DEF Current
    <3>. QED  BY <3>1, <3>2
  <2>8. own' = None
    BY <2>1, <2>3
  <2>. QED  BY <2>6, <2>7, <2>8 DEF AgreeInv, GraphNear, Current
<1>. QED  BY <1>1, <1>2, <1>3 DEF Load

LEMMA ApplyInMemoryAgree == TypeInv /\ AgreeInv /\ ApplyInMemory => AgreeInv'
<1> SUFFICES ASSUME TypeInv, AgreeInv, ApplyInMemory, ~overtaken' PROVE AgreeInv'
  BY DEF AgreeInv
<1> DEFINE c == Head(todo)
<1>1. /\ Working /\ pending = <<>> /\ c \in Changes
      /\ UNCHANGED <<mongo, loading, split, overtaken>> /\ ~overtaken
  BY ApplyCases DEF ghosts
<1>2. /\ own = None /\ GraphNear /\ \A w \in Loaders : Current(w)
      /\ graph \in Graphs /\ graph # None /\ mongo \in Graphs
  BY <1>1, AgreeInvIs DEF TypeInv, StoresInv, HolderInv
<1>3. CASE UNCHANGED <<graph, own, pending>>
  <2>1. \A w \in Loaders : Current(w) => Current(w)'
    BY <1>1, <1>3 DEF Current
  <2>. QED  BY <1>1, <1>3, <2>1, AgreeSame
<1>4. ASSUME c[1] # "clear", pending' = Calls(c), UNCHANGED own,
             graph' = InMemory(graph, c)
      PROVE  AgreeInv'
  <2>1. Near(graph, mongo, split)
    <3>1. split \union Range(pending) = split
      BY <1>1, NothingInHand
    <3>. QED  BY <1>2, <3>1 DEF GraphNear
  <2>2. /\ Near(graph', mongo, split \union Range(pending'))
        /\ \A k \in Range(pending') : Done(graph', k)
    <3> HIDE DEF c
    <3>. QED  BY <1>1, <1>2, <1>4, <2>1, InMemoryNear
  <2>3. GraphNear'
    BY <1>1, <2>2 DEF GraphNear
  <2>4. graph' # None
    <3>1. graph' \in Graphs
      <4> HIDE DEF c
      <4>. QED  BY <1>1, <1>2, <1>4, InMemoryTyped DEF TypeInv, StoresInv
    <3>. QED  BY <3>1, ConstantsOK
  <2>5. \A w \in Loaders : Current(w)'
    BY <1>1, <1>2, <2>4 DEF Current
  <2>. QED  BY <1>2, <1>4, <2>3, <2>5 DEF AgreeInv, GraphNear, Current
<1>. QED  BY <1>2, <1>3, <1>4, ApplyCases

LEMMA PersistAgree == TypeInv /\ AgreeInv /\ Persist => AgreeInv'
<1> SUFFICES ASSUME TypeInv, AgreeInv, Persist, ~overtaken' PROVE AgreeInv'
  BY DEF AgreeInv
<1> DEFINE c == Head(pending)
<1>1. /\ mongo' = Change(mongo, c) /\ pending # <<>>
      /\ UNCHANGED <<graph, loading, own, split, overtaken>> /\ ~overtaken
  BY DEF Persist, ghosts
<1>2. c \in Calling /\ Range(pending) = {c} \union Range(pending')
      /\ Working /\ graph # None
  BY PersistType
<1> HIDE DEF c
<1>3. /\ own = None /\ GraphNear /\ \A w \in Loaders : Current(w)
      /\ graph \in Graphs /\ mongo \in Graphs
  BY <1>1, <1>2, AgreeInvIs DEF TypeInv, StoresInv
<1>4. Near(graph, mongo', split \union Range(pending'))
  <2>1. split \union Range(pending) = (split \union Range(pending')) \union {c}
    BY <1>2
  <2>2. Near(graph, mongo, (split \union Range(pending')) \union {c}) /\ Done(graph, c)
    BY <1>2, <1>3, <2>1 DEF GraphNear
  <2>. QED  BY <1>1, <1>2, <1>3, <2>2, NearCalled
<1>5. GraphNear'
  BY <1>1, <1>2, <1>3, <1>4 DEF GraphNear
<1>6. \A w \in Loaders : Current(w)'
  BY <1>1, <1>2 DEF Current, Working, Loading
<1>. QED  BY <1>1, <1>3, <1>5, <1>6 DEF AgreeInv, GraphNear, Current

\* A call that raised may be all that the two graphs differ by.
LEMMA CallFailsAgree == TypeInv /\ AgreeInv /\ CallFails => AgreeInv'
<1> SUFFICES ASSUME TypeInv, AgreeInv, CallFails, ~overtaken' PROVE AgreeInv'
  BY DEF AgreeInv
<1>1. /\ split' = split \union Range(pending) /\ own' = None /\ pending' = <<>>
      /\ UNCHANGED <<graph, overtaken>> /\ ~overtaken
  BY DEF CallFails, LetGo
<1>2. /\ Range(pending) \subseteq Calling
      /\ \/ mongo' = mongo
         \/ \E c \in Range(pending) : mongo' = Change(mongo, c)
      /\ loading'["query"] = loading["query"] /\ ~Loading("holder")'
  BY CallFailsType
<1>3. /\ GraphNear /\ \A w \in Loaders : Current(w)
      /\ graph # None => graph \in Graphs /\ mongo \in Graphs
  BY <1>1, AgreeInvIs DEF TypeInv, StoresInv
<1>4. Range(pending') = {}
  BY <1>1, NothingInHand
<1>5. ASSUME graph # None PROVE Near(graph, mongo', split')
  <2>1. CASE mongo' = mongo
    BY <1>1, <1>3, <1>5, <2>1 DEF GraphNear
  <2>2. ASSUME NEW c \in Range(pending), mongo' = Change(mongo, c)
        PROVE  Near(graph, mongo', split')
    <3>1. split' = split' \union {c}
      BY <1>1
    <3>2. Near(graph, mongo, split' \union {c}) /\ Done(graph, c) /\ c \in Calling
      BY <1>1, <1>2, <1>3, <1>5, <3>1 DEF GraphNear
    <3>. QED  BY <1>3, <1>5, <2>2, <3>2, NearCalled
  <2>. QED  BY <1>2, <2>1, <2>2
<1>6. GraphNear'
  <2>1. split' \union Range(pending') = split'
    BY <1>4
  <2>. QED  BY <1>1, <1>4, <1>5, <2>1 DEF GraphNear
<1>7. Current("query")'
  <2>1. CASE graph = None
    <3>1. Range(pending) = {}
      BY <2>1, PendingWorks, NothingInHand
    <3>2. mongo' = mongo
      BY <1>2, <3>1
    <3>. QED  BY <1>1, <1>2, <1>3, <3>2 DEF Current, Loaders
  <2>2. CASE graph # None
    BY <1>1, <2>2 DEF Current
  <2>. QED  BY <2>1, <2>2
<1>8. Current("holder")'
  BY <1>2 DEF Current, Loading
<1>. QED  BY <1>1, <1>6, <1>7, <1>8 DEF AgreeInv, GraphNear, Current, Loaders

LEMMA CrashAgree == TypeInv /\ AgreeInv /\ Crash => AgreeInv'
<1> SUFFICES ASSUME TypeInv, Crash PROVE AgreeInv'
  OBVIOUS
<1>1. graph' = None /\ own' = None /\ \A w \in Loaders : ~Loading(w)'
  BY CrashType
<1>. QED  BY <1>1 DEF AgreeInv, Loading

LEMMA RestartAgree == TypeInv /\ AgreeInv /\ Restart => AgreeInv'
<1> SUFFICES ASSUME TypeInv, AgreeInv, Restart PROVE AgreeInv'
  OBVIOUS
<1>1. /\ graph' \in {None, mongo} /\ pending = <<>> /\ own = None
      /\ UNCHANGED <<mongo, loading, own, pending, split>>
      /\ \A w \in Loaders : ~Loading(w)
  BY RestartType DEF Restart, holder, ghosts
<1>2. GraphNear'
  BY <1>1, NearItself, NothingInHand DEF GraphNear
<1>3. \A w \in Loaders : Current(w)'
  BY <1>1 DEF Current, Loading
<1>. QED  BY <1>1, <1>2, <1>3 DEF AgreeInv, GraphNear, Current

LEMMA AgreeStays == Spec => []AgreeInv
<1>1. Init => AgreeInv
  <2> SUFFICES ASSUME Init PROVE AgreeInv
    OBVIOUS
  <2>1. graph = None /\ own = None /\ \A w \in Loaders : ~Loading(w)
    BY NoLoadTyped DEF Init, Loading
  <2>. QED  BY <2>1 DEF AgreeInv, Loading
<1>2. ASSUME TypeInv, AgreeInv, [Next]_vars PROVE AgreeInv'
  <2> USE DEF holder, ghosts
  <2>1. ASSUME NEW w \in Loaders, Load(w) PROVE AgreeInv'
    BY <1>2, <2>1, LoadAgree
  <2>2. CASE ConsumeNext
    BY <1>2, <2>2, ConsumeType, AcquireAgree
  <2>3. CASE ApplyInMemory
    BY <1>2, <2>3, ApplyInMemoryAgree
  <2>4. CASE Persist
    BY <1>2, <2>4, PersistAgree
  <2>5. CASE Release
    <3>1. /\ pending = <<>> /\ pending' = <<>> /\ own' = None
          /\ UNCHANGED <<mongo, graph, loading, split, overtaken>>
      BY <2>5 DEF Release, LetGo
    <3>2. \A w \in Loaders : Current(w) => Current(w)'
      BY <3>1 DEF Current
    <3>. QED  BY <1>2, <3>1, <3>2 DEF AgreeInv, Current
  <2>6. CASE Restart
    BY <1>2, <2>6, RestartAgree
  <2>7. CASE StartQuery
    <3>1. /\ UNCHANGED <<mongo, graph, split, pending, own, overtaken>>
          /\ loading' = [loading EXCEPT !["query"].stage = "nodes"]
          /\ loading \in [Loaders -> Reading]
      BY <1>2, <2>7 DEF StartQuery, TypeInv, StoresInv
    <3>2. loading'["query"].stage = "nodes" /\ loading'["holder"] = loading["holder"]
      BY <3>1 DEF Reading, Loaders
    <3>3. \A w \in Loaders : Current(w) => Current(w)'
      BY <3>1, <3>2 DEF Current, Loaders
    <3>. QED  BY <1>2, <3>1, <3>3, AgreeSame
  <2>8. CASE \E m \in ManualEdges : AddEdge(m)
    BY <1>2, <2>8, AddEdgeType, AcquireAgree
  <2>9. CASE CallFails
    BY <1>2, <2>9, CallFailsAgree
  <2>10. CASE QueryFails
    <3>1. /\ UNCHANGED <<mongo, graph, split, pending, own, overtaken>>
          /\ ~Loading("query")' /\ loading'["holder"] = loading["holder"]
      BY <1>2, <2>10, QueryFailsType DEF QueryFails
    <3>2. \A w \in Loaders : Current(w) => Current(w)'
      BY <3>1 DEF Current, Loaders, Loading
    <3>. QED  BY <1>2, <3>1, <3>2, AgreeSame
  <2>11. CASE Crash
    BY <1>2, <2>11, CrashAgree
  <2>12. CASE UNCHANGED vars
    BY <1>2, <2>12 DEF AgreeInv, vars
  <2>. QED
    BY <1>2, <2>1, <2>2, <2>3, <2>4, <2>5, <2>6, <2>7, <2>8, <2>9, <2>10, <2>11,
       <2>12 DEF Next, Work, Loaders
<1>. QED  BY <1>1, <1>2, TypeStays, PTL DEF Spec

\* What the queries are answered from agrees with MongoDB whenever the lock is
\* free, for every log and every run of failures: a node or an edge that only
\* one of them has is one about which a call failed, in this process, unless a
\* query's load has replaced the graph while it was in use.
THEOREM GraphsStayClose == Spec => []Agree
<1>1. TypeInv /\ AgreeInv => Agree
  <2> SUFFICES ASSUME TypeInv, AgreeInv, AtRest, ~overtaken
               PROVE  Near(graph, mongo, split)
    BY DEF Agree, Near
  <2>1. pending = <<>> /\ graph # None
    BY DEF AtRest, TypeInv, HolderInv
  <2>2. split \union Range(pending) = split
    BY <2>1, NothingInHand
  <2>. QED  BY <2>1, <2>2 DEF AgreeInv
<1>. QED  BY <1>1, TypeStays, AgreeStays, PTL

------------------------------------------------------------------------------
(* The graph the log describes, and the way to it.                         *)

\* One after the other, the changes of q make h of g.
Leads(g, q, h) ==
  \E f : /\ f = [i \in 0 .. Len(q) |-> f[i]]
         /\ f[0] = g /\ f[Len(q)] = h
         /\ \A i \in 1 .. Len(q) : f[i] = Made(f[i - 1], q[i])

LEMMA MadeExists ==
  ASSUME NEW g, NEW q, Len(q) \in Nat
  PROVE  \E f : f = [i \in 0 .. Len(q) |-> IF i = 0 THEN g ELSE Made(f[i - 1], q[i])]
<1> DEFINE Good(f, n) == f = [i \in 0 .. n |-> IF i = 0 THEN g ELSE Made(f[i - 1], q[i])]
           Bad == {n \in Nat : ~\E f : Good(f, n)}
<1>1. SUFFICES Bad = {}
  OBVIOUS
<1>2. SUFFICES ASSUME Bad # {} PROVE FALSE
  OBVIOUS
<1>3. PICK n \in Bad : \A m \in Bad : n <= m
  BY <1>2, LeastNumber
<1>4. CASE n = 0
  <2> DEFINE f == [i \in 0 .. 0 |-> g]
  <2>1. Good(f, 0)
    OBVIOUS
  <2>. QED  BY <1>3, <1>4, <2>1
<1>5. CASE n # 0
  <2>1. n \in Nat /\ n - 1 \in Nat /\ n - 1 \notin Bad
    BY <1>3, <1>5
  <2>2. PICK f : Good(f, n - 1)
    BY <2>1
  <2> DEFINE h == [i \in 0 .. n |-> IF i = 0 THEN g ELSE Made(f[i - 1], q[i])]
  <2>3. \A i \in 0 .. (n - 1) : f[i] = h[i]
    BY <2>1, <2>2
  <2>4. Good(h, n)
    <3>1. \A i \in 0 .. n : i # 0 => i - 1 \in 0 .. (n - 1)
      BY <2>1
    <3>. QED  BY <2>3, <3>1
  <2>. QED  BY <1>3, <2>4
<1>. QED  BY <1>4, <1>5

LEMMA AllMadeLeads ==
  ASSUME NEW g, NEW q, Len(q) \in Nat
  PROVE  Leads(g, q, AllMade(g, q))
<1> DEFINE made == CHOOSE f : f = [i \in 0 .. Len(q) |->
                                     IF i = 0 THEN g ELSE Made(f[i - 1], q[i])]
<1>1. made = [i \in 0 .. Len(q) |-> IF i = 0 THEN g ELSE Made(made[i - 1], q[i])]
  BY MadeExists
<1>2. AllMade(g, q) = made[Len(q)]
  BY DEF AllMade
<1> HIDE DEF made
<1>3. made = [i \in 0 .. Len(q) |-> made[i]] /\ made[0] = g
  BY <1>1
<1>4. \A i \in 1 .. Len(q) : made[i] = Made(made[i - 1], q[i])
  BY <1>1
<1>. QED  BY <1>2, <1>3, <1>4 DEF Leads

LEMMA DescribedExists ==
  \E f : f = [k \in 0 .. Len(TopologyLog) |->
                IF k = 0 THEN Empty ELSE AllMade(f[k - 1], Program(TopologyLog[k]))]
<1> DEFINE Good(f, n) == f = [k \in 0 .. n |->
             IF k = 0 THEN Empty ELSE AllMade(f[k - 1], Program(TopologyLog[k]))]
           Bad == {n \in Nat : ~\E f : Good(f, n)}
<1>1. SUFFICES Bad = {}
  <2>1. Len(TopologyLog) \in Nat
    BY ConstantsOK
  <2>. QED  BY <2>1
<1>2. SUFFICES ASSUME Bad # {} PROVE FALSE
  OBVIOUS
<1>3. PICK n \in Bad : \A m \in Bad : n <= m
  BY <1>2, LeastNumber
<1>4. CASE n = 0
  <2> DEFINE f == [i \in 0 .. 0 |-> Empty]
  <2>1. Good(f, 0)
    OBVIOUS
  <2>. QED  BY <1>3, <1>4, <2>1
<1>5. CASE n # 0
  <2>1. n \in Nat /\ n - 1 \in Nat /\ n - 1 \notin Bad
    BY <1>3, <1>5
  <2>2. PICK f : Good(f, n - 1)
    BY <2>1
  <2> DEFINE h == [k \in 0 .. n |->
             IF k = 0 THEN Empty ELSE AllMade(f[k - 1], Program(TopologyLog[k]))]
  <2>3. \A i \in 0 .. (n - 1) : f[i] = h[i]
    BY <2>1, <2>2
  <2>4. Good(h, n)
    <3>1. \A i \in 0 .. n : i # 0 => i - 1 \in 0 .. (n - 1)
      BY <2>1
    <3>. QED  BY <2>3, <3>1
  <2>. QED  BY <1>3, <2>4
<1>. QED  BY <1>4, <1>5

LEMMA DescribedIs ==
  /\ Described[0] = Empty
  /\ \A k \in 1 .. Len(TopologyLog) :
       Described[k] = AllMade(Described[k - 1], Program(TopologyLog[k]))
<1>1. Described = [k \in 0 .. Len(TopologyLog) |->
             IF k = 0 THEN Empty
             ELSE AllMade(Described[k - 1], Program(TopologyLog[k]))]
  BY DescribedExists DEF Described
<1>2. Len(TopologyLog) \in Nat
  BY ConstantsOK
<1>3. Described[0] = Empty
  BY <1>1, <1>2
<1>4. ASSUME NEW k \in 1 .. Len(TopologyLog)
      PROVE Described[k] = AllMade(Described[k - 1], Program(TopologyLog[k]))
  <2>1. k \in 0 .. Len(TopologyLog) /\ k # 0
    BY <1>2
  <2>. QED  BY <1>1, <2>1
<1>. QED  BY <1>3, <1>4
LEMMA LeadsNowhere == ASSUME NEW g, NEW h, Leads(g, <<>>, h) PROVE g = h
BY DEF Leads

LEMMA LeadsTail ==
  ASSUME NEW g, NEW h, NEW q \in Seq(Changes), q # <<>>, Leads(g, q, h)
  PROVE  Leads(Made(g, Head(q)), Tail(q), h)
<1> DEFINE t == Tail(q)
           k == Len(q)
<1>1. /\ k \in Nat \ {0} /\ Head(q) = q[1] /\ Len(t) = k - 1
      /\ \A i \in 1 .. (k - 1) : t[i] = q[i + 1]
  BY HeadTailProperties, EmptySeq
<1>2. PICK f : /\ f = [i \in 0 .. k |-> f[i]] /\ f[0] = g /\ f[k] = h
               /\ \A i \in 1 .. k : f[i] = Made(f[i - 1], q[i])
  BY DEF Leads
<1> HIDE DEF t, k
<1> DEFINE e == [i \in 0 .. (k - 1) |-> f[i + 1]]
<1>3. e = [i \in 0 .. (k - 1) |-> e[i]] /\ e[k - 1] = h
  BY <1>1, <1>2
<1>4. e[0] = Made(g, Head(q))
  <2>1. 1 \in 1 .. k /\ 0 \in 0 .. (k - 1) /\ e[0] = f[1]
    BY <1>1
  <2> HIDE DEF e
  <2>2. f[1] = Made(f[1 - 1], q[1])
    BY <1>2, <2>1
  <2>3. 1 - 1 = 0
    OBVIOUS
  <2>. QED  BY <1>1, <1>2, <2>1, <2>2, <2>3
<1>5. ASSUME NEW i \in 1 .. (k - 1) PROVE e[i] = Made(e[i - 1], t[i])
  <2>1. /\ i + 1 \in 1 .. k /\ (i + 1) - 1 = i /\ (i - 1) + 1 = i
        /\ i \in 0 .. (k - 1) /\ i - 1 \in 0 .. (k - 1)
    BY <1>1
  <2>2. e[i] = f[i + 1] /\ e[i - 1] = f[i]
    BY <2>1
  <2>3. f[i + 1] = Made(f[i], q[i + 1])
    BY <1>2, <2>1
  <2> HIDE DEF e
  <2>. QED  BY <1>1, <2>2, <2>3
<1> HIDE DEF e
<1>. QED  BY <1>1, <1>3, <1>4, <1>5 DEF Leads, t

\* Changes that make no difference, to begin with.
LEMMA LeadsIdly ==
  ASSUME NEW g, NEW h, NEW u \in Seq(Changes), NEW q \in Seq(Changes),
         \A c \in Range(u) : Made(g, c) = g, Leads(g, q, h)
  PROVE  Leads(g, u \o q, h)
<1> DEFINE s == u \o q
           k == Len(u)
           l == Len(q)
<1>1. /\ k \in Nat /\ l \in Nat /\ Len(s) = k + l /\ DOMAIN u = 1 .. k
      /\ \A i \in 1 .. (k + l) : s[i] = IF i <= k THEN u[i] ELSE q[i - k]
  BY ConcatProperties
<1>2. PICK f : /\ f = [i \in 0 .. l |-> f[i]] /\ f[0] = g /\ f[l] = h
               /\ \A i \in 1 .. l : f[i] = Made(f[i - 1], q[i])
  BY DEF Leads
<1>3. \A i \in 1 .. k : Made(g, u[i]) = g
  BY <1>1 DEF Range
<1> HIDE DEF s, k, l
<1> DEFINE e == [i \in 0 .. (k + l) |-> IF i <= k THEN g ELSE f[i - k]]
<1>4. e = [i \in 0 .. (k + l) |-> e[i]] /\ e[0] = g
  BY <1>1
<1>5. e[k + l] = h
  <2>1. CASE l = 0
    BY <1>1, <1>2, <2>1
  <2>2. CASE l # 0
    <3>1. k + l \in 0 .. (k + l) /\ ~(k + l <= k) /\ (k + l) - k = l
      BY <1>1, <2>2
    <3>. QED  BY <1>2, <3>1
  <2>. QED  BY <2>1, <2>2
<1>6. ASSUME NEW i \in 1 .. (k + l) PROVE e[i] = Made(e[i - 1], s[i])
  <2>1. i \in 0 .. (k + l) /\ i - 1 \in 0 .. (k + l)
    BY <1>1
  <2>2. CASE i <= k
    <3>1. e[i] = g /\ e[i - 1] = g /\ s[i] = u[i] /\ i \in 1 .. k
      BY <1>1, <2>1, <2>2
    <3> HIDE DEF e
    <3>. QED  BY <1>3, <3>1
  <2>3. CASE ~(i <= k)
    <3>1. i - k \in 1 .. l /\ s[i] = q[i - k] /\ e[i] = f[i - k]
      BY <1>1, <2>1, <2>3
    <3>2. e[i - 1] = f[(i - k) - 1]
      <4>1. CASE i - 1 <= k
        <5>1. (i - k) - 1 = 0
          BY <1>1, <2>3, <4>1
        <5>. QED  BY <1>2, <2>1, <4>1, <5>1
      <4>2. CASE ~(i - 1 <= k)
        <5>1. (i - 1) - k = (i - k) - 1
          BY <1>1
        <5>. QED  BY <2>1, <4>2, <5>1
      <4>. QED  BY <4>1, <4>2
    <3> HIDE DEF e
    <3>. QED  BY <1>2, <3>1, <3>2
  <2>. QED  BY <2>2, <2>3
<1> HIDE DEF e
<1>. QED  BY <1>1, <1>4, <1>5, <1>6 DEF Leads, s

------------------------------------------------------------------------------
(* Calls that are due.                                                     *)

\* The calls a change may lead to, whatever the graph, and those of a list.
CallsOf(c) ==
  IF c[1] = "clear"
  THEN {<<"unlink", Edge(c[2], r, "structural")>> : r \in Racks}
  ELSE Range(Calls(c))

Owed(q) == UNION {CallsOf(q[i]) : i \in DOMAIN q}

LEMMA OwedNothing == Owed(<<>>) = {}
BY DEF Owed

LEMMA OwedTail ==
  ASSUME NEW q \in Seq(Changes), q # <<>>
  PROVE  Owed(q) = CallsOf(Head(q)) \union Owed(Tail(q))
<1> DEFINE t == Tail(q)
           k == Len(q)
<1>1. /\ k \in Nat \ {0} /\ DOMAIN q = 1 .. k /\ Head(q) = q[1]
      /\ DOMAIN t = 1 .. (k - 1) /\ \A i \in 1 .. (k - 1) : t[i] = q[i + 1]
  <2>1. Len(q) \in Nat /\ Len(q) # 0 /\ Head(q) = q[1] /\ t \in Seq(Changes)
        /\ Len(t) = Len(q) - 1 /\ \A i \in 1 .. Len(t) : t[i] = q[i + 1]
    BY HeadTailProperties, EmptySeq
  <2>. QED  BY <2>1
<1> HIDE DEF t, k
<1>2. ASSUME NEW i \in DOMAIN q PROVE CallsOf(q[i]) \subseteq CallsOf(Head(q)) \union Owed(t)
  <2>1. CASE i = 1
    BY <1>1, <2>1
  <2>2. CASE i # 1
    <3>1. i - 1 \in DOMAIN t /\ t[i - 1] = q[i]
      BY <1>1, <2>2
    <3>. QED  BY <3>1 DEF Owed
  <2>. QED  BY <2>1, <2>2
<1>3. 1 \in DOMAIN q /\ \A i \in DOMAIN t : i + 1 \in DOMAIN q /\ t[i] = q[i + 1]
  BY <1>1
<1>4. Owed(q) \subseteq CallsOf(Head(q)) \union Owed(t)
  BY <1>2 DEF Owed
<1>5. CallsOf(Head(q)) \union Owed(t) \subseteq Owed(q)
  BY <1>1, <1>3 DEF Owed
<1>. QED  BY <1>4, <1>5 DEF t

\* Removals, and what comes after them.
LEMMA OwedRemovals ==
  ASSUME NEW u \in Seq({"unlink"} \X Edges), NEW q \in Seq(Changes)
  PROVE  Owed(u \o q) = Range(u) \union Owed(q)
<1> DEFINE s == u \o q
           k == Len(u)
           l == Len(q)
<1>1. u \in Seq(Changes) /\ \A i \in DOMAIN u : CallsOf(u[i]) = {u[i]}
  <2>1. {"unlink"} \X Edges \subseteq Changes
    BY DEF Changes
  <2>2. ASSUME NEW i \in DOMAIN u PROVE CallsOf(u[i]) = {u[i]}
    <3>1. u[i][1] = "unlink"
      BY ElementOfSeq
    <3>2. CallsOf(u[i]) = Range(<<u[i]>>)
      BY <3>1 DEF CallsOf, Calls
    <3>. QED  BY <3>2 DEF Range
  <2>. QED  BY <2>1, <2>2
<1>2. /\ k \in Nat /\ l \in Nat
      /\ DOMAIN u = 1 .. k /\ DOMAIN q = 1 .. l /\ DOMAIN s = 1 .. (k + l)
      /\ \A i \in 1 .. (k + l) : s[i] = IF i <= k THEN u[i] ELSE q[i - k]
  <2>1. s \in Seq(Changes) /\ Len(s) = k + l
    BY <1>1, ConcatProperties
  <2>. QED  BY <1>1, <2>1, ConcatProperties
<1> HIDE DEF s, k, l
<1>3. ASSUME NEW i \in DOMAIN s PROVE CallsOf(s[i]) \subseteq Range(u) \union Owed(q)
  <2>1. CASE i <= k
    <3>1. i \in DOMAIN u /\ s[i] = u[i]
      BY <1>2, <2>1
    <3>. QED  BY <1>1, <3>1 DEF Range
  <2>2. CASE ~(i <= k)
    <3>1. i - k \in DOMAIN q /\ s[i] = q[i - k]
      BY <1>2, <2>2
    <3>. QED  BY <3>1 DEF Owed
  <2>. QED  BY <2>1, <2>2
<1>4. ASSUME NEW i \in DOMAIN u PROVE u[i] \in Owed(s)
  <2>1. i \in DOMAIN s /\ s[i] = u[i] /\ u[i] \in CallsOf(u[i])
    BY <1>1, <1>2
  <2>. QED  BY <2>1 DEF Owed
<1>5. ASSUME NEW i \in DOMAIN q PROVE CallsOf(q[i]) \subseteq Owed(s)
  <2>1. i + k \in DOMAIN s /\ ~(i + k <= k) /\ (i + k) - k = i
    BY <1>2
  <2>2. s[i + k] = q[i]
    BY <1>2, <2>1
  <2>. QED  BY <2>1, <2>2 DEF Owed
<1>6. Owed(s) \subseteq Range(u) \union Owed(q)
  BY <1>3 DEF Owed
<1>7. Range(u) \union Owed(q) \subseteq Owed(s)
  BY <1>4, <1>5 DEF Range, Owed
<1>. QED  BY <1>6, <1>7 DEF s

\* Clearing a device leaves nothing to detach.
LEMMA ClearOwes ==
  ASSUME NEW d
  PROVE  \A n : /\ <<"detach", n>> \notin CallsOf(<<"clear", d>>)
                /\ <<"node", n>> \notin CallsOf(<<"clear", d>>)
                /\ <<"drop", n>> \notin CallsOf(<<"clear", d>>)
                /\ <<"edge", n>> \notin CallsOf(<<"clear", d>>)
BY DEF CallsOf

------------------------------------------------------------------------------
(* Graphs along the way.                                                   *)

Closed(g) == \A x \in g.edges : {x.from, x.to} \subseteq g.nodes

\* Every edge has its ends, but for those that D has still to detach.
Mending(g, D) ==
  \A x \in g.edges : \A n \in {x.from, x.to} :
    n \in g.nodes \/ <<"detach", n>> \in D

LEMMA MendingMore ==
  ASSUME NEW g, NEW D, NEW E, D \subseteq E, Mending(g, D)
  PROVE  Mending(g, E)
BY DEF Mending

LEMMA NearNothing ==
  ASSUME NEW g \in Graphs, NEW h \in Graphs, Near(g, h, {})
  PROVE  g = h
<1>1. \A n : n \in g.nodes <=> n \in h.nodes
  BY NearIs
<1>2. \A x : x \in g.edges <=> x \in h.edges
  BY NearIs
<1>3. g.nodes = h.nodes /\ g.edges = h.edges
  BY <1>1, <1>2
<1>. QED  BY <1>3 DEF Graphs

\* A call that is due brings MongoDB no further from any graph than it was.
LEMMA NearDue ==
  ASSUME NEW g, NEW m \in Graphs, NEW D, NEW c \in Calling, c \in D, Near(g, m, D)
  PROVE  Near(g, Change(m, c), D)
<1> DEFINE h == Change(m, c)
<1>1. /\ \A n : n \in h.nodes <=>
           c = <<"node", n>> \/ (n \in m.nodes /\ c # <<"drop", n>>)
      /\ \A x : x \in h.edges <=>
           \/ c = <<"edge", x>>
           \/ /\ x \in m.edges /\ c # <<"unlink", x>>
              /\ c # <<"detach", x.from>> /\ c # <<"detach", x.to>>
  BY ChangeMoves
<1> HIDE DEF h
<1>. QED  BY <1>1, NearIs DEF h

\* Nor does it leave an edge without its ends, if it is made where the others
\* of its change are due.
LEMMA MendingCalled ==
  ASSUME NEW m \in Graphs, NEW D, NEW c \in Calling, Mending(m, D \union {c}),
         \A n : c = <<"drop", n>> => <<"detach", n>> \in D,
         \A x : c = <<"edge", x>> => {x.from, x.to} \subseteq m.nodes
  PROVE  Mending(Change(m, c), D)
<1> DEFINE h == Change(m, c)
<1>1. /\ \A n : n \in h.nodes <=>
           c = <<"node", n>> \/ (n \in m.nodes /\ c # <<"drop", n>>)
      /\ \A x : x \in h.edges <=>
           \/ c = <<"edge", x>>
           \/ /\ x \in m.edges /\ c # <<"unlink", x>>
              /\ c # <<"detach", x.from>> /\ c # <<"detach", x.to>>
  BY ChangeMoves
<1> HIDE DEF h
<1>2. ASSUME NEW x \in h.edges, NEW n \in {x.from, x.to}
      PROVE  n \in h.nodes \/ <<"detach", n>> \in D
  <2>1. CASE c = <<"edge", x>>
    <3>1. n \in m.nodes /\ c # <<"drop", n>>
      BY <1>2, <2>1
    <3>. QED  BY <1>1, <3>1
  <2>2. CASE x \in m.edges /\ c # <<"detach", x.from>> /\ c # <<"detach", x.to>>
    <3>1. n \in m.nodes \/ <<"detach", n>> \in D
      BY <1>2, <2>2 DEF Mending
    <3>. QED  BY <1>1, <3>1
  <2>. QED  BY <1>1, <1>2, <2>1, <2>2
<1>. QED  BY <1>2 DEF Mending, h

\* A change in memory keeps the ends of the edges and the ground of what is
\* still to do.
LEMMA InMemoryCloses ==
  ASSUME NEW g \in Graphs, Closed(g), NEW q \in Seq(Changes), q # <<>>,
         Head(q)[1] # "clear", Grounded(q, g.nodes, {}),
         Head(q)[1] = "delete" => Tail(q) = <<>>
  PROVE  LET h == InMemory(g, Head(q))
         IN Closed(h) /\ Grounded(Tail(q), h.nodes, {})
<1> DEFINE c == Head(q)
           t == Tail(q)
           h == InMemory(g, c)
<1>1. /\ c \in Changes /\ Grounded(t, g.nodes \union {n \in Ids : c = <<"node", n>>}, {})
      /\ \A x \in Edges : c = <<"edge", x>> => {x.from, x.to} \subseteq g.nodes
  <2>1. c \in Changes
    BY HeadTailProperties
  <2> DEFINE H == {}
             N == g.nodes
  <2>2. Grounded(q, N, H)
    OBVIOUS
  <2> HIDE DEF H, N
  <2>3. /\ Grounded(t, N \union {n \in Ids : c = <<"node", n>>}, H)
        /\ \A x \in Edges : c = <<"edge", x>> => x \in H \/ {x.from, x.to} \subseteq N
    BY <2>2, GroundedTail
  <2> HIDE DEF c, t
  <2>. QED  BY <2>1, <2>3 DEF H, N
<1>2. ASSUME NEW n \in Ids, c = <<"delete", n>>
      PROVE  Closed(h) /\ Grounded(t, h.nodes, {})
  <2> DEFINE f == Change(g, <<"drop", n>>)
  <2>1. f = [g EXCEPT !.nodes = g.nodes \ {n}]
    BY DEF Change
  <2>2. f \in Graphs /\ f.nodes = g.nodes \ {n} /\ f.edges = g.edges
    <3> HIDE DEF f
    <3>. QED  BY <2>1 DEF Graphs
  <2>3. h = Change(f, <<"detach", n>>)
    BY <1>2 DEF InMemory
  <2>4. t = <<>>
    BY <1>2
  <2> HIDE DEF f, h, t
  <2>5. h.nodes = g.nodes \ {n} /\ h.edges = {x \in g.edges : ~At(n, x)}
    <3> DEFINE e == Change(f, <<"detach", n>>)
    <3>1. e.nodes = f.nodes /\ e.edges = {x \in f.edges : ~At(n, x)}
      BY <2>2, ChangeDoes
    <3> HIDE DEF e
    <3>. QED  BY <2>2, <2>3, <3>1 DEF e
  <2>. QED  BY <2>4, <2>5, NothingInHand DEF Closed, At
<1>3. CASE c[1] # "delete"
  <2>1. c \in Calling /\ h = Change(g, c) /\ c[1] \in {"node", "edge", "unlink"}
    BY <1>1, <1>3 DEF Changes, Calling, InMemory
  <2>2. /\ \A n : n \in h.nodes <=>
             c = <<"node", n>> \/ (n \in g.nodes /\ c # <<"drop", n>>)
        /\ \A x : x \in h.edges <=>
             \/ c = <<"edge", x>>
             \/ /\ x \in g.edges /\ c # <<"unlink", x>>
                /\ c # <<"detach", x.from>> /\ c # <<"detach", x.to>>
    BY <2>1, ChangeMoves
  <2>3. \A n : c # <<"drop", n>>
    BY <2>1
  <2>4. \A x : c = <<"edge", x>> => x \in Edges
    BY <1>1 DEF Changes
  <2> HIDE DEF c, h, t
  <2>5. g.nodes \union {n \in Ids : c = <<"node", n>>} \subseteq h.nodes
    BY <2>2, <2>3
  <2>6. Closed(h)
    BY <1>1, <2>2, <2>3, <2>4, <2>5 DEF Closed
  <2>7. Grounded(t, h.nodes, {})
    BY <1>1, <2>5, GroundedMore
  <2>. QED  BY <2>6, <2>7 DEF h, c, t
<1>4. c[1] = "delete" => \E n \in Ids : c = <<"delete", n>>
  BY <1>1 DEF Changes
<1>. QED  BY <1>2, <1>3, <1>4

Removals(m, d) == {<<"unlink", x>> : x \in RackEdges(m, d)}

\* Clearing a device in the graph the log describes, while the removals are of
\* the edges that m has.
LEMMA ClearNear ==
  ASSUME NEW g \in Graphs, NEW m \in Graphs, NEW d \in Devices, NEW D,
         Closed(g), Mending(m, D \union CallsOf(<<"clear", d>>)),
         Near(g, m, D \union CallsOf(<<"clear", d>>))
  PROVE  LET h == Made(g, <<"clear", d>>)
             u == Removals(m, d)
         IN /\ h \in Graphs /\ Closed(h) /\ h.nodes = g.nodes
            /\ Near(h, m, D \union u)
            /\ \A c \in u : Made(h, c) = h
            /\ u \subseteq CallsOf(<<"clear", d>>)
<1> DEFINE C == CallsOf(<<"clear", d>>)
           u == Removals(m, d)
           h == Made(g, <<"clear", d>>)
<1>1. C = {<<"unlink", Edge(d, r, "structural")>> : r \in Racks}
  BY DEF CallsOf
<1>2. \A n : /\ <<"detach", n>> \notin C /\ <<"node", n>> \notin C
             /\ <<"drop", n>> \notin C /\ <<"edge", n>> \notin C
  BY ClearOwes
<1>3. h = [g EXCEPT !.edges = g.edges \ RackEdges(g, d)]
  BY DEF Made
<1>4. \A k, x : x \in RackEdges(k, d) <=>
        x \in k.edges /\ x.from = d /\ x.type = "structural"
          /\ x.to \in Racks /\ x.to \in k.nodes
  BY DEF RackEdges
<1>0. u = {<<"unlink", x>> : x \in RackEdges(m, d)}
  BY DEF Removals
<1> HIDE DEF C, u, h
<1>5. /\ h \in Graphs /\ h.nodes = g.nodes
      /\ \A x : x \in h.edges <=> x \in g.edges /\ x \notin RackEdges(g, d)
  BY <1>3 DEF Graphs
<1>6. Closed(h)
  BY <1>5 DEF Closed
<1>7. \A x \in Edges : <<"unlink", x>> \in C <=>
        x.from = d /\ x.type = "structural" /\ x.to \in Racks
  <2>1. ASSUME NEW x \in Edges
        PROVE  x = Edge(d, x.to, "structural") <=> x.from = d /\ x.type = "structural"
    BY DEF Edges, Edge
  <2>2. \A r : Edge(d, r, "structural").to = r /\ Edge(d, r, "structural").from = d
               /\ Edge(d, r, "structural").type = "structural"
    BY DEF Edge
  <2>. QED  BY <1>1, <2>1, <2>2
<1>8. \A x : x \in m.edges \/ x \in g.edges => x \in Edges
  BY DEF Graphs
<1>9. u \subseteq C
  BY <1>0, <1>4, <1>7, <1>8
<1>10. ASSUME NEW n, ~(n \in h.nodes <=> n \in m.nodes)
       PROVE  <<"node", n>> \in D \union u \/ <<"drop", n>> \in D \union u
  <2>1. <<"node", n>> \in D \union C \/ <<"drop", n>> \in D \union C
    BY <1>5, <1>10, NearIs DEF C
  <2>. QED  BY <1>2, <2>1
<1>11. ASSUME NEW x, ~(x \in h.edges <=> x \in m.edges)
       PROVE  \/ <<"edge", x>> \in D \union u \/ <<"unlink", x>> \in D \union u
              \/ <<"detach", x.from>> \in D \union u
              \/ <<"detach", x.to>> \in D \union u
  <2>1. x \in Edges
    BY <1>5, <1>8, <1>11
  <2>2. CASE <<"unlink", x>> \in C
    <3>1. x.from = d /\ x.type = "structural" /\ x.to \in Racks
      BY <1>7, <2>1, <2>2
    <3>2. x \notin h.edges
      <4>1. x \in g.edges => x.to \in g.nodes
        BY DEF Closed
      <4>. QED  BY <1>4, <1>5, <3>1, <4>1
    <3>3. x \in m.edges
      BY <1>11, <3>2
    <3>4. CASE x.to \in m.nodes
      BY <1>0, <1>4, <3>1, <3>3, <3>4
    <3>5. CASE x.to \notin m.nodes
      <4>1. <<"detach", x.to>> \in D \union C
        BY <3>3, <3>5 DEF Mending, C
      <4>. QED  BY <1>2, <4>1
    <3>. QED  BY <3>4, <3>5
  <2>3. CASE <<"unlink", x>> \notin C
    <3>1. x \notin RackEdges(g, d)
      BY <1>4, <1>7, <2>1, <2>3
    <3>2. ~(x \in g.edges <=> x \in m.edges)
      BY <1>5, <1>11, <3>1
    <3>3. \/ <<"edge", x>> \in D \union C \/ <<"unlink", x>> \in D \union C
          \/ <<"detach", x.from>> \in D \union C \/ <<"detach", x.to>> \in D \union C
      BY <3>2, NearIs DEF C
    <3>. QED  BY <1>2, <2>3, <3>3
  <2>. QED  BY <2>2, <2>3
<1>12. Near(h, m, D \union u)
  BY <1>10, <1>11, NearIs
<1>13. ASSUME NEW c \in u PROVE Made(h, c) = h
  <2>1. PICK x \in RackEdges(m, d) : c = <<"unlink", x>>
    BY <1>0
  <2>2. x \notin h.edges
    <3>1. x \in g.edges => x.to \in g.nodes
      BY DEF Closed
    <3>. QED  BY <1>4, <1>5, <3>1
  <2>3. Made(h, c) = [h EXCEPT !.edges = h.edges \ {x}]
    BY <2>1 DEF Made, InMemory, Change
  <2>4. h.edges \ {x} = h.edges
    BY <2>2
  <2>. QED  BY <1>5, <2>3, <2>4 DEF Graphs
<1>. QED  BY <1>5, <1>6, <1>9, <1>12, <1>13 DEF C, u, h

------------------------------------------------------------------------------
(* LogInv is inductive, given the other three.                             *)

Undisturbed == lost = {} /\ ~overtaken /\ calls = 0

\* Where the consumer is in the log, or will be when the process is back.
Place == IF up THEN position ELSE committed

\* The calls that the events after the k-th, as far as the log has ever been
\* consumed, may lead to; and those the holder of the lock has still to make.
Later(k) == UNION {Owed(Program(TopologyLog[j])) : j \in (k + 1) .. high}

InHand == Range(pending) \union Owed(todo)

\* The graph that the first k events describe is the one MongoDB has, but for
\* what the events after them are about.
Reached(k) ==
  /\ Described[k] \in Graphs /\ Closed(Described[k])
  /\ Near(Described[k], mongo, Later(k))

\* A graph between those that the events before the one in hand and the events
\* up to it describe.
Halfway(g) ==
  /\ Closed(g) /\ Grounded(todo, g.nodes, {})
  /\ Leads(g, todo, Described[position])
  /\ Near(g, mongo, InHand \union Later(position))
  /\ \A c \in Range(pending) : Done(g, c)

InEvent ==
  /\ position > 0 /\ InHand \subseteq Owed(Program(TopologyLog[position]))
  /\ \E g \in Graphs : Halfway(g)

LogInv ==
  /\ calls \in Nat
  /\ Undisturbed =>
       /\ split = {} /\ lock # "edge"
       /\ \A k \in 0 .. Place : Reached(k) \/ (lock = "event" /\ k = position)
       /\ Mending(mongo, InHand \union Later(Place))
       /\ lock = "event" => InEvent

LEMMA LaterIs ==
  ASSUME NEW k, NEW c
  PROVE  c \in Later(k) <=> \E j \in (k + 1) .. high : c \in Owed(Program(TopologyLog[j]))
BY DEF Later

LEMMA LaterLess ==
  ASSUME NEW j \in Nat, NEW k \in Nat, j <= k, high \in Nat
  PROVE  Later(k) \subseteq Later(j)
<1>1. (k + 1) .. high \subseteq (j + 1) .. high
  OBVIOUS
<1>. QED  BY <1>1 DEF Later

\* What is in hand was to come before it was consumed.
LEMMA InHandLater ==
  ASSUME TypeInv, InEvent, NEW k \in Nat, k < position
  PROVE  InHand \union Later(position) \subseteq Later(k)
<1>1. position \in (k + 1) .. high /\ position \in Nat /\ high \in Nat
  BY DEF TypeInv, OffsetsInv
<1>2. InHand \subseteq Later(k)
  BY <1>1 DEF InEvent, Later
<1>. QED  BY <1>1, <1>2, LaterLess

LEMMA PlaceTyped == TypeInv => Place \in Nat /\ position \in Nat /\ high \in Nat
BY DEF TypeInv, OffsetsInv, Place

LEMMA NotInHand ==
  ASSUME todo = <<>>, pending = <<>> PROVE InHand = {}
BY NothingInHand, OwedNothing DEF InHand

\* Nothing here reads or writes what LogInv is about, or the condition is lost.
LEMMA LogSame ==
  ASSUME LogInv, Undisturbed' => Undisturbed, calls' = calls,
         UNCHANGED <<up, position, committed, high, mongo, lock, todo, pending, split>>
  PROVE  LogInv'
<1>1. UNCHANGED <<Place, InHand>> /\ \A k : Later(k)' = Later(k)
  BY DEF Place, InHand, Later
<1>2. /\ \A k : Reached(k)' <=> Reached(k)
      /\ \A g : Halfway(g)' <=> Halfway(g)
  BY <1>1 DEF Reached, Halfway
<1>3. InEvent' <=> InEvent
  BY <1>1, <1>2 DEF InEvent
<1>4. Mending(mongo, InHand \union Later(Place))'
        <=> Mending(mongo, InHand \union Later(Place))
  BY <1>1
<1>. QED  BY <1>1, <1>2, <1>3, <1>4 DEF LogInv

LEMMA ConsumeLog == TypeInv /\ LogInv /\ ConsumeNext => LogInv'
<1> SUFFICES ASSUME TypeInv, LogInv, ConsumeNext, Undisturbed' PROVE LogInv'
  BY DEF LogInv, ConsumeNext
<1>0. PICK p \in Nat : p = position
  BY PlaceTyped
<1> DEFINE r == p + 1
           q == Program(TopologyLog[r])
<1>1. /\ lock = "free" /\ lock' = "event" /\ up /\ up' /\ position' = r /\ todo' = q
      /\ high' = IF r > high THEN r ELSE high
      /\ UNCHANGED <<mongo, pending, split, calls>> /\ Undisturbed
  BY <1>0 DEF ConsumeNext, Acquire, ghosts, Undisturbed
<1>2. /\ pending = <<>> /\ todo = <<>> /\ p \in Nat /\ r \in Nat /\ high \in Nat
      /\ high' \in Nat /\ p <= high /\ r <= high' /\ high <= high'
      /\ r \in 1 .. Len(TopologyLog) /\ Len(TopologyLog) \in Nat
  <2>1. Len(TopologyLog) \in Nat
    BY ConstantsOK
  <2>. QED  BY <1>0, <1>1, <2>1 DEF TypeInv, OffsetsInv, HolderInv, ConsumeNext
<1>3. Place = p /\ Place' = r
  BY <1>0, <1>1 DEF Place
<1>4. InHand = {} /\ InHand' = Owed(q) /\ Range(pending') = {}
  BY <1>1, <1>2, NotInHand, NothingInHand DEF InHand
<1> HIDE DEF q
<1>5. \A k \in Nat : Later(k) \subseteq Later(k)'
  <2> SUFFICES ASSUME NEW k \in Nat PROVE Later(k) \subseteq Later(k)'
    OBVIOUS
  <2>1. (k + 1) .. high \subseteq (k + 1) .. high'
    BY <1>2
  <2>. QED  BY <2>1 DEF Later
<1>6. Later(p) \subseteq InHand' \union Later(r)'
  <2>1. ASSUME NEW j \in (p + 1) .. high
        PROVE  Owed(Program(TopologyLog[j])) \subseteq InHand' \union Later(r)'
    <3>1. CASE j = r
      BY <1>4, <3>1 DEF q
    <3>2. CASE j # r
      <4>1. j \in (r + 1) .. high'
        BY <1>2, <3>2
      <4> HIDE DEF r
      <4>. QED  BY <4>1 DEF Later
    <3>. QED  BY <3>1, <3>2
  <2>. QED  BY <2>1 DEF Later
<1> HIDE DEF r
<1>7. \A k \in 0 .. p : Reached(k)
  BY <1>1, <1>3 DEF LogInv
<1>8. ASSUME NEW k \in 0 .. p PROVE Reached(k)'
  <2>1. Later(k) \subseteq Later(k)' /\ Reached(k)
    BY <1>2, <1>5, <1>7
  <2>2. Near(Described[k], mongo, Later(k)')
    BY <2>1, NearMore DEF Reached
  <2>. QED  BY <1>1, <2>1, <2>2 DEF Reached
<1>9. \A k \in 0 .. Place' : Reached(k)' \/ (lock' = "event" /\ k = position')
  <2>1. \A k \in 0 .. r : k \in 0 .. p \/ k = r
    BY <1>2 DEF r
  <2>. QED  BY <1>1, <1>3, <1>8, <2>1
<1>10. Mending(mongo', InHand' \union Later(r)')
  <2>1. Mending(mongo, Later(p))
    BY <1>1, <1>3, <1>4 DEF LogInv
  <2>2. Mending(mongo, InHand' \union Later(r)')
    BY <1>6, <2>1, MendingMore
  <2>. QED  BY <1>1, <2>2
<1>11. Later(position)' = Later(r)' /\ Later(Place)' = Later(r)'
  BY <1>1, <1>3 DEF Later
<1>12. InEvent'
  <2> DEFINE g == Described[p]
  <2>1. g \in Graphs /\ Closed(g) /\ Near(g, mongo, Later(p))
    BY <1>2, <1>7 DEF Reached
  <2>2. Grounded(q, g.nodes, {})
    <3>1. Assignable(todo', {})
      BY ConsumeType
    <3>2. Grounded(q, {}, {})
      BY <1>1, <3>1 DEF Assignable
    <3>. QED  BY <3>2, GroundedMore
  <2>3. Leads(g, q, Described[r])
    <3>1. Described[r] = AllMade(Described[r - 1], q) /\ r - 1 = p
      BY <1>2, DescribedIs DEF q, r
    <3>2. Len(q) \in Nat
      <4>1. q \in Seq(Changes)
        BY <1>1, ConsumeType DEF Assignable
      <4>. QED  BY <4>1
    <3>. QED  BY <3>1, <3>2, AllMadeLeads
  <2>4. Near(g, mongo, InHand' \union Later(r)')
    BY <1>6, <2>1, NearMore
  <2> HIDE DEF g
  <2>5. Halfway(g)'
    BY <1>1, <1>4, <1>11, <2>1, <2>2, <2>3, <2>4 DEF Halfway
  <2>6. r > 0 /\ InHand' \subseteq Owed(Program(TopologyLog[r]))
    BY <1>2, <1>4 DEF q
  <2>. QED  BY <1>1, <2>1, <2>5, <2>6 DEF InEvent
<1>. QED  BY <1>1, <1>3, <1>9, <1>10, <1>11, <1>12 DEF LogInv

\* The holder of the lock works through an event.
LEMMA WorkingLog ==
  ASSUME TypeInv, LogInv, Undisturbed, lock # "free"
  PROVE  /\ lock = "event" /\ up /\ Place = position /\ split = {}
         /\ InEvent /\ Mending(mongo, InHand \union Later(position))
BY DEF LogInv, TypeInv, HolderInv, Place

\* What is due is the same, or less, and MongoDB has not changed.
LEMMA MovesLog ==
  ASSUME TypeInv, LogInv, Undisturbed, lock = "event", calls' = calls,
         UNCHANGED <<up, position, committed, high, mongo, lock, split>>,
         Mending(mongo, InHand' \union Later(position)), InEvent'
  PROVE  LogInv'
<1>1. Place = position /\ up
  BY WorkingLog
<1>2. Place' = Place /\ \A k : Later(k)' = Later(k)
  BY DEF Place, Later
<1>3. \A k : Reached(k)' <=> Reached(k)
  BY <1>2 DEF Reached
<1>4. Mending(mongo, InHand \union Later(Place))'
  BY <1>1, <1>2 DEF Mending
<1>. QED  BY <1>2, <1>3, <1>4 DEF LogInv

LEMMA ClearLog ==
  ASSUME TypeInv, AgreeInv, LogInv, Undisturbed, ApplyInMemory,
         Head(todo)[1] = "clear"
  PROVE  LogInv'
<1> DEFINE c == Head(todo)
           t == Tail(todo)
           d == c[2]
           C == CallsOf(<<"clear", d>>)
           D == Owed(t) \union Later(position)
<1>1. /\ Working /\ pending = <<>> /\ todo \in Seq(Changes) /\ todo # <<>>
      /\ c \in Changes /\ t \in Seq(Changes)
      /\ UNCHANGED <<up, offsets, mongo, loading, lock, ghosts, pending, graph>>
      /\ calls' = calls /\ lock # "free"
  BY ApplyCases DEF ApplyInMemory, Working
<1>2. PICK u \in Seq({"unlink"} \X Edges) :
        todo' = u \o t
        /\ Range(u) = Removals(HeldGraph, d)
  BY ApplyCases DEF Removals
<1>3. c = <<"clear", d>> /\ d \in Devices
  BY <1>1 DEF Changes
<1>4. /\ lock = "event" /\ up /\ Place = position /\ split = {}
      /\ InEvent /\ Mending(mongo, InHand \union Later(position))
  BY <1>1, WorkingLog
<1>5. HeldGraph = mongo /\ mongo \in Graphs
  <2>1. own = None /\ GraphNear /\ graph \in Graphs /\ graph # None /\ mongo \in Graphs
    BY <1>1, AgreeInvIs, HeldTyped DEF Undisturbed, TypeInv, StoresInv
  <2>2. split \union Range(pending) = {}
    BY <1>1, <1>4, NothingInHand
  <2>3. Near(graph, mongo, {})
    BY <2>1, <2>2 DEF GraphNear
  <2>4. graph = mongo
    BY <2>1, <2>3, NearNothing
  <2>. QED  BY <2>1, <2>4 DEF HeldGraph
<1>6. InHand = C \union Owed(t) /\ InHand' = Range(u) \union Owed(t)
  <2>1. Owed(todo) = C \union Owed(t)
    BY <1>1, <1>3, OwedTail
  <2>2. Owed(todo') = Range(u) \union Owed(t)
    BY <1>1, <1>2, OwedRemovals
  <2>3. Range(pending) = {} /\ Range(pending') = {}
    BY <1>1, NothingInHand
  <2>. QED  BY <2>1, <2>2, <2>3 DEF InHand
<1>7. PICK g \in Graphs : Halfway(g)
  BY <1>4 DEF InEvent
<1> HIDE DEF t, C, D
<1>8. InHand \union Later(position) = D \union C
  BY <1>6 DEF D
<1> DEFINE h == Made(g, <<"clear", d>>)
           U == Range(u)
<1>9. /\ h \in Graphs /\ Closed(h) /\ h.nodes = g.nodes
      /\ Near(h, mongo, D \union U)
      /\ \A e \in U : Made(h, e) = h
      /\ U \subseteq C
  <2>1. /\ Closed(g) /\ Mending(mongo, D \union C) /\ Near(g, mongo, D \union C)
        /\ U = Removals(mongo, d)
    BY <1>2, <1>4, <1>5, <1>7, <1>8 DEF Halfway
  <2>2. d \in Devices
    BY <1>3
  <2> HIDE DEF U, d
  <2>3. /\ Closed(g) /\ Mending(mongo, D \union CallsOf(<<"clear", d>>))
        /\ Near(g, mongo, D \union CallsOf(<<"clear", d>>))
    BY <2>1 DEF C
  <2>. QED  BY <1>5, <2>1, <2>2, <2>3, ClearNear DEF C
<1> HIDE DEF h
<1>10. Mending(mongo, InHand' \union Later(position))
  <2>1. Mending(mongo, D \union C)
    BY <1>4, <1>8
  <2>2. \A n : <<"detach", n>> \notin C
    BY ClearOwes DEF C
  <2>3. Mending(mongo, D)
    BY <2>1, <2>2 DEF Mending
  <2>4. D \subseteq InHand' \union Later(position)
    BY <1>6 DEF D
  <2>. QED  BY <2>3, <2>4, MendingMore
<1>11. Grounded(todo', h.nodes, {})
  <2> DEFINE N == g.nodes
             H == {}
  <2>1. Grounded(todo, N, H)
    BY <1>7 DEF Halfway
  <2> HIDE DEF N, H
  <2>2. Grounded(t, N \union {n \in Ids : c = <<"node", n>>}, H)
    BY <1>1, <2>1, GroundedTail DEF t
  <2>3. {n \in Ids : c = <<"node", n>>} = {}
    BY <1>3
  <2>4. Grounded(t, N, H)
    BY <2>2, <2>3
  <2>5. ~Deletes(t)
    BY <1>1, StillDeletes DEF TypeInv, HolderInv, t
  <2>6. Grounded(u \o t, N, H)
    BY <1>1, <2>4, <2>5, RemovalsGrounded
  <2>. QED  BY <1>2, <1>9, <2>6 DEF N, H
<1>12. Leads(h, todo', Described[position])
  <2> DEFINE z == Described[position]
  <2>1. Leads(g, todo, z)
    BY <1>7 DEF Halfway
  <2> HIDE DEF z
  <2>2. Leads(Made(g, c), t, z)
    BY <1>1, <2>1, LeadsTail DEF t
  <2>3. Leads(h, t, z)
    BY <1>3, <2>2 DEF h
  <2>4. u \in Seq(Changes)
    BY DEF Changes
  <2>5. Leads(h, u \o t, z)
    BY <1>1, <1>9, <2>3, <2>4, LeadsIdly
  <2>. QED  BY <1>2, <2>5 DEF z
<1>13. Near(h, mongo, InHand' \union Later(position))
  <2>1. D \union U = InHand' \union Later(position)
    BY <1>6 DEF D
  <2>. QED  BY <1>9, <2>1
<1>14. position' = position /\ Later(position)' = Later(position)
  BY <1>1 DEF offsets, Later
<1>15. \E k \in Graphs : Halfway(k)'
  <2>1. Range(pending') = {}
    BY <1>1, NothingInHand
  <2>. QED  BY <1>1, <1>9, <1>11, <1>12, <1>13, <1>14, <2>1 DEF Halfway
<1>16. InEvent'
  BY <1>4, <1>6, <1>9, <1>14, <1>15 DEF InEvent
<1>. QED  BY <1>1, <1>4, <1>10, <1>16, MovesLog DEF offsets, ghosts

LEMMA ApplyInMemoryLog ==
  TypeInv /\ AgreeInv /\ LogInv /\ ApplyInMemory => LogInv'
<1> SUFFICES ASSUME TypeInv, AgreeInv, LogInv, ApplyInMemory, Undisturbed'
             PROVE  LogInv'
  BY DEF LogInv, ApplyInMemory
<1> DEFINE c == Head(todo)
           t == Tail(todo)
<1>1. /\ Working /\ pending = <<>> /\ todo \in Seq(Changes) /\ todo # <<>>
      /\ c \in Changes /\ t \in Seq(Changes)
      /\ UNCHANGED <<up, offsets, mongo, loading, lock, ghosts>>
      /\ calls' = calls /\ lock # "free" /\ Undisturbed
  BY ApplyCases DEF ApplyInMemory, Working, Undisturbed, ghosts
<1>2. CASE c[1] = "clear"
  BY <1>1, <1>2, ClearLog
<1>3. CASE c[1] # "clear"
  <2>1. todo' = t /\ pending' = Calls(c)
    BY <1>3, ApplyCases
  <2>2. /\ lock = "event" /\ up /\ Place = position /\ split = {}
        /\ InEvent /\ Mending(mongo, InHand \union Later(position))
        /\ mongo \in Graphs
    BY <1>1, WorkingLog DEF TypeInv, StoresInv
  <2>3. PICK g \in Graphs : Halfway(g)
    BY <2>2 DEF InEvent
  <2>4. c[1] = "delete" => t = <<>>
    BY <1>1, StillDeletes DEF TypeInv, HolderInv
  <2> DEFINE h == InMemory(g, c)
             D == InHand \union Later(position)
             z == Described[position]
  <2>5. Closed(h) /\ Grounded(t, h.nodes, {})
    <3>1. Closed(g) /\ Grounded(todo, g.nodes, {})
      BY <2>3 DEF Halfway
    <3>. QED  BY <1>1, <1>3, <2>4, <3>1, InMemoryCloses
  <2> HIDE DEF t
  <2>6. InHand = Range(Calls(c)) \union Owed(t) /\ InHand' = InHand
    <3>1. Owed(todo) = CallsOf(c) \union Owed(t)
      BY <1>1, OwedTail DEF t
    <3>2. CallsOf(c) = Range(Calls(c))
      BY <1>3 DEF CallsOf
    <3>3. Range(pending) = {}
      BY <1>1, NothingInHand
    <3>. QED  BY <2>1, <3>1, <3>2, <3>3 DEF InHand
  <2>7. Leads(g, todo, z) /\ Near(g, mongo, D)
    BY <2>3 DEF Halfway
  <2> HIDE DEF c, D, z
  <2>8. h \in Graphs
    BY <1>1, <1>3, InMemoryTyped
  <2>9. Near(h, mongo, D) /\ \A k \in Range(Calls(c)) : Done(h, k)
    <3>1. /\ Near(h, mongo, D \union Range(Calls(c)))
          /\ \A k \in Range(Calls(c)) : Done(h, k)
      BY <1>1, <1>3, <2>2, <2>7, InMemoryNear
    <3>2. D \union Range(Calls(c)) = D
      BY <2>6 DEF D
    <3>. QED  BY <3>1, <3>2
  <2>10. Leads(h, t, z)
    <3>1. Made(g, c) = h
      BY <1>3 DEF Made
    <3>. QED  BY <1>1, <2>7, <3>1, LeadsTail DEF t, c
  <2> HIDE DEF h
  <2>11. position' = position /\ Later(position)' = Later(position)
    BY <1>1 DEF offsets, Later
  <2>12. \E k \in Graphs : Halfway(k)'
    BY <1>1, <2>8, <2>1, <2>5, <2>6, <2>9, <2>10, <2>11 DEF Halfway, D, z
  <2>13. InEvent'
    BY <2>2, <2>6, <2>11, <2>12 DEF InEvent
  <2>14. Mending(mongo, InHand' \union Later(position))
    BY <2>2, <2>6
  <2>. QED  BY <1>1, <2>2, <2>13, <2>14, MovesLog DEF offsets, ghosts
<1>. QED  BY <1>2, <1>3

\* The first of the calls that are left of a change: the node it drops is
\* detached by the next one, and an edge is added alone.
LEMMA FirstCall ==
  ASSUME NEW p, OneChange(p), p # <<>>
  PROVE  /\ \A n : Head(p) = <<"drop", n>> => <<"detach", n>> \in Range(Tail(p))
         /\ \A x : Head(p) = <<"edge", x>> => p = <<<<"edge", x>>>>
<1>1. ASSUME NEW c \in SimpleCalls, p = <<c>>
      PROVE  /\ \A n : Head(p) # <<"drop", n>>
             /\ \A x : Head(p) = <<"edge", x>> => p = <<<<"edge", x>>>>
  <2>1. Head(p) = c
    BY <1>1
  <2>2. c[1] # "drop"
    BY DEF SimpleCalls
  <2>. QED  BY <1>1, <2>1, <2>2
<1>2. ASSUME NEW n \in Ids, p = <<<<"drop", n>>, <<"detach", n>>>>
      PROVE  Head(p) = <<"drop", n>> /\ <<"detach", n>> \in Range(Tail(p))
  <2>1. Tail(p) = <<<<"detach", n>>>> /\ Head(p) = <<"drop", n>>
    BY <1>2
  <2>2. Range(<<<<"detach", n>>>>) = {<<"detach", n>>}
    BY DEF Range
  <2>. QED  BY <2>1, <2>2
<1>3. ASSUME NEW n \in Ids, p = <<<<"detach", n>>>>
      PROVE  Head(p) = <<"detach", n>>
  BY <1>3
<1>4. CASE \E c \in SimpleCalls : p = <<c>>
  BY <1>1, <1>4
<1>5. CASE \E n \in Ids : p = <<<<"drop", n>>, <<"detach", n>>>>
  <2>1. PICK n \in Ids : Head(p) = <<"drop", n>> /\ <<"detach", n>> \in Range(Tail(p))
    BY <1>2, <1>5
  <2>. QED  BY <2>1
<1>6. CASE \E n \in Ids : p = <<<<"detach", n>>>>
  <2>1. PICK n \in Ids : Head(p) = <<"detach", n>>
    BY <1>3, <1>6
  <2>. QED  BY <2>1
<1>. QED  BY <1>4, <1>5, <1>6 DEF OneChange

LEMMA PersistLog == TypeInv /\ GroundInv /\ LogInv /\ Persist => LogInv'
<1> SUFFICES ASSUME TypeInv, GroundInv, LogInv, Persist, Undisturbed'
             PROVE  LogInv'
  BY DEF LogInv, Persist
<1>0. PICK c : c = Head(pending)
  OBVIOUS
<1>1. /\ pending # <<>> /\ OneChange(pending) /\ pending' = Tail(pending)
      /\ mongo' = Change(mongo, c) /\ mongo \in Graphs /\ mongo' \in Graphs
      /\ UNCHANGED <<up, position, committed, high, lock, todo, split, calls>>
      /\ Undisturbed
  BY <1>0, PersistType
     DEF Persist, TypeInv, HolderInv, StoresInv, ghosts, offsets, Undisturbed
<1>2. c \in Calling /\ Range(pending) = {c} \union Range(pending') /\ lock # "free"
  BY <1>0, PersistType
<1>3. /\ lock = "event" /\ up /\ Place = position /\ split = {}
      /\ InEvent /\ Mending(mongo, InHand \union Later(position))
  BY <1>1, <1>2, WorkingLog
<1>4. InHand = {c} \union InHand'
  BY <1>1, <1>2 DEF InHand
<1>5. Place' = Place /\ \A k : Later(k)' = Later(k)
  BY <1>1 DEF Place, Later
<1>6. Later(position)' = Later(position) /\ Later(Place)' = Later(position)
  BY <1>1, <1>3, <1>5 DEF Later
<1>7. ASSUME NEW k \in 0 .. Place' PROVE Reached(k)' \/ (lock' = "event" /\ k = position')
  <2>1. CASE k = position
    BY <1>1, <1>3, <2>1
  <2>2. CASE k # position
    <3>1. k \in Nat /\ k < position /\ Reached(k)
      BY <1>1, <1>3, <1>5, <2>2, PlaceTyped DEF LogInv
    <3>2. c \in Later(k)
      BY <1>3, <1>4, <3>1, InHandLater
    <3>3. Near(Described[k], mongo', Later(k))
      BY <1>1, <1>2, <3>1, <3>2, NearDue DEF Reached
    <3>. QED  BY <1>5, <3>1, <3>3 DEF Reached
  <2>. QED  BY <2>1, <2>2
<1>8. Mending(mongo', InHand' \union Later(position))
  <2> DEFINE D == InHand' \union Later(position)
  <2>1. Mending(mongo, D \union {c})
    <3>1. D \union {c} = InHand \union Later(position)
      BY <1>4
    <3>. QED  BY <1>3, <3>1
  <2>2. \A n : c = <<"drop", n>> => <<"detach", n>> \in D
    BY <1>0, <1>1, FirstCall DEF InHand
  <2>3. ASSUME NEW x, c = <<"edge", x>> PROVE {x.from, x.to} \subseteq mongo.nodes
    <3>1. pending = <<<<"edge", x>>>>
      BY <1>0, <1>1, <2>3, FirstCall
    <3>2. x \in Edges
      BY <1>2, <2>3 DEF Calling
    <3>3. x \notin ByHand
      BY <1>3 DEF ByHand
    <3>. QED  BY <3>1, <3>2, <3>3 DEF GroundInv
  <2> HIDE DEF D
  <2>4. Mending(Change(mongo, c), D)
    BY <1>1, <1>2, <2>1, <2>2, <2>3, MendingCalled
  <2>. QED  BY <1>1, <2>4 DEF D
<1>9. PICK g \in Graphs : Halfway(g)
  BY <1>3 DEF InEvent
<1>10. Near(g, mongo', InHand' \union Later(position))
  <2> DEFINE D == InHand' \union Later(position)
  <2>1. D \union {c} = InHand \union Later(position)
    BY <1>4
  <2>2. Near(g, mongo, D \union {c}) /\ Done(g, c)
    BY <1>2, <1>9, <2>1 DEF Halfway
  <2> HIDE DEF D
  <2>3. Near(g, Change(mongo, c), D)
    BY <1>1, <1>2, <2>2, NearCalled
  <2>. QED  BY <1>1, <2>3 DEF D
<1>11. Halfway(g)'
  BY <1>1, <1>2, <1>6, <1>9, <1>10 DEF Halfway
<1>12. InEvent'
  BY <1>1, <1>3, <1>4, <1>11 DEF InEvent
<1>13. Mending(mongo, InHand \union Later(Place))'
  BY <1>6, <1>8 DEF Mending
<1>. QED  BY <1>1, <1>3, <1>7, <1>12, <1>13 DEF LogInv

LEMMA ReleaseLog == TypeInv /\ LogInv /\ Release => LogInv'
<1> SUFFICES ASSUME TypeInv, LogInv, Release, Undisturbed' PROVE LogInv'
  BY DEF LogInv, Release
<1>1. /\ pending = <<>> /\ todo = <<>> /\ pending' = <<>> /\ todo' = <<>>
      /\ lock # "free" /\ lock' = "free"
      /\ UNCHANGED <<up, position, committed, high, mongo, split, calls>>
      /\ Undisturbed
  BY DEF Release, LetGo, Working, offsets, ghosts, Undisturbed
<1>2. /\ lock = "event" /\ up /\ Place = position /\ split = {}
      /\ InEvent /\ Mending(mongo, InHand \union Later(position))
  BY <1>1, WorkingLog
<1>3. InHand = {} /\ InHand' = {}
  BY <1>1, NothingInHand, OwedNothing DEF InHand
<1>4. Place' = Place /\ \A k : Later(k)' = Later(k)
  BY <1>1 DEF Place, Later
<1>5. Reached(position)
  <2>1. PICK g \in Graphs : Halfway(g)
    BY <1>2 DEF InEvent
  <2>2. g = Described[position]
    <3>1. Leads(g, <<>>, Described[position])
      BY <1>1, <2>1 DEF Halfway
    <3>. QED  BY <3>1, LeadsNowhere
  <2>3. InHand \union Later(position) = Later(position)
    BY <1>3
  <2>. QED  BY <2>1, <2>2, <2>3 DEF Halfway, Reached
<1>6. \A k \in 0 .. Place : Reached(k)
  BY <1>1, <1>2, <1>5 DEF LogInv
<1>7. \A k \in 0 .. Place' : Reached(k)'
  BY <1>1, <1>4, <1>6 DEF Reached
<1>8. Mending(mongo, InHand \union Later(Place))'
  BY <1>1, <1>2, <1>3, <1>4 DEF Mending
<1>. QED  BY <1>1, <1>2, <1>7, <1>8 DEF LogInv

\* The events up to the committed one are delivered no more; those after it
\* are, the one in hand among them.
LEMMA CrashLog == TypeInv /\ LogInv /\ Crash => LogInv'
<1> SUFFICES ASSUME TypeInv, LogInv, Crash, Undisturbed' PROVE LogInv'
  BY DEF LogInv, Crash
<1>0. PICK o \in committed .. position :
        /\ committed' = o
        /\ lost' = IF lock = "event" /\ o = position
                   THEN lost \union {position} ELSE lost
  BY DEF Crash
<1>1. /\ pending' = <<>> /\ todo' = <<>> /\ lock' = "free" /\ split' = {}
      /\ up /\ ~up' /\ UNCHANGED <<position, high, mongo, overtaken, calls>>
  BY DEF Crash, LetGo
<1>2. /\ Undisturbed /\ ~(lock = "event" /\ o = position)
      /\ o \in Nat /\ position \in Nat /\ high \in Nat /\ o <= position
  BY <1>0, <1>1 DEF Undisturbed, TypeInv, OffsetsInv
<1>3. Place = position /\ Place' = o /\ InHand' = {}
  BY <1>0, <1>1, NothingInHand, OwedNothing DEF Place, InHand
<1>4. \A k : Later(k)' = Later(k)
  BY <1>1 DEF Later
<1>5. InHand \union Later(position) \subseteq Later(o)
  <2>1. CASE lock = "free"
    <3>1. InHand = {}
      BY <2>1, NotInHand DEF TypeInv, HolderInv
    <3>. QED  BY <1>2, <3>1, LaterLess
  <2>2. CASE lock # "free"
    <3>1. lock = "event" /\ InEvent
      BY <1>2, <2>2, WorkingLog
    <3>2. o < position
      BY <1>2, <3>1
    <3>. QED  BY <1>2, <3>1, <3>2, InHandLater
  <2>. QED  BY <2>1, <2>2
<1>6. \A k \in 0 .. Place' : Reached(k)'
  <2> SUFFICES ASSUME NEW k \in 0 .. o PROVE Reached(k)'
    BY <1>3
  <2>1. k \in 0 .. Place /\ ~(lock = "event" /\ k = position)
    BY <1>2, <1>3
  <2>2. Reached(k)
    BY <1>2, <2>1 DEF LogInv
  <2>. QED  BY <1>1, <1>4, <2>2 DEF Reached
<1>7. Mending(mongo, InHand \union Later(Place))'
  <2>1. Mending(mongo, InHand \union Later(position))
    BY <1>2, <1>3 DEF LogInv
  <2>2. Mending(mongo, Later(o))
    BY <1>5, <2>1, MendingMore
  <2>3. Later(Place)' = Later(o)
    BY <1>1, <1>3 DEF Later
  <2>. QED  BY <1>1, <1>3, <2>2, <2>3 DEF Mending
<1>. QED  BY <1>1, <1>6, <1>7 DEF LogInv

LEMMA RestartLog == TypeInv /\ LogInv /\ Restart => LogInv'
<1> SUFFICES ASSUME TypeInv, LogInv, Restart, Undisturbed' PROVE LogInv'
  BY DEF LogInv, Restart
<1>1. /\ ~up /\ up' /\ position' = committed /\ lock = "free"
      /\ UNCHANGED <<high, mongo, lock, todo, pending, split, calls>> /\ Undisturbed
  BY DEF Restart, holder, ghosts, Undisturbed, TypeInv, HolderInv
<1>2. Place' = Place /\ InHand' = InHand /\ \A k : Later(k)' = Later(k)
  BY <1>1 DEF Place, InHand, Later
<1>3. \A k : Reached(k)' <=> Reached(k)
  BY <1>1, <1>2 DEF Reached
<1>4. Mending(mongo, InHand \union Later(Place))'
        <=> Mending(mongo, InHand \union Later(Place))
  BY <1>1, <1>2 DEF Mending
<1>. QED  BY <1>1, <1>2, <1>3, <1>4 DEF LogInv

\* A call of the holder that fails gives its event up.
LEMMA CallFailsLog == TypeInv /\ LogInv /\ CallFails => LogInv'
<1> SUFFICES ASSUME TypeInv, LogInv, CallFails, Undisturbed' PROVE FALSE
  BY DEF LogInv, CallFails
<1>1. lock # "free"
  BY CallFailsType
<1>2. lost' = IF lock = "event" THEN lost \union {position} ELSE lost
  BY DEF CallFails
<1>3. Undisturbed /\ lock # "event"
  BY <1>2 DEF Undisturbed, CallFails
<1>. QED  BY <1>1, <1>3, WorkingLog

LEMMA LogInit == Init => LogInv
<1> SUFFICES ASSUME Init PROVE LogInv
  OBVIOUS
<1>1. /\ up /\ position = 0 /\ mongo = Empty /\ high = 0 /\ split = {} /\ calls = 0
      /\ lock = "free"
  BY DEF Init
<1>2. Place = 0
  BY <1>1 DEF Place
<1>3. mongo.edges = {} /\ Empty \in Graphs /\ Described[0] = Empty
  BY <1>1, EmptyTyped, DescribedIs DEF Empty
<1>4. Reached(0)
  BY <1>1, <1>3, NearItself DEF Reached, Closed
<1>5. Mending(mongo, InHand \union Later(Place))
  BY <1>3 DEF Mending
<1>. QED  BY <1>1, <1>2, <1>4, <1>5 DEF LogInv

LEMMA LogStays == Spec => []LogInv
<1>1. ASSUME TypeInv, GroundInv, AgreeInv, LogInv, [Next]_vars PROVE LogInv'
  <2> USE DEF holder, ghosts, offsets
  <2>1. ASSUME NEW w \in Loaders, Load(w) PROVE LogInv'
    <3>1. /\ Undisturbed' => Undisturbed
          /\ UNCHANGED <<up, position, committed, high, mongo, lock, todo, pending,
                         split, calls>>
      <4>1. UNCHANGED <<up, position, committed, high, mongo, lock, todo, pending,
                        lost, split, calls>>
        BY <2>1 DEF Load, ListNodes, ListEdges, Assign
      <4>2. overtaken => overtaken'
        <5>1. CASE ListNodes(w) \/ ListEdges(w)
          BY <5>1 DEF ListNodes, ListEdges
        <5>2. CASE Assign(w)
          <6>1. overtaken' = (overtaken \/ (w = "query" /\ graph # None))
            BY <5>2 DEF Assign
          <6>. QED  BY <6>1, Zenon
        <5>. QED  BY <2>1, <5>1, <5>2 DEF Load
      <4>. QED  BY <4>1, <4>2 DEF Undisturbed
    <3>. QED  BY <1>1, <3>1, LogSame
  <2>2. CASE ConsumeNext
    BY <1>1, <2>2, ConsumeLog
  <2>3. CASE ApplyInMemory
    BY <1>1, <2>3, ApplyInMemoryLog
  <2>4. CASE Persist
    BY <1>1, <2>4, PersistLog
  <2>5. CASE Release
    BY <1>1, <2>5, ReleaseLog
  <2>6. CASE Restart
    BY <1>1, <2>6, RestartLog
  <2>7. CASE StartQuery \/ QueryFails \/ UNCHANGED vars
    <3>1. /\ Undisturbed' => Undisturbed
          /\ UNCHANGED <<up, position, committed, high, mongo, lock, todo, pending,
                         split, calls>>
      BY <2>7 DEF StartQuery, QueryFails, vars, Undisturbed
    <3>. QED  BY <1>1, <3>1, LogSame
  <2>8. CASE \E m \in ManualEdges : AddEdge(m)
    <3>1. calls' = calls + 1 /\ calls \in Nat
      BY <1>1, <2>8 DEF AddEdge, LogInv
    <3>2. calls' \in Nat /\ ~Undisturbed'
      BY <3>1 DEF Undisturbed
    <3>. QED  BY <3>2 DEF LogInv
  <2>9. CASE CallFails
    BY <1>1, <2>9, CallFailsLog
  <2>10. CASE Crash
    BY <1>1, <2>10, CrashLog
  <2>. QED
    BY <1>1, <2>1, <2>2, <2>3, <2>4, <2>5, <2>6, <2>7, <2>8, <2>9, <2>10
       DEF Next, Work, Loaders
<1>. QED  BY <1>1, LogInit, TypeStays, GroundStays, AgreeStays, PTL DEF Spec

\* Delivering events again is harmless, for every log and wherever in it the
\* process was lost, however often: once the consumer has caught up, MongoDB
\* has exactly the graph that the log describes, unless an event was given up,
\* a query's load has replaced a graph in use, or an edge was added by hand.
THEOREM ReplaysConverge == Spec => []ReplayConverges
<1>1. TypeInv /\ LogInv => ReplayConverges
  <2> SUFFICES ASSUME TypeInv, LogInv, AtRest, position = high, Undisturbed
               PROVE  mongo = Described[high]
    BY DEF ReplayConverges, Undisturbed
  <2>1. /\ up /\ lock = "free" /\ Place = high /\ high \in Nat /\ mongo \in Graphs
    BY DEF AtRest, Place, TypeInv, OffsetsInv, StoresInv
  <2>2. Reached(high)
    <3>1. high \in 0 .. Place
      BY <2>1
    <3>. QED  BY <2>1, <3>1 DEF LogInv
  <2>3. Later(high) = {}
    <3>1. (high + 1) .. high = {}
      BY <2>1
    <3>. QED  BY <3>1 DEF Later
  <2>4. Described[high] \in Graphs /\ Near(Described[high], mongo, {})
    BY <2>2, <2>3 DEF Reached
  <2>. QED  BY <2>1, <2>4, NearNothing
<1>. QED  BY <1>1, TypeStays, LogStays, PTL
==============================================================================
