----------------------- MODULE WorkflowExecuteProofs -----------------------
(***************************************************************************)
(* What holds of the execution of any workflow.                            *)
(***************************************************************************)
EXTENDS WorkflowExecute, QueueLemmas, FiniteSetTheorems

-----------------------------------------------------------------------------
(* Recursive functions on numbers *)

Recurs(f, n, base, step) ==
    f = [k \in 0..n |-> IF k = 0 THEN base ELSE step[<<k, f[k - 1]>>]]

\* A recursion over numbers that stays in a set defines a function.
LEMMA Recursion ==
    ASSUME NEW G, NEW base \in G, NEW step \in [Nat \X G -> G], NEW n \in Nat
    PROVE  \E f \in [0..n -> G] : Recurs(f, n, base, step)
<1> DEFINE Good(m, f) == /\ f \in [0..m -> G]
                         /\ f = [k \in 0..m |-> IF k = 0 THEN base ELSE step[<<k, f[k - 1]>>]]
           bad == {m \in Nat : ~\E f : Good(m, f)}
<1>1. SUFFICES ASSUME bad # {} PROVE FALSE
  BY DEF Recurs
<1>2. PICK m \in bad : \A j \in bad : m <= j
  BY <1>1, LeastNumber
<1>3. m # 0
  <2> DEFINE f == [k \in 0..0 |-> base]
  <2>1. f \in [0..0 -> G] /\ f[0] = base
    OBVIOUS
  <2>2. f = [k \in 0..0 |-> IF k = 0 THEN base ELSE step[<<k, f[k - 1]>>]]
    OBVIOUS
  <2>3. Good(0, f)
    BY <2>1, <2>2
  <2> QED BY <2>3
<1>4. PICK f : Good(m - 1, f)
  <2> HIDE DEF Good
  <2>1. m - 1 \in Nat /\ ~(m <= m - 1)
    BY <1>2, <1>3
  <2>2. m - 1 \notin bad
    BY <1>2, <2>1
  <2> QED BY <2>1, <2>2
<1> DEFINE g == [k \in 0..m |-> IF k = m THEN step[<<m, f[m - 1]>>] ELSE f[k]]
<1>5. f \in [0..(m - 1) -> G] /\ m \in Nat \ {0}
  BY <1>2, <1>3, <1>4
<1>6. g \in [0..m -> G]
  <2>1. f[m - 1] \in G
    BY <1>5
  <2>2. step[<<m, f[m - 1]>>] \in G
    BY <2>1, <1>5
  <2>3. \A k \in 0..m : k # m => f[k] \in G
    BY <1>5
  <2> QED BY <2>2, <2>3
<1>7. \A k \in 0..m : g[k] = IF k = 0 THEN base ELSE step[<<k, g[k - 1]>>]
  <2> TAKE k \in 0..m
  <2>1. \A j \in 0..(m - 1) : g[j] = f[j]
    BY <1>5
  <2>2. CASE k = m
    <3>1. g[k] = step[<<k, f[k - 1]>>] /\ k - 1 \in 0..(m - 1) /\ k # 0
      BY <2>2, <1>5
    <3> QED BY <2>1, <3>1
  <2>3. CASE k # m
    <3>1. k \in 0..(m - 1)
      BY <2>3, <1>5
    <3>2. f[k] = IF k = 0 THEN base ELSE step[<<k, f[k - 1]>>]
      BY <3>1, <1>4
    <3>3. CASE k = 0
      BY <3>1, <3>2, <3>3, <2>1
    <3>4. CASE k # 0
      <4>1. k - 1 \in 0..(m - 1)
        BY <3>1, <3>4, <1>5
      <4> QED BY <3>1, <3>2, <3>4, <4>1, <2>1
    <3> QED BY <3>3, <3>4
  <2> QED BY <2>2, <2>3
<1>8. Good(m, g)
  <2> HIDE DEF g
  <2>1. g = [k \in 0..m |-> g[k]]
    BY <1>6
  <2>2. g = [k \in 0..m |-> IF k = 0 THEN base ELSE step[<<k, g[k - 1]>>]]
    BY <1>7, <2>1
  <2> QED BY <1>6, <2>2
<1> QED BY <1>2, <1>8 DEF Recurs

-----------------------------------------------------------------------------
(* Paths in a graph *)

\* Every connection leads from a node to a node, of finitely many.
Closed(g) ==
    /\ IsFiniteSet(g.nodes)
    /\ \A c \in g.connections : c.from \in g.nodes /\ c.to \in g.nodes

\* The recursion by which Children is defined.
Reaches(g, n, f) ==
    f = [k \in 0..Cardinality(g.nodes) |->
            IF k = 0 THEN {c.to : c \in DirectChildConnections(g, n)}
            ELSE f[k - 1] \cup {c.to : c \in {d \in g.connections : d.from \in f[k - 1]}}]

\* Children() is what its recursive function gives, and that stays in the graph.
LEMMA ChildrenReached ==
    ASSUME NEW g, Closed(g), NEW n
    PROVE  \E f \in [0..Cardinality(g.nodes) -> SUBSET g.nodes] :
              Reaches(g, n, f) /\ Children(g, n) = f[Cardinality(g.nodes)]
<1> DEFINE N == Cardinality(g.nodes)
           G == SUBSET g.nodes
           base == {c.to : c \in DirectChildConnections(g, n)}
           step == [p \in Nat \X G |->
                       p[2] \cup {c.to : c \in {d \in g.connections : d.from \in p[2]}}]
           it == CHOOSE f : Reaches(g, n, f)
<1>1. N \in Nat
  <2>1. IsFiniteSet(g.nodes)
    BY DEF Closed
  <2> QED BY <2>1, FS_CardinalityType
<1>2. base \in G
  BY DEF Closed, DirectChildConnections
<1>3. step \in [Nat \X G -> G]
  BY DEF Closed
<1>4. \E f \in [0..N -> G] : Reaches(g, n, f)
  <2> HIDE DEF N, base, G, step
  <2>1. PICK f \in [0..N -> G] : Recurs(f, N, base, step)
    BY <1>1, <1>2, <1>3, Recursion
  <2>2. \A k \in 0..N : k # 0 =>
           step[<<k, f[k - 1]>>] =
              f[k - 1] \cup {c.to : c \in {d \in g.connections : d.from \in f[k - 1]}}
    <3> TAKE k \in 0..N
    <3> HAVE k # 0
    <3>1. k - 1 \in 0..N /\ k \in Nat
      BY <1>1
    <3>2. <<k, f[k - 1]>> \in Nat \X G
      BY <3>1
    <3> QED BY <3>2 DEF step
  <2>3. f = [k \in 0..N |-> IF k = 0 THEN base
             ELSE f[k - 1] \cup {c.to : c \in {d \in g.connections : d.from \in f[k - 1]}}]
    BY <2>1, <2>2 DEF Recurs
  <2>4. Reaches(g, n, f)
    BY <2>3 DEF Reaches, N, base
  <2> QED BY <2>4
<1>5. Reaches(g, n, it)
  BY <1>4, Zenon
<1>6. Children(g, n) = it[N]
  BY DEF Children, Reaches
<1> HIDE DEF it
<1>7. \A k \in 0..N : it[k] = IF k = 0 THEN base
          ELSE it[k - 1] \cup {c.to : c \in {d \in g.connections : d.from \in it[k - 1]}}
  BY <1>5 DEF Reaches
<1>8. \A k \in 0..N : it[k] \in G
  <2> DEFINE bad == {k \in 0..N : it[k] \notin G}
  <2> SUFFICES ASSUME bad # {} PROVE FALSE
    OBVIOUS
  <2>1. bad \subseteq Nat
    BY <1>1
  <2>2. PICK k \in bad : \A j \in bad : k <= j
    BY <2>1, LeastNumber
  <2>3. k # 0
    BY <1>2, <1>7
  <2>4. k - 1 \in 0..N /\ ~(k <= k - 1)
    BY <2>3, <1>1
  <2>5. it[k - 1] \in G
    BY <2>2, <2>4
  <2>6. \A c \in g.connections : c.to \in g.nodes
    BY DEF Closed
  <2>7. it[k] = it[k - 1] \cup {c.to : c \in {d \in g.connections : d.from \in it[k - 1]}}
    BY <1>7, <2>3
  <2> QED BY <2>5, <2>6, <2>7
<1>9. it = [k \in 0..N |-> it[k]]
  BY <1>5 DEF Reaches
<1>10. it \in [0..N -> G]
  BY <1>8, <1>9
<1> QED BY <1>5, <1>6, <1>10

\* The children are closed under connections, and the least such set.
LEMMA ChildrenClosed ==
    ASSUME NEW g, Closed(g), NEW n
    PROVE  /\ Children(g, n) \subseteq g.nodes
           /\ \A c \in g.connections :
                 c.from = n \/ c.from \in Children(g, n) => c.to \in Children(g, n)
           /\ \A S : (\A c \in g.connections : c.from = n \/ c.from \in S => c.to \in S)
                     => Children(g, n) \subseteq S
<1> DEFINE N == Cardinality(g.nodes)
           After(S) == {c.to : c \in {d \in g.connections : d.from \in S}}
           IsClosed(S) == After(S) \subseteq S
<1>1. PICK f \in [0..N -> SUBSET g.nodes] : Reaches(g, n, f) /\ Children(g, n) = f[N]
  BY ChildrenReached
<1>2. IsFiniteSet(g.nodes) /\ N \in Nat
  <2>1. IsFiniteSet(g.nodes)
    BY DEF Closed
  <2> QED BY <2>1, FS_CardinalityType
<1>3. /\ f[0] = {c.to : c \in DirectChildConnections(g, n)}
      /\ \A k \in 1..N : f[k] = f[k - 1] \cup After(f[k - 1])
  <2>1. \A k \in 0..N : f[k] = IF k = 0 THEN {c.to : c \in DirectChildConnections(g, n)}
                                ELSE f[k - 1] \cup After(f[k - 1])
    BY <1>1 DEF Reaches
  <2>2. 0 \in 0..N /\ \A k \in 1..N : k \in 0..N /\ k # 0
    BY <1>2
  <2> HIDE DEF N, After
  <2> QED BY <2>1, <2>2
<1>4. \A k \in 0..N : /\ f[k] \subseteq g.nodes
                      /\ IsFiniteSet(f[k])
                      /\ Cardinality(f[k]) \in Nat
  <2> TAKE k \in 0..N
  <2>1. f[k] \subseteq g.nodes
    BY <1>1
  <2>2. IsFiniteSet(f[k])
    BY <2>1, <1>2, FS_Subset
  <2> QED BY <2>1, <2>2, FS_CardinalityType
<1>5. ASSUME NEW k \in 1..N PROVE k - 1 \in 0..N /\ k \in 0..N /\ ~(k <= k - 1)
  BY <1>2
<1> HIDE DEF N
<1>6. \A k \in 0..N : IsClosed(f[k]) \/ Cardinality(f[k]) >= k
  <2> DEFINE bad == {k \in 0..N : ~(IsClosed(f[k]) \/ Cardinality(f[k]) >= k)}
  <2> HIDE DEF IsClosed
  <2> SUFFICES ASSUME bad # {} PROVE FALSE
    OBVIOUS
  <2>1. bad \subseteq Nat
    BY <1>2
  <2>2. PICK k \in bad : \A j \in bad : k <= j
    BY <2>1, LeastNumber
  <2>3. k \in 1..N
    BY <2>2, <1>2, <1>4
  <2>4. IsClosed(f[k - 1]) \/ Cardinality(f[k - 1]) >= k - 1
    <3>1. k - 1 \notin bad /\ k - 1 \in 0..N
      BY <2>2, <2>3, <1>5
    <3> QED BY <3>1
  <2>5. f[k] = f[k - 1] \cup After(f[k - 1])
    BY <1>3, <2>3
  <2>6. CASE IsClosed(f[k - 1])
    <3>1. f[k] = f[k - 1]
      BY <2>5, <2>6 DEF IsClosed
    <3> QED BY <3>1, <2>2, <2>6
  <2>7. CASE ~IsClosed(f[k - 1]) /\ Cardinality(f[k - 1]) >= k - 1
    <3>1. PICK x : x \in After(f[k - 1]) /\ x \notin f[k - 1]
      BY <2>7 DEF IsClosed
    <3>2. f[k - 1] \cup {x} \subseteq f[k]
      BY <2>5, <3>1
    <3>3. k - 1 \in 0..N /\ k \in 0..N
      BY <2>3, <1>5
    <3>4. Cardinality(f[k - 1] \cup {x}) = Cardinality(f[k - 1]) + 1
      BY <3>1, <3>3, <1>4, FS_AddElement
    <3>5. Cardinality(f[k - 1] \cup {x}) <= Cardinality(f[k])
      BY <3>2, <3>3, <1>4, FS_Subset
    <3>6. Cardinality(f[k]) >= k
      BY <3>3, <3>4, <3>5, <2>7, <1>4, <2>3
    <3> QED BY <3>6, <2>2
  <2> QED BY <2>4, <2>6, <2>7
<1>7. N \in 0..N
  BY <1>2
<1>8. IsClosed(f[N])
  <2>1. CASE Cardinality(f[N]) >= N
    <3>1. f[N] \subseteq g.nodes /\ Cardinality(f[N]) \in Nat
      BY <1>4, <1>7
    <3>2. Cardinality(f[N]) <= N
      BY <3>1, <1>2, FS_Subset DEF N
    <3>3. Cardinality(f[N]) = Cardinality(g.nodes)
      BY <3>1, <3>2, <2>1, <1>2 DEF N
    <3>4. f[N] = g.nodes
      BY <3>1, <3>3, <1>2, FS_Subset
    <3> QED BY <3>4 DEF Closed
  <2> QED BY <2>1, <1>6, <1>7
<1>9. \A k \in 0..N : f[0] \subseteq f[k]
  <2> DEFINE bad == {k \in 0..N : ~(f[0] \subseteq f[k])}
  <2> SUFFICES ASSUME bad # {} PROVE FALSE
    OBVIOUS
  <2>1. bad \subseteq Nat
    BY <1>2
  <2>2. PICK k \in bad : \A j \in bad : k <= j
    BY <2>1, LeastNumber
  <2>3. k \in 1..N
    BY <2>2, <1>2
  <2>4. k - 1 \notin bad /\ k - 1 \in 0..N
    BY <2>2, <2>3, <1>5
  <2>5. f[0] \subseteq f[k - 1] /\ f[k - 1] \subseteq f[k]
    BY <2>3, <2>4, <1>3
  <2> QED BY <2>5, <2>2
<1>10. \A c \in g.connections :
          c.from = n \/ c.from \in Children(g, n) => c.to \in Children(g, n)
  BY <1>1, <1>3, <1>7, <1>8, <1>9 DEF DirectChildConnections
<1>11. ASSUME NEW S, \A c \in g.connections : c.from = n \/ c.from \in S => c.to \in S
       PROVE  Children(g, n) \subseteq S
  <2> DEFINE bad == {k \in 0..N : ~(f[k] \subseteq S)}
  <2> SUFFICES ASSUME bad # {} PROVE FALSE
    BY <1>1, <1>7
  <2>1. bad \subseteq Nat
    BY <1>2
  <2>2. PICK k \in bad : \A j \in bad : k <= j
    BY <2>1, LeastNumber
  <2>3. k # 0
    BY <2>2, <1>3, <1>11 DEF DirectChildConnections
  <2>4. k \in 1..N
    BY <2>2, <2>3, <1>2
  <2>5. k - 1 \notin bad /\ k - 1 \in 0..N
    BY <2>2, <2>4, <1>5
  <2>6. f[k - 1] \subseteq S /\ f[k] = f[k - 1] \cup After(f[k - 1])
    BY <2>4, <2>5, <1>3
  <2>7. After(f[k - 1]) \subseteq S
    BY <2>6, <1>11
  <2> QED BY <2>2, <2>6, <2>7
<1> QED BY <1>1, <1>4, <1>7, <1>10, <1>11

\* A child of a child is a child.
LEMMA ChildrenTransitive ==
    ASSUME NEW g, Closed(g), NEW a, NEW b \in Children(g, a)
    PROVE  Children(g, b) \subseteq Children(g, a)
<1>1. \A c \in g.connections : c.from \in Children(g, a) => c.to \in Children(g, a)
  BY ChildrenClosed
<1>2. \A c \in g.connections :
          c.from = b \/ c.from \in Children(g, a) => c.to \in Children(g, a)
  BY <1>1
<1> HIDE DEF Children
<1> QED BY <1>2, ChildrenClosed
\* Nodes of which each has another one of them above it: two are above each
\* other.
LEMMA MutuallyAbove ==
    ASSUME NEW g, Closed(g), NEW W, IsFiniteSet(W), W # {},
           \A n \in W : Parents(g, n) \cap W # {}
    PROVE  \E n \in W : \E m \in W \ {n} : n \in Children(g, m) /\ m \in Children(g, n)
<1> DEFINE Above(n) == Parents(g, n) \cap W
<1> SUFFICES ASSUME \A n \in W : \A m \in W \ {n} :
                       ~(n \in Children(g, m) /\ m \in Children(g, n))
             PROVE  FALSE
  OBVIOUS
<1>1. \A n \in W : IsFiniteSet(Above(n)) /\ Cardinality(Above(n)) \in Nat
  BY FS_Subset, FS_CardinalityType
<1> HIDE DEF Above
<1>2. PICK n \in W : \A m \in W : Cardinality(Above(n)) <= Cardinality(Above(m))
  <2> DEFINE sizes == {Cardinality(Above(m)) : m \in W}
  <2>1. sizes \subseteq Nat /\ sizes # {}
    BY <1>1
  <2>2. PICK k \in sizes : \A j \in sizes : k <= j
    BY <2>1, LeastNumber
  <2> QED BY <2>2
<1>3. PICK m \in W : m \in Parents(g, n)
  OBVIOUS
<1>4. m # n /\ m \in g.nodes /\ n \in Children(g, m) /\ m \notin Above(m) /\ m \in Above(n)
  BY <1>3 DEF Parents, Above
<1>5. Above(m) \subseteq Above(n)
  <2> SUFFICES ASSUME NEW k \in Above(m) PROVE k \in Above(n)
    OBVIOUS
  <2>1. k \in g.nodes /\ k \in W /\ m \in Children(g, k)
    BY DEF Above, Parents
  <2>2. n \in Children(g, k)
    BY <1>4, <2>1, ChildrenTransitive
  <2>3. k # n
    BY <1>4, <2>1
  <2> QED BY <2>1, <2>2, <2>3 DEF Above, Parents
<1>6. Cardinality(Above(m)) < Cardinality(Above(n))
  <2>1. Above(m) \subseteq Above(n) \ {m}
    BY <1>4, <1>5
  <2>2. Cardinality(Above(n) \ {m}) = Cardinality(Above(n)) - 1
        /\ IsFiniteSet(Above(n) \ {m})
    BY <1>1, <1>4, FS_RemoveElement
  <2>3. Cardinality(Above(m)) <= Cardinality(Above(n) \ {m})
    BY <2>1, <2>2, FS_Subset
  <2> QED BY <1>1, <2>2, <2>3
<1> QED BY <1>1, <1>2, <1>6

-----------------------------------------------------------------------------
(* The graph of a partial execution *)

Connections(N, O, I) == [from : N, output : O, to : N, input : I]

\* Removing disabled nodes leads connections from and to no other nodes.
LEMMA FilteredConnections ==
    ASSUME NEW N, NEW O, NEW I, NEW g, g.connections \subseteq Connections(N, O, I), NEW disabled,
           IsFiniteSet(disabled)
    PROVE  FilterDisabledNodes(g, disabled).connections \subseteq Connections(N, O, I)
<1> DEFINE D == Cardinality(disabled)
           order == SetToSeq(disabled)
           Left(f) == f = [k \in 0..D |-> IF k = 0 THEN g ELSE RemoveNode(f[k - 1], order[k])]
           it == CHOOSE f : Left(f)
           G == {h \in {g} \cup [nodes : SUBSET g.nodes,
                                connections : SUBSET Connections(N, O, I)] :
                   h.nodes \subseteq g.nodes /\ h.connections \subseteq Connections(N, O, I)}
           step == [p \in Nat \X G |-> RemoveNode(p[2], order[p[1]])]
<1>1. D \in Nat
  BY FS_CardinalityType
<1>2. ASSUME NEW h \in G, NEW n PROVE RemoveNode(h, n) \in G
  <2> DEFINE r == RemoveNode(h, n)
  <2>1. h.nodes \subseteq g.nodes /\ h.connections \subseteq Connections(N, O, I)
    OBVIOUS
  <2>2. ASSUME NEW in \in Connections(N, O, I), NEW out \in Connections(N, O, I)
        PROVE  [in EXCEPT !.to = out.to, !.input = out.input] \in Connections(N, O, I)
    BY DEF Connections
  <2> HIDE DEF G
  <2>3. r.connections \subseteq Connections(N, O, I)
    <3> DEFINE Ins == DirectParentConnections(h, n)
               Outs == DirectChildConnections(h, n)
               Joined(in, out) == [in EXCEPT !.to = out.to, !.input = out.input]
    <3>1. r.connections = {c \in h.connections : n \notin {c.from, c.to}}
                             \cup {Joined(in, out) : in \in Ins, out \in Outs}
      BY DEF RemoveNode
    <3>2. Ins \subseteq Connections(N, O, I) /\ Outs \subseteq Connections(N, O, I)
      BY <2>1 DEF DirectParentConnections, DirectChildConnections
    <3> HIDE DEF Ins, Outs, Joined, r
    <3>3. \A in \in Ins, out \in Outs : Joined(in, out) \in Connections(N, O, I)
      BY <2>2, <3>2 DEF Joined
    <3>4. {Joined(in, out) : in \in Ins, out \in Outs} \subseteq Connections(N, O, I)
      BY <3>3
    <3> QED BY <2>1, <3>1, <3>4
  <2>4. r.nodes \subseteq g.nodes
    BY <2>1 DEF RemoveNode
  <2>5. r = [nodes |-> r.nodes, connections |-> r.connections]
    BY DEF RemoveNode
  <2> HIDE DEF r
  <2>6. r \in [nodes : SUBSET g.nodes, connections : SUBSET Connections(N, O, I)]
    BY <2>3, <2>4, <2>5
  <2> QED BY <2>3, <2>4, <2>6 DEF r, G
<1>3. g \in G /\ step \in [Nat \X G -> G]
  <2>1. g \in G
    OBVIOUS
  <2> HIDE DEF G
  <2> QED BY <1>2, <2>1
<1>4. \E f : Left(f)
  <2> HIDE DEF G, step, order, D
  <2>1. PICK f \in [0..D -> G] : Recurs(f, D, g, step)
    BY <1>1, <1>3, Recursion
  <2>2. \A k \in 0..D : k # 0 => step[<<k, f[k - 1]>>] = RemoveNode(f[k - 1], order[k])
    <3> TAKE k \in 0..D
    <3> HAVE k # 0
    <3>1. k - 1 \in 0..D /\ k \in Nat
      BY <1>1
    <3>2. <<k, f[k - 1]>> \in Nat \X G
      BY <3>1
    <3> QED BY <3>2 DEF step
  <2>3. Left(f)
    BY <2>1, <2>2 DEF Recurs
  <2> QED BY <2>3
<1>5. Left(it)
  BY <1>4, Zenon
<1>6. FilterDisabledNodes(g, disabled) = it[D]
  BY DEF FilterDisabledNodes
<1> HIDE DEF it, order
<1>7. \A k \in 0..D : it[k] = IF k = 0 THEN g ELSE RemoveNode(it[k - 1], order[k])
  BY <1>5
<1> HIDE DEF G, D
<1>8. \A k \in 0..D : it[k] \in G
  <2> DEFINE bad == {k \in 0..D : it[k] \notin G}
  <2> SUFFICES ASSUME bad # {} PROVE FALSE
    OBVIOUS
  <2>1. bad \subseteq Nat
    BY <1>1
  <2>2. PICK k \in bad : \A j \in bad : k <= j
    BY <2>1, LeastNumber
  <2>3. k # 0
    BY <1>3, <1>7
  <2>4. k - 1 \in 0..D /\ ~(k <= k - 1)
    BY <2>3, <1>1
  <2>5. it[k - 1] \in G
    BY <2>2, <2>4
  <2> QED BY <1>2, <1>7, <2>3, <2>5
<1>9. D \in 0..D
  BY <1>1
<1> QED BY <1>6, <1>8, <1>9 DEF G

\* Finitely many nodes, outputs and inputs have finitely many connections.
LEMMA FiniteConnections ==
    ASSUME NEW N, IsFiniteSet(N), NEW O, IsFiniteSet(O), NEW I, IsFiniteSet(I)
    PROVE  IsFiniteSet(Connections(N, O, I))
<1> DEFINE X == (N \X O) \X (N \X I)
           f == [x \in X |-> [from |-> x[1][1], output |-> x[1][2],
                              to |-> x[2][1], input |-> x[2][2]]]
<1>1. IsFiniteSet(X)
  <2>1. IsFiniteSet(N \X O) /\ IsFiniteSet(N \X I)
    BY FS_Product
  <2> QED BY <2>1, FS_Product
<1>2. f \in [X -> Connections(N, O, I)]
  BY DEF Connections
<1>3. ASSUME NEW c \in Connections(N, O, I) PROVE \E x \in X : f[x] = c
  <2> DEFINE x == <<<<c.from, c.output>>, <<c.to, c.input>>>>
  <2>1. x \in X /\ c = [from |-> c.from, output |-> c.output, to |-> c.to, input |-> c.input]
    BY DEF Connections
  <2>2. f[x] = c
    BY <2>1
  <2> QED BY <2>1, <2>2
<1> HIDE DEF f, X
<1>4. f \in Surjection(X, Connections(N, O, I))
  BY <1>2, <1>3 DEF Surjection
<1> QED BY <1>1, <1>4, FS_Surjection

\* Graphs of finitely many nodes of a set and connections between them.
GraphOver(N, g) ==
    /\ Closed(g)
    /\ g.nodes \subseteq N
    /\ IsFiniteSet(g.connections)
    /\ g.connections \subseteq Connections(N, Nat, Nat)

\* The outputs and the inputs of finitely many connections are finitely many.
LEMMA FiniteEnds ==
    ASSUME NEW N, NEW C, IsFiniteSet(C), C \subseteq Connections(N, Nat, Nat)
    PROVE  \E O, I \in SUBSET Nat : /\ IsFiniteSet(O) /\ IsFiniteSet(I)
                                     /\ C \subseteq Connections(N, O, I)
<1> DEFINE O == {c.output : c \in C}
           I == {c.input : c \in C}
           out == [c \in C |-> c.output]
           in == [c \in C |-> c.input]
<1>1. out \in Surjection(C, O) /\ in \in Surjection(C, I)
  BY DEF Surjection
<1>2. O \subseteq Nat /\ I \subseteq Nat /\ C \subseteq Connections(N, O, I)
  BY DEF Connections
<1>3. IsFiniteSet(O) /\ IsFiniteSet(I)
  BY <1>1, FS_Surjection
<1> QED BY <1>2, <1>3

\* The graph of a partial execution is closed, over the nodes of the workflow.
LEMMA SubgraphClosed ==
    ASSUME NEW N, IsFiniteSet(N), NEW g, IsFiniteSet(g.connections),
           g.connections \subseteq Connections(N, Nat, Nat),
           NEW disabled, IsFiniteSet(disabled), NEW target, NEW trigger \in N
    PROVE  /\ GraphOver(N, FindSubgraph(FilterDisabledNodes(g, disabled), target, trigger))
           /\ trigger \in FindSubgraph(FilterDisabledNodes(g, disabled), target, trigger).nodes
<1> DEFINE filtered == FilterDisabledNodes(g, disabled)
           used == filtered.connections \cap Branches(filtered, target, trigger)
           sub == FindSubgraph(filtered, target, trigger)
<1>1. PICK O \in SUBSET Nat, I \in SUBSET Nat :
          IsFiniteSet(O) /\ IsFiniteSet(I) /\ g.connections \subseteq Connections(N, O, I)
  BY FiniteEnds
<1>2. used \subseteq Connections(N, O, I)
  BY <1>1, FilteredConnections
<1>3. /\ sub.connections = used
      /\ sub.nodes = {trigger} \cup {c.from : c \in used} \cup {c.to : c \in used}
  BY DEF FindSubgraph
<1> HIDE DEF used, sub
<1>4. sub.nodes \subseteq N
  BY <1>2, <1>3 DEF Connections
<1>5. IsFiniteSet(sub.nodes)
  BY <1>4, FS_Subset
<1>6. IsFiniteSet(sub.connections)
  <2>1. IsFiniteSet(Connections(N, O, I))
    BY <1>1, FiniteConnections
  <2> QED BY <1>2, <1>3, <2>1, FS_Subset
<1>7. sub.connections \subseteq Connections(N, Nat, Nat)
  BY <1>2, <1>3 DEF Connections
<1>8. Closed(sub) /\ trigger \in sub.nodes
  BY <1>3, <1>5 DEF Closed
<1> QED BY <1>4, <1>6, <1>7, <1>8 DEF GraphOver, sub

-----------------------------------------------------------------------------
(* Waiting nodes *)

\* Nothing waits that may run when an iteration has looked and nothing is on
\* the stack, and an execution ends or waits between two iterations.
IInv ==
    /\ workflow \in Workflows /\ GraphOver(Nodes, graph)
    /\ current # None => ~checked
    /\ status = "success" => current = None /\ stack = <<>>
    /\ status = "waiting" => current = None /\ ~checked
    /\ checked /\ stack = <<>> => \A n \in Nodes : ~MayRun(n, waiting)

\* An execution starts with its first node on the stack.
LEMMA InitIInv == Init => IInv
<1> SUFFICES ASSUME Init PROVE IInv
  OBVIOUS
<1>1. workflow \in Workflows /\ status = "running" /\ ~checked
  BY DEF Init
<1>2. graph.nodes = workflow.nodes /\ graph.connections = workflow.connections
  BY DEF Init
<1>3. GraphOver(Nodes, graph)
  BY <1>1, <1>2, WorkflowAssumption DEF GraphOver, Closed, Connections, Nodes
<1> QED BY <1>1, <1>3 DEF IInv

\* A partial execution starts with a closed graph and has looked at nothing.
LEMMA RunPartialIInv ==
    ASSUME IInv, NEW target \in Nodes, NEW dirty, RunPartialWorkflow(target, dirty)
    PROVE  IInv'
<1> DEFINE whole == [nodes |-> workflow.nodes, connections |-> workflow.connections]
           trigger == IF DirectParentConnections(whole, target) = {} THEN target
                      ELSE workflow.trigger
<1>1. /\ workflow' = workflow /\ status' = "running" /\ ~checked'
      /\ graph' = FindSubgraph(FilterDisabledNodes(whole, workflow.disabled), target, trigger)
  BY DEF RunPartialWorkflow
<1>2. /\ workflow \in Workflows
      /\ IsFiniteSet(workflow.nodes) /\ IsFiniteSet(workflow.disabled)
      /\ IsFiniteSet(whole.connections)
      /\ whole.connections \subseteq Connections(workflow.nodes, Nat, Nat)
      /\ trigger \in workflow.nodes
  BY WorkflowAssumption DEF IInv, Connections, Nodes
<1>3. GraphOver(Nodes, graph')
  BY <1>1, <1>2, SubgraphClosed DEF Nodes
<1> QED BY <1>1, <1>2, <1>3 DEF IInv, GraphOver, Closed, Nodes

\* The only step after which nothing is on the stack and the last iteration
\* has looked at the waiting nodes.
LEMMA FinishNodeIInv ==
    ASSUME IInv, FinishNode
    PROVE  IInv'
<1>1. /\ current # None /\ current' = None
      /\ UNCHANGED <<workflow, graph, status>>
  BY DEF FinishNode, execVars
<1>2. status \notin {"success", "waiting"}
  BY <1>1 DEF IInv
<1>3. ASSUME checked', stack' = <<>>, NEW n \in Nodes, MayRun(n, waiting')
      PROVE  FALSE
  <2>1. PICK state : RunWaiting(state)
    BY <1>3 DEF FinishNode
  <2>2. CASE stack' = state.stack /\ waiting' = state.waiting
    BY <1>3, <2>1, <2>2 DEF RunWaiting
  <2>3. CASE ~(stack' = state.stack /\ waiting' = state.waiting)
    <3>1. \E item : stack' = <<item>>
      BY <2>1, <2>3 DEF RunWaiting
    <3> QED BY <1>3, <3>1
  <2> QED BY <2>2, <2>3
<1>4. checked' /\ stack' = <<>> => \A n \in Nodes' : ~MayRun(n, waiting)'
  <2>1. Nodes' = Nodes
    BY <1>1 DEF Nodes
  <2>2. \A n : MayRun(n, waiting)' <=> MayRun(n, waiting')
    BY <1>1 DEF MayRun, WaitingNodes, InputsWithData, Nodes
  <2> QED BY <1>3, <2>1, <2>2
<1> QED BY <1>1, <1>2, <1>4 DEF IInv, GraphOver, Closed, Nodes

\* Every step keeps the invariant; only FinishNode needs an argument.
LEMMA NextIInv == IInv /\ [Next]_vars => IInv'
<1> SUFFICES ASSUME IInv, [Next]_vars PROVE IInv'
  OBVIOUS
<1>1. ASSUME NEW target \in Nodes \ workflow.disabled, NEW dirty \in workflow.edited,
             RunPartialWorkflow(target, dirty)
      PROVE  IInv'
  BY <1>1, RunPartialIInv
<1>2. CASE FinishNode
  BY <1>2, FinishNodeIInv
<1>3. ASSUME UNCHANGED <<workflow, graph, checked>>, UNCHANGED <<stack, waiting>> \/ ~checked,
             current' # None => ~checked,
             status' = "success" => current' = None /\ stack' = <<>>,
             status' = "waiting" => current' = None /\ ~checked
      PROVE  IInv'
  <2>1. Nodes' = Nodes
    BY <1>3 DEF Nodes
  <2>2. ASSUME UNCHANGED <<stack, waiting>>, NEW n
        PROVE  MayRun(n, waiting)' <=> MayRun(n, waiting)
    BY <1>3, <2>2 DEF MayRun, WaitingNodes, InputsWithData, Nodes
  <2>3. checked' /\ stack' = <<>> => \A n \in Nodes' : ~MayRun(n, waiting)'
    BY <1>3, <2>1, <2>2 DEF IInv
  <2> QED BY <1>3, <2>3 DEF IInv, GraphOver, Closed, Nodes
<1>4. CASE TakeNode
  <2>1. UNCHANGED <<workflow, graph, status>> /\ ~checked' /\ status = "running"
    BY <1>4 DEF TakeNode, execVars
  <2> QED BY <2>1 DEF IInv, GraphOver, Closed, Nodes
<1>5. CASE ReturnNothing
  BY <1>3, <1>5 DEF ReturnNothing, execVars, IInv
<1>6. ASSUME NEW newStatus \in {"error", "waiting"}, current # None, Stop(newStatus)
      PROVE  IInv'
  BY <1>3, <1>6 DEF Stop, execVars, IInv
<1>7. CASE FailNode
  BY <1>6, <1>7 DEF FailNode
<1>8. CASE PutToWait
  BY <1>6, <1>8 DEF PutToWait
<1>9. CASE Resume
  BY <1>3, <1>9 DEF Resume, execVars, IInv
<1>10. CASE Cancel
  BY <1>3, <1>10 DEF Cancel, execVars, IInv
<1>11. CASE Finish
  BY <1>3, <1>11 DEF Finish, execVars, IInv
<1>12. CASE UNCHANGED vars
  BY <1>3, <1>12 DEF vars, execVars, IInv
<1> QED
  BY <1>1, <1>2, <1>4, <1>5, <1>7, <1>8, <1>9, <1>10, <1>11, <1>12 DEF Next

\* Data left behind in waiting nodes none of which may run.
LEMMA IInvImplies == IInv => StrandedHasCause
<1> SUFFICES ASSUME IInv, status = "success", checked, WaitingNodes(waiting) # {},
                    ~\E n \in WaitingNodes(waiting) :
                         \/ workflow.required[n] = workflow.inputs[n]
                         \/ ~(Cardinality(InputsWithData(n, waiting)) >= workflow.required[n])
             PROVE  \E n \in WaitingNodes(waiting) : \E m \in WaitingNodes(waiting) \ {n} :
                       n \in Children(graph, m) /\ m \in Children(graph, n)
  BY DEF StrandedHasCause
<1> DEFINE W == WaitingNodes(waiting)
<1>1. IsFiniteSet(W)
  <2>1. IsFiniteSet(workflow.nodes)
    BY WorkflowAssumption DEF IInv
  <2>2. W \subseteq workflow.nodes
    BY DEF WaitingNodes, Nodes
  <2> QED BY <2>1, <2>2, FS_Subset
<1>2. \A n \in W : ~MayRun(n, waiting)
  BY DEF IInv, WaitingNodes
<1>3. ASSUME NEW n \in W PROVE Parents(graph, n) \cap W # {}
  BY <1>2 DEF MayRun
<1>4. Closed(graph)
  BY DEF IInv, GraphOver
<1> QED BY <1>1, <1>3, <1>4, MutuallyAbove

\* Of any workflow: an execution that succeeds and whose last iteration looked
\* at the waiting nodes leaves data behind only where all inputs are required,
\* too few have data, or two nodes wait for each other.
THEOREM StrandedExplained == Spec => []StrandedHasCause
<1>1. Spec => []IInv
  BY InitIInv, NextIInv, PTL DEF Spec
<1> QED BY <1>1, IInvImplies, PTL

-----------------------------------------------------------------------------
(* Numbers and enumerations *)

\* A finite set of numbers has a greatest one.
LEMMA MaxProperties ==
    ASSUME NEW T, T \subseteq Nat, IsFiniteSet(T), T # {}
    PROVE  Max(T) \in T /\ \A x \in T : x <= Max(T)
<1> DEFINE n == Cardinality(T)
           Bounds(S) == {b \in Nat : \A x \in S : x <= b}
<1>1. n \in Nat /\ ExistsBijection(1..n, T)
  BY FS_CardinalityType
<1>2. PICK f \in [1..n -> T] : \A x \in T : \E i \in 1..n : f[i] = x
  BY <1>1 DEF ExistsBijection, Bijection, Surjection
<1> HIDE DEF n
<1>A. \A i \in 1..n : f[i] \in Nat
  BY <1>2
<1> DEFINE bad == {m \in 0..n : ~\E b \in Nat : \A i \in 1..m : f[i] <= b}
<1>3. bad = {}
  <2> SUFFICES ASSUME bad # {} PROVE FALSE
    OBVIOUS
  <2>1. PICK m \in bad : \A j \in bad : m <= j
    <3>1. bad \subseteq Nat
      BY <1>1
    <3> QED BY <3>1, LeastNumber
  <2>2. m # 0 /\ m \in 0..n
    <3>1. \A i \in 1..0 : f[i] <= 0
      OBVIOUS
    <3> QED BY <3>1, <2>1
  <2> HIDE DEF bad
  <2>3. PICK b \in Nat : \A i \in 1..(m - 1) : f[i] <= b
    <3>1. m - 1 \in 0..n /\ ~(m <= m - 1)
      BY <1>1, <2>2
    <3>2. m - 1 \notin bad
      BY <3>1, <2>1
    <3> QED BY <3>1, <3>2 DEF bad
  <2>4. m \in 1..n /\ f[m] \in Nat
    BY <1>1, <1>A, <2>2
  <2>5. PICK k \in Nat : k >= b /\ k >= f[m]
    BY <2>3, <2>4
  <2>6. \A i \in 1..m : f[i] <= k
    <3> TAKE i \in 1..m
    <3>1. i \in 1..(m - 1) \/ i = m
      BY <2>4
    <3>2. i \in 1..n
      BY <1>1, <2>2
    <3>3. f[i] \in Nat
      BY <1>A, <3>2
    <3> QED BY <3>1, <3>3, <2>3, <2>4, <2>5
  <2> QED BY <2>5, <2>6 DEF bad
<1>4. PICK c \in Bounds(T) : \A b \in Bounds(T) : c <= b
  <2>1. n \in 0..n
    BY <1>1
  <2>2. PICK b \in Nat : \A i \in 1..n : f[i] <= b
    BY <1>3, <2>1
  <2>3. b \in Bounds(T)
    BY <1>2, <2>2
  <2>4. Bounds(T) \subseteq Nat
    OBVIOUS
  <2> QED BY <2>3, <2>4, LeastNumber
<1>5. c \in T
  <2> SUFFICES ASSUME c \notin T PROVE FALSE
    OBVIOUS
  <2>1. \A x \in T : x < c
    BY <1>4
  <2>2. c - 1 \in Nat
    <3>1. PICK x : x \in T
      OBVIOUS
    <3>2. x \in Nat /\ x < c /\ c \in Nat
      BY <3>1, <2>1, <1>4
    <3> QED BY <3>2
  <2>3. c - 1 \in Bounds(T)
    BY <2>1, <2>2, <1>4
  <2> QED BY <2>3, <1>4
<1>6. \A y \in T : c >= y
  BY <1>4
<1> QED BY <1>5, <1>6 DEF Max

\* What Min gives for numbers.
LEMMA MinProperties ==
    ASSUME NEW T, T \subseteq Nat, T # {}
    PROVE  Min(T) \in T /\ \A x \in T : Min(T) <= x
BY LeastNumber DEF Min

\* The sequences of a set have each of its elements at one index.
LEMMA Enumerated ==
    ASSUME NEW S, IsFiniteSet(S), NEW s \in SetToSeqs(S)
    PROVE  /\ s \in Seq(S) /\ Len(s) = Cardinality(S) /\ Len(s) \in Nat
           /\ \A i, j \in 1..Len(s) : s[i] = s[j] => i = j
           /\ \A x \in S : \E i \in 1..Len(s) : s[i] = x
<1> DEFINE n == Cardinality(S)
<1>1. n \in Nat
  BY FS_CardinalityType
<1>2. s \in [1..n -> S] /\ \A i, j \in 1..n : i # j => s[i] # s[j]
  BY DEF SetToSeqs
<1>3. IsFiniteSet(1..n) /\ Cardinality(1..n) = n
  <2>1. 1 \in Int /\ n \in Int /\ (IF 1 > n THEN 0 ELSE n - 1 + 1) = n
    BY <1>1
  <2> HIDE DEF n
  <2> QED BY <2>1, FS_Interval
<1>4. s \in Injection(1..n, S)
  BY <1>2 DEF Injection, IsInjective
<1>5. s \in Surjection(1..n, S)
  BY <1>3, <1>4, FS_Injection
<1>6. s \in Seq(S) /\ Len(s) = n
  BY <1>1, <1>2
<1> QED BY <1>1, <1>2, <1>5, <1>6 DEF Surjection

\* Finitely many elements with different numbers can be put in their order.
LEMMA Sorted ==
    ASSUME NEW S, IsFiniteSet(S), \A c \in S : c.input \in Nat,
           \A c, d \in S : c.input = d.input => c = d
    PROVE  \E s \in [1..Cardinality(S) -> S] :
              \A i, j \in DOMAIN s : i < j => s[i].input < s[j].input
<1> DEFINE Ascending(T, s) == /\ s \in [1..Cardinality(T) -> T]
                             /\ \A i, j \in DOMAIN s : i < j => s[i].input < s[j].input
           bad == {m \in Nat : \E T \in SUBSET S : Cardinality(T) = m /\ ~\E s : Ascending(T, s)}
<1>1. Cardinality(S) \in Nat
  BY FS_CardinalityType
<1>2. bad = {}
  <2> SUFFICES ASSUME bad # {} PROVE FALSE
    OBVIOUS
  <2>1. PICK m \in bad : \A j \in bad : m <= j
    BY LeastNumber
  <2>2. PICK T \in SUBSET S : Cardinality(T) = m /\ ~\E s : Ascending(T, s)
    BY <2>1
  <2>3. IsFiniteSet(T)
    BY FS_Subset
  <2>4. T # {}
    <3> SUFFICES ASSUME T = {} PROVE FALSE
      OBVIOUS
    <3>1. Cardinality(T) = 0
      BY FS_EmptySet
    <3>2. Ascending(T, <<>>)
      BY <3>1
    <3> QED BY <3>2, <2>2
  <2> DEFINE inputs == {c.input : c \in T}
  <2>5. PICK c \in T : \A d \in T : d.input <= c.input
    <3>1. inputs \subseteq Nat /\ inputs # {}
      BY <2>2, <2>4
    <3>2. IsFiniteSet(inputs)
      <4>1. [x \in T |-> x.input] \in Surjection(T, inputs)
        BY DEF Surjection
      <4> QED BY <4>1, <2>3, FS_Surjection
    <3> HIDE DEF inputs
    <3>3. Max(inputs) \in inputs /\ \A x \in inputs : x <= Max(inputs)
      BY <3>1, <3>2, MaxProperties
    <3> QED BY <3>3 DEF inputs
  <2> DEFINE rest == T \ {c}
  <2>6. Cardinality(rest) = m - 1 /\ m - 1 \in Nat
    <3>1. IsFiniteSet(rest) /\ Cardinality(rest) = Cardinality(T) - 1
      BY <2>3, FS_RemoveElement
    <3>2. Cardinality(rest) \in Nat
      BY <3>1, FS_CardinalityType
    <3> QED BY <3>1, <3>2, <2>2
  <2>7. PICK s : Ascending(rest, s)
    <3>1. ~(m <= m - 1)
      BY <2>6
    <3>2. m - 1 \notin bad
      BY <3>1, <2>1
    <3> HIDE DEF Ascending
    <3> QED BY <3>2, <2>2, <2>6
  <2> DEFINE t == [i \in 1..m |-> IF i = m THEN c ELSE s[i]]
  <2>8. s \in [1..(m - 1) -> rest] /\ m \in Nat \ {0}
    <3>1. s \in [1..Cardinality(rest) -> rest]
      BY <2>7
    <3>2. m \in Nat
      BY <2>1
    <3> HIDE DEF rest
    <3> QED BY <3>1, <3>2, <2>6
  <2>9. t \in [1..m -> T]
    BY <2>8
  <2>10. \A i, j \in 1..m : i < j => t[i].input < t[j].input
    <3> SUFFICES ASSUME NEW i \in 1..m, NEW j \in 1..m, i < j
                 PROVE  t[i].input < t[j].input
      OBVIOUS
    <3>1. i \in 1..(m - 1) /\ t[i] = s[i]
      BY <2>8
    <3>2. CASE j = m
      <4>1. s[i] \in T /\ s[i] # c
        BY <3>1, <2>8
      <4>2. s[i].input \in Nat /\ c.input \in Nat /\ s[i].input # c.input
        BY <4>1, <2>2
      <4>3. s[i].input <= c.input
        BY <4>1, <2>5
      <4> QED BY <3>1, <3>2, <4>2, <4>3
    <3>3. CASE j # m
      <4>1. j \in 1..(m - 1) /\ t[j] = s[j]
        BY <3>3, <2>8
      <4> QED BY <3>1, <4>1, <2>7, <2>8
    <3> QED BY <3>2, <3>3
  <2>11. Ascending(T, t)
    BY <2>2, <2>9, <2>10
  <2> QED BY <2>11, <2>2
<1> HIDE DEF Ascending
<1>3. PICK s : Ascending(S, s)
  BY <1>1, <1>2
<1> QED BY <1>3 DEF Ascending

-----------------------------------------------------------------------------
(* The places of data *)

RealData(N) == [node : N, output : Nat, run : Nat]
Arrays(N) == Seq(Values(N))
Slots(N) == [to : N, input : Nat, data : Values(N)]
RealSlots(N) == [to : N, input : Nat, data : RealData(N)]

\* What the stack holds, what waits, and what was overwritten, when only nodes
\* of A are run.
ItemsOf(N, A) == [node : A, resumed : BOOLEAN, inputs : Arrays(N)]
EntryArrays(N) == {e \in UNION {[S -> Arrays(N)] : S \in SUBSET Nat} : IsFiniteSet(DOMAIN e)}
WaitingOf(N, A) == {w \in [N -> EntryArrays(N)] : \A n \in N \ A : DOMAIN w[n] = {}}
States(N, A) == [stack : Seq(ItemsOf(N, A)), waiting : WaitingOf(N, A),
                 overwritten : SUBSET Slots(N)]

Holds(array, d) == d.input + 1 \in DOMAIN array /\ array[d.input + 1] = d.data
OnStack(d, st) == {i \in DOMAIN st : st[i].node = d.to /\ Holds(st[i].inputs, d)}
InEntries(d, entries) == {i \in DOMAIN entries : Holds(entries[i], d)}
InRuns(d, runs) ==
    {k \in DOMAIN runs : runs[k].status = "success" /\ Holds(runs[k].inputs, d)}

\* Places of which S, W and R are the indices on the stack, in waiting entries
\* and in runs, and c, s and o say whether it is current, spent, overwritten.
Nowhere(S, W, R, c, s, o) == S = {} /\ W = {} /\ R = {} /\ ~c /\ ~s /\ ~o
One(T) == \A i, j \in T : i = j
InOne(S, W, R, c, s, o) ==
    /\ S # {} \/ W # {} \/ R # {} \/ c \/ s \/ o
    /\ One(S) /\ One(W) /\ One(R)
    /\ S # {} => W = {} /\ R = {} /\ ~c /\ ~s /\ ~o
    /\ W # {} => R = {} /\ ~c /\ ~s /\ ~o
    /\ R # {} => ~c /\ ~s /\ ~o
    /\ c => ~s /\ ~o
    /\ s => ~o

\* The same for data d in a state x, beside runs, a node that runs and data
\* that was spent.
Lost(d, x, runs, cur, sp) ==
    Nowhere(OnStack(d, x.stack), InEntries(d, x.waiting[d.to]), InRuns(d, runs[d.to]),
            cur # None /\ cur.node = d.to /\ Holds(cur.inputs, d), d \in sp, d \in x.overwritten)
Unique(d, x, runs, cur, sp) ==
    InOne(OnStack(d, x.stack), InEntries(d, x.waiting[d.to]), InRuns(d, runs[d.to]),
          cur # None /\ cur.node = d.to /\ Holds(cur.inputs, d), d \in sp, d \in x.overwritten)

\* From x to y, d is neither lost nor found, nor doubled.
Moves(d, x, y, runs, sp) ==
    /\ Lost(d, x, runs, None, sp) <=> Lost(d, y, runs, None, sp)
    /\ Unique(d, x, runs, None, sp) => Unique(d, y, runs, None, sp)

Datum(c, run) ==
    [to |-> c.to, input |-> c.input, data |-> [node |-> c.from, output |-> c.output, run |-> run]]

\* What an item pushed on the stack adds to the indices.
LEMMA Pushed ==
    ASSUME NEW T, NEW st \in Seq(T), NEW item \in T, NEW d
    PROVE  /\ <<item>> \o st \in Seq(T)
           /\ \A i \in Nat : i + 1 \in OnStack(d, <<item>> \o st) /\ i # 0 <=> i \in OnStack(d, st)
           /\ 1 \in OnStack(d, <<item>> \o st) <=> item.node = d.to /\ Holds(item.inputs, d)
           /\ OnStack(d, st) \subseteq Nat \ {0}
           /\ OnStack(d, <<item>> \o st) \subseteq Nat \ {0}
<1> DEFINE new == <<item>> \o st
<1>1. <<item>> \in Seq(T) /\ Len(<<item>>) = 1 /\ <<item>>[1] = item
  OBVIOUS
<1>2. /\ new \in Seq(T)
      /\ Len(new) = 1 + Len(st)
      /\ \A i \in 1..(1 + Len(st)) : new[i] = IF i <= 1 THEN <<item>>[i] ELSE st[i - 1]
  BY <1>1, ConcatProperties
<1>3. Len(st) \in Nat /\ DOMAIN st = 1..Len(st) /\ DOMAIN new = 1..(1 + Len(st))
  BY <1>2, LenProperties
<1> HIDE DEF new
<1>4. new[1] = item /\ \A i \in 1..Len(st) : new[i + 1] = st[i]
  <2>1. 1 \in 1..(1 + Len(st)) /\ 1 <= 1
    BY <1>3
  <2>2. new[1] = item
    BY <2>1, <1>1, <1>2
  <2>3. ASSUME NEW i \in 1..Len(st) PROVE new[i + 1] = st[i]
    <3>1. i + 1 \in 1..(1 + Len(st)) /\ ~(i + 1 <= 1) /\ i + 1 - 1 = i
      BY <1>3
    <3> QED BY <3>1, <1>2
  <2> QED BY <2>2, <2>3
<1>5. \A i \in Nat : i + 1 \in OnStack(d, new) /\ i # 0 <=> i \in OnStack(d, st)
  <2> TAKE i \in Nat
  <2>1. i + 1 \in DOMAIN new /\ i # 0 <=> i \in DOMAIN st
    BY <1>3
  <2>2. i \in DOMAIN st => new[i + 1] = st[i]
    BY <1>3, <1>4
  <2> QED BY <2>1, <2>2 DEF OnStack
<1>6. 1 \in OnStack(d, new) <=> item.node = d.to /\ Holds(item.inputs, d)
  BY <1>3, <1>4 DEF OnStack
<1>7. OnStack(d, new) \subseteq Nat \ {0} /\ OnStack(d, st) \subseteq Nat \ {0}
  BY <1>3 DEF OnStack
<1> QED BY <1>2, <1>5, <1>6, <1>7 DEF new

\* What Inputs gives for an array.
LEMMA InputsOf ==
    ASSUME NEW N, NEW n \in N, NEW array \in Arrays(N)
    PROVE  /\ Inputs(n, array) \subseteq Slots(N)
           /\ \A d \in Slots(N) : d \in Inputs(n, array) <=> d.to = n /\ Holds(array, d)
<1>1. \A i \in DOMAIN array : i \in Nat \ {0} /\ array[i] \in Values(N)
  BY DEF Arrays
<1>2. Inputs(n, array) \subseteq Slots(N)
  BY <1>1 DEF Inputs, Slots
<1>3. ASSUME NEW d \in Slots(N)
      PROVE  d \in Inputs(n, array) <=> d.to = n /\ Holds(array, d)
  <2>1. ASSUME d \in Inputs(n, array) PROVE d.to = n /\ Holds(array, d)
    <3>1. PICK i \in DOMAIN array : d = [to |-> n, input |-> i - 1, data |-> array[i]]
      BY <2>1 DEF Inputs
    <3>2. d.to = n /\ d.input + 1 = i /\ d.data = array[i]
      BY <3>1, <1>1
    <3> QED BY <3>2 DEF Holds
  <2>2. ASSUME d.to = n, Holds(array, d) PROVE d \in Inputs(n, array)
    <3>1. d = [to |-> d.to, input |-> d.input, data |-> d.data] /\ d.input \in Nat
      BY DEF Slots
    <3>2. d.input + 1 \in DOMAIN array /\ d.input + 1 - 1 = d.input
      BY <2>2, <3>1 DEF Holds
    <3>3. d = [to |-> n, input |-> (d.input + 1) - 1, data |-> array[d.input + 1]]
      BY <2>2, <3>1, <3>2 DEF Holds
    <3> QED BY <3>2, <3>3 DEF Inputs
  <2> QED BY <2>1, <2>2
<1> QED BY <1>2, <1>3

\* What WriteAt gives.
LEMMA Written ==
    ASSUME NEW N, NEW array \in Arrays(N), NEW i \in Nat \ {0}, NEW value \in Values(N)
    PROVE  /\ WriteAt(array, i, value) \in Arrays(N)
           /\ i \in DOMAIN WriteAt(array, i, value) /\ WriteAt(array, i, value)[i] = value
           /\ DOMAIN array \subseteq DOMAIN WriteAt(array, i, value)
           /\ \A k \in DOMAIN WriteAt(array, i, value) \ {i} :
                 WriteAt(array, i, value)[k] = IF k \in DOMAIN array THEN array[k] ELSE Hole
<1> DEFINE n == IF i > Len(array) THEN i ELSE Len(array)
           new == [k \in 1..n |->
                      IF k = i THEN value ELSE IF k <= Len(array) THEN array[k] ELSE Hole]
<1>1. WriteAt(array, i, value) = new
  BY DEF WriteAt
<1>2. Len(array) \in Nat /\ DOMAIN array = 1..Len(array)
      /\ \A k \in 1..Len(array) : array[k] \in Values(N)
  BY DEF Arrays
<1>3. n \in Nat /\ i \in 1..n /\ DOMAIN array \subseteq 1..n /\ Hole \in Values(N)
  BY <1>2 DEF Values
<1>4. \A k \in 1..n : k <= Len(array) <=> k \in DOMAIN array
  BY <1>2, <1>3
<1> HIDE DEF n
<1>5. \A k \in 1..n : new[k] \in Values(N)
  BY <1>2, <1>3, <1>4
<1>6. new \in [1..n -> Values(N)]
  BY <1>5
<1>7. new \in Arrays(N)
  BY <1>3, <1>6, SeqDef DEF Arrays
<1>8. DOMAIN new = 1..n /\ new[i] = value
  BY <1>3
<1>9. \A k \in 1..n \ {i} : new[k] = IF k \in DOMAIN array THEN array[k] ELSE Hole
  BY <1>4
<1> QED BY <1>1, <1>3, <1>7, <1>8, <1>9

\* The number of inputs that the connections of a node make known.
InputCount(g, n) == Max({0} \cup {c.input : c \in DirectParentConnections(g, n)}) + 1

\* It is positive, and the inputs are below it.
LEMMA InputCountType ==
    ASSUME NEW N, NEW g, GraphOver(N, g), NEW n
    PROVE  /\ InputCount(g, n) \in Nat \ {0}
           /\ \A c \in g.connections : c.to = n => c.input < InputCount(g, n)
<1> DEFINE into == DirectParentConnections(g, n)
           inputs == {0} \cup {c.input : c \in into}
<1>1. into \subseteq g.connections /\ into \subseteq Connections(N, Nat, Nat)
  BY DEF DirectParentConnections, GraphOver
<1>2. IsFiniteSet({c.input : c \in into})
  <2>1. IsFiniteSet(into)
    BY <1>1, FS_Subset DEF GraphOver
  <2>2. [c \in into |-> c.input] \in Surjection(into, {c.input : c \in into})
    BY DEF Surjection
  <2> QED BY <2>1, <2>2, FS_Surjection
<1>3. IsFiniteSet(inputs) /\ inputs \subseteq Nat /\ 0 \in inputs
  <2>1. inputs \subseteq Nat /\ 0 \in inputs
    BY <1>1 DEF Connections
  <2>2. inputs = {c.input : c \in into} \cup {0}
    OBVIOUS
  <2> QED BY <1>2, <2>1, <2>2, FS_AddElement
<1> HIDE DEF inputs, into
<1>4. Max(inputs) \in inputs /\ \A x \in inputs : x <= Max(inputs)
  BY <1>3, MaxProperties
<1>5. InputCount(g, n) = Max(inputs) + 1
  BY DEF InputCount, inputs, into
<1> DEFINE m == Max(inputs)
<1>A. m \in Nat
  BY <1>3, <1>4
<1>6. InputCount(g, n) \in Nat \ {0}
  <2> HIDE DEF m
  <2> QED BY <1>5, <1>A DEF m
<1>7. ASSUME NEW c \in g.connections, c.to = n PROVE c.input < InputCount(g, n)
  <2>1. c.input \in inputs
    BY <1>7 DEF inputs, into, DirectParentConnections
  <2>2. c.input <= m /\ c.input \in Nat
    BY <2>1, <1>3, <1>4
  <2> HIDE DEF m
  <2> QED BY <2>2, <1>5, <1>A DEF m
<1> QED BY <1>6, <1>7

\* So it is in the graph of the execution.
LEMMA NumberOfInputsType ==
    ASSUME NEW N, GraphOver(N, graph), NEW n
    PROVE  /\ NumberOfInputs(n) \in Nat \ {0}
           /\ \A c \in graph.connections : c.to = n => c.input < NumberOfInputs(n)
<1>1. NumberOfInputs(n) = InputCount(graph, n)
  BY DEF NumberOfInputs, InputCount
<1> QED BY <1>1, InputCountType

\* One entry of waiting entries taken out, or put in.
LEMMA EntryTaken ==
    ASSUME NEW N, NEW e \in EntryArrays(N), NEW i \in Nat,
           NEW out, out = [j \in DOMAIN e \ {i} |-> e[j]]
    PROVE  out \in EntryArrays(N) /\ \A d : InEntries(d, out) = InEntries(d, e) \ {i}
<1>1. DOMAIN e \subseteq Nat /\ IsFiniteSet(DOMAIN e) /\ \A j \in DOMAIN e : e[j] \in Arrays(N)
  BY DEF EntryArrays
<1>2. DOMAIN out = DOMAIN e \ {i} /\ out \in [DOMAIN e \ {i} -> Arrays(N)]
  BY <1>1
<1>3. IsFiniteSet(DOMAIN out) /\ DOMAIN e \ {i} \in SUBSET Nat
  BY <1>1, <1>2, FS_RemoveElement
<1>4. \A d : InEntries(d, out) = InEntries(d, e) \ {i}
  BY DEF InEntries
<1> QED BY <1>2, <1>3, <1>4 DEF EntryArrays

\* The indices of data after an entry was put in.
LEMMA EntryPut ==
    ASSUME NEW N, NEW e \in EntryArrays(N), NEW i \in Nat, NEW array \in Arrays(N),
           NEW in, in = [j \in DOMAIN e \cup {i} |-> IF j = i THEN array ELSE e[j]]
    PROVE  /\ in \in EntryArrays(N)
           /\ \A d : InEntries(d, in) =
                 (InEntries(d, e) \ {i}) \cup (IF Holds(array, d) THEN {i} ELSE {})
<1>1. DOMAIN e \subseteq Nat /\ IsFiniteSet(DOMAIN e) /\ \A j \in DOMAIN e : e[j] \in Arrays(N)
  BY DEF EntryArrays
<1>2. DOMAIN in = DOMAIN e \cup {i} /\ in \in [DOMAIN e \cup {i} -> Arrays(N)]
  BY <1>1
<1>3. IsFiniteSet(DOMAIN in) /\ DOMAIN e \cup {i} \in SUBSET Nat
  BY <1>1, <1>2, FS_AddElement
<1>4. \A d : InEntries(d, in) = (InEntries(d, e) \ {i}) \cup (IF Holds(array, d) THEN {i} ELSE {})
  BY DEF InEntries
<1> QED BY <1>2, <1>3, <1>4 DEF EntryArrays

\* addNodeToBeExecuted(), one of three ways: an item for the only input, an
\* entry that is complete and goes to the stack, or an entry that waits.
AddsItem(x, y, n, item) ==
    y = [x EXCEPT !.stack = <<item>> \o @]
Completes(x, y, n, i, item, lost) ==
    y = [x EXCEPT !.stack = <<item>> \o @,
                  !.waiting[n] = [j \in DOMAIN x.waiting[n] \ {i} |-> x.waiting[n][j]],
                  !.overwritten = @ \cup lost]
AddsEntry(x, y, n, i, entry, lost) ==
    y = [x EXCEPT !.waiting[n] = [j \in DOMAIN x.waiting[n] \cup {i} |->
                                     IF j = i THEN entry ELSE x.waiting[n][j]],
                  !.overwritten = @ \cup lost]

\* The entry at index i keeps its data, or is lost if it already has data for
\* this input; the new one has the datum new.
Replaces(N, x, i, entry, lost, new) ==
    /\ i \in Nat /\ entry \in Arrays(N) /\ lost \in SUBSET Slots(N)
    /\ \A d \in RealSlots(N) : d.to # new.to => d \notin lost
    /\ \/ /\ i \in DOMAIN x.waiting[new.to] /\ lost = {}
          /\ \A d \in RealSlots(N) :
                d.to = new.to =>
                    (Holds(entry, d) <=> d = new \/ i \in InEntries(d, x.waiting[new.to]))
          /\ i \notin InEntries(new, x.waiting[new.to])
       \/ \A d \in RealSlots(N) :
             d.to = new.to =>
                /\ Holds(entry, d) <=> d = new
                /\ d \in lost <=> i \in InEntries(d, x.waiting[new.to])

\* What the branches of addNodeToBeExecuted() have in common.
LEMMA AddNodeCases ==
    ASSUME NEW N, GraphOver(N, graph), NEW A, NEW x \in States(N, A), NEW c \in graph.connections,
           {None, Hole} \cap RealData(N) = {}, None \notin N,
           c.to \in A, NEW run \in Nat
    PROVE  LET y == AddNodeToBeExecuted(x, c, run)
               new == Datum(c, run)
           IN  \/ \E item \in ItemsOf(N, A) :
                     /\ item.node = c.to /\ AddsItem(x, y, c.to, item)
                     /\ \A d \in RealSlots(N) : d.to = c.to => (Holds(item.inputs, d) <=> d = new)
               \/ \E i, entry, lost :
                     /\ Replaces(N, x, i, entry, lost, new)
                     /\ \/ AddsEntry(x, y, c.to, i, entry, lost)
                        \/ Completes(x, y, c.to, i,
                              [node |-> c.to, resumed |-> FALSE, inputs |-> entry], lost)
<1> DEFINE y == AddNodeToBeExecuted(x, c, run)
           new == Datum(c, run)
           data == [node |-> c.from, output |-> c.output, run |-> run]
           entries == x.waiting[c.to]
           lacking == {i \in DOMAIN entries :
                          c.input + 1 > Len(entries[i]) \/ ~IsData(entries[i][c.input + 1])}
           index == IF lacking # {} THEN Min(lacking) ELSE Cardinality(DOMAIN entries)
           before == IF lacking # {} THEN entries[index] ELSE AllNull(c.to)
           lost == IF lacking # {} \/ index \notin DOMAIN entries THEN {}
                   ELSE Inputs(c.to, entries[index])
           entry == WriteAt(before, c.input + 1, data)
           item == [node |-> c.to, resumed |-> FALSE,
                    inputs |-> IF NumberOfInputs(c.to) = 1 THEN <<data>> ELSE entry]
<1>1. /\ c.from \in N /\ c.to \in N /\ c.output \in Nat /\ c.input \in Nat
      /\ c.input + 1 \in Nat \ {0}
      /\ data \in RealData(N) /\ data \in Values(N)
  BY DEF GraphOver, Connections, RealData, Values
<1>2. NumberOfInputs(c.to) \in Nat \ {0} /\ c.input < NumberOfInputs(c.to)
  BY NumberOfInputsType
<1>3. /\ entries \in EntryArrays(N) /\ DOMAIN entries \subseteq Nat /\ IsFiniteSet(DOMAIN entries)
      /\ \A i \in DOMAIN entries : entries[i] \in Arrays(N)
  <2>1. entries \in EntryArrays(N)
    BY <1>1 DEF States, WaitingOf
  <2> HIDE DEF entries
  <2> QED BY <2>1 DEF EntryArrays
<1>4. \/ y = [x EXCEPT !.stack = <<item>> \o @] /\ NumberOfInputs(c.to) = 1
      \/ /\ NumberOfInputs(c.to) # 1
         /\ y = [x EXCEPT !.stack = <<item>> \o @,
                  !.waiting[c.to] = [i \in DOMAIN entries \ {index} |-> entries[i]],
                  !.overwritten = @ \cup lost]
      \/ y = [x EXCEPT !.waiting[c.to] = [i \in DOMAIN entries \cup {index} |->
                                            IF i = index THEN entry ELSE entries[i]],
                       !.overwritten = @ \cup lost]
  BY DEF AddNodeToBeExecuted
<1>5. new.to = c.to /\ new.input = c.input /\ new.data = data /\ new \in RealSlots(N)
  BY <1>1 DEF Datum, RealSlots
<1>6. CASE y = [x EXCEPT !.stack = <<item>> \o @] /\ NumberOfInputs(c.to) = 1
  <2>1. c.input = 0
    BY <1>1, <1>2, <1>6
  <2>2. item = [node |-> c.to, resumed |-> FALSE, inputs |-> <<data>>]
    BY <1>6
  <2>3. item \in ItemsOf(N, A)
    <3>1. <<data>> \in Arrays(N)
      BY <1>1 DEF Arrays
    <3> QED BY <2>2, <3>1 DEF ItemsOf
  <2>4. ASSUME NEW d \in RealSlots(N), d.to = c.to PROVE Holds(<<data>>, d) <=> d = new
    <3>1. d = [to |-> d.to, input |-> d.input, data |-> d.data] /\ d.input \in Nat
      BY DEF RealSlots
    <3>2. new = [to |-> c.to, input |-> 0, data |-> data]
      BY <2>1 DEF Datum
    <3>3. Holds(<<data>>, d) <=> d.input = 0 /\ d.data = data
      BY <3>1 DEF Holds
    <3> QED BY <3>1, <3>2, <3>3, <2>4
  <2> HIDE DEF y, new, item
  <2>5. AddsItem(x, y, c.to, item)
    BY <1>6 DEF AddsItem
  <2> QED BY <2>2, <2>3, <2>4, <2>5 DEF y, new
<1>7. CASE ~(y = [x EXCEPT !.stack = <<item>> \o @] /\ NumberOfInputs(c.to) = 1)
  <2>1. index \in Nat /\ (lacking # {} => index \in lacking)
    <3>1. lacking \subseteq Nat
      BY <1>3
    <3>2. Cardinality(DOMAIN entries) \in Nat
      BY <1>3, FS_CardinalityType
    <3> HIDE DEF lacking, entries
    <3> QED BY <3>1, <3>2, MinProperties
  <2>2. AllNull(c.to) \in Arrays(N) /\ \A k \in DOMAIN AllNull(c.to) : AllNull(c.to)[k] = None
    <3>1. None \in Values(N)
      BY DEF Values
    <3>2. AllNull(c.to) \in [1..NumberOfInputs(c.to) -> Values(N)]
      BY <3>1 DEF AllNull
    <3>3. AllNull(c.to) \in Arrays(N)
      BY <3>2, <1>2, SeqDef DEF Arrays
    <3> QED BY <3>3 DEF AllNull
  <2>3. before \in Arrays(N)
    BY <2>1, <2>2, <1>3
  <2>4. /\ entry \in Arrays(N)
        /\ c.input + 1 \in DOMAIN entry /\ entry[c.input + 1] = data
        /\ DOMAIN before \subseteq DOMAIN entry
        /\ \A k \in DOMAIN entry \ {c.input + 1} :
              entry[k] = IF k \in DOMAIN before THEN before[k] ELSE Hole
    <3> HIDE DEF before, data
    <3> QED BY <1>1, <2>3, Written
  <2>5. ASSUME NEW d \in RealSlots(N), d.to = c.to
        PROVE  Holds(entry, d) <=> d = new \/ (d.input # c.input /\ Holds(before, d))
    <3>1. d = [to |-> d.to, input |-> d.input, data |-> d.data] /\ d.input \in Nat
          /\ d.data # Hole
      BY DEF RealSlots
    <3>2. new = [to |-> c.to, input |-> c.input, data |-> data]
      BY DEF Datum
    <3> HIDE DEF new, entry, before, data
    <3>3. CASE d.input = c.input
      BY <2>4, <2>5, <3>1, <3>2, <3>3 DEF Holds
    <3>4. CASE d.input # c.input
      <4>1. d # new /\ d.input + 1 # c.input + 1
        BY <3>1, <3>2, <3>4, <1>1
      <4> QED BY <2>4, <3>1, <3>4, <4>1 DEF Holds
    <3> QED BY <3>3, <3>4
  <2>6. lost \in SUBSET Slots(N)
    <3>1. CASE lost = {}
      BY <3>1
    <3>2. CASE lost # {}
      <4>1. index \in DOMAIN entries /\ lost = Inputs(c.to, entries[index])
        BY <3>2
      <4> HIDE DEF lost, entries, index
      <4> QED BY <4>1, <1>1, <1>3, InputsOf
    <3> QED BY <3>1, <3>2
  <2>7. ASSUME NEW d \in RealSlots(N)
        PROVE  d \in lost <=> lacking = {} /\ d.to = c.to /\ index \in InEntries(d, entries)
    <3>1. d \in Slots(N)
      BY DEF RealSlots, Slots, Values, RealData
    <3>2. CASE lacking = {} /\ index \in DOMAIN entries
      <4>1. lost = Inputs(c.to, entries[index])
        BY <3>2
      <4> HIDE DEF lost, entries, index, lacking
      <4>2. d \in lost <=> d.to = c.to /\ Holds(entries[index], d)
        BY <4>1, <3>1, <3>2, <1>1, <1>3, InputsOf
      <4> QED BY <4>2, <3>2 DEF InEntries
    <3>3. CASE lacking # {}
      BY <3>3
    <3>4. CASE index \notin DOMAIN entries
      BY <3>4 DEF InEntries
    <3> QED BY <3>2, <3>3, <3>4
  <2>8. ASSUME lacking # {} PROVE Replaces(N, x, index, entry, lost, new)
    <3>1. index \in DOMAIN entries /\ before = entries[index] /\ lost = {}
      BY <2>1, <2>8
    <3>2. c.input + 1 > Len(entries[index]) \/ ~IsData(entries[index][c.input + 1])
      BY <2>1, <2>8
    <3> HIDE DEF entries, index, before, lost, lacking, entry, new, data
    <3>3. ASSUME NEW d \in RealSlots(N), d.input = c.input PROVE ~Holds(entries[index], d)
      <4>1. d.data \notin {None, Hole}
        BY DEF RealSlots
      <4>2. entries[index] \in Arrays(N)
        BY <3>1, <1>3
      <4>3. DOMAIN entries[index] = 1..Len(entries[index]) /\ Len(entries[index]) \in Nat
        BY <4>2, LenProperties DEF Arrays
      <4> QED BY <3>2, <3>3, <4>1, <4>3, <1>1 DEF Holds, IsData
    <3>4. ASSUME NEW d \in RealSlots(N), d.to = c.to
          PROVE  Holds(entry, d) <=> d = new \/ index \in InEntries(d, entries)
      BY <2>5, <3>1, <3>3, <3>4 DEF InEntries
    <3>5. index \notin InEntries(new, entries)
      BY <1>5, <3>3 DEF InEntries
    <3>6. Replaces(N, x, index, entry, lost, new)
      BY <1>5, <2>1, <2>4, <3>1, <3>4, <3>5 DEF Replaces, entries
    <3> QED BY <3>6
  <2>9. ASSUME lacking = {} PROVE Replaces(N, x, index, entry, lost, new)
    <3>1. before = AllNull(c.to)
      BY <2>9
    <3> HIDE DEF entries, index, before, lost, entry, new, data
    <3>2. ASSUME NEW d \in RealSlots(N) PROVE ~Holds(before, d)
      BY <2>2, <3>1 DEF Holds, RealSlots
    <3>3. Replaces(N, x, index, entry, lost, new)
      <4>1. \A d \in RealSlots(N) : d.to = c.to =>
               (Holds(entry, d) <=> d = new) /\ (d \in lost <=> index \in InEntries(d, entries))
        BY <2>5, <2>7, <2>9, <3>2
      <4>2. \A d \in RealSlots(N) : d.to # c.to => d \notin lost
        BY <2>7
      <4> QED BY <1>5, <2>1, <2>4, <2>6, <4>1, <4>2 DEF Replaces, entries
    <3> QED BY <3>3
  <2>10. Replaces(N, x, index, entry, lost, new)
    BY <2>8, <2>9
  <2>11. \/ AddsEntry(x, y, c.to, index, entry, lost)
         \/ Completes(x, y, c.to, index,
               [node |-> c.to, resumed |-> FALSE, inputs |-> entry], lost)
    <3> HIDE DEF index, entry, lost, y, lacking, before
    <3> QED BY <1>4, <1>7 DEF AddsEntry, Completes
  <2> HIDE DEF index, entry, lost, y, new
  <2> QED BY <2>10, <2>11 DEF y, new
<1> QED BY <1>6, <1>7

\* Indices that move up by one, and index 1.
LEMMA Shifted ==
    ASSUME NEW S, S \subseteq Nat \ {0}, NEW T, T \subseteq Nat \ {0},
           \A i \in Nat : i + 1 \in T /\ i # 0 <=> i \in S
    PROVE  /\ 1 \notin T => (T = {} <=> S = {}) /\ (One(S) <=> One(T))
           /\ 1 \in T /\ S = {} => T # {} /\ One(T)
           /\ 1 \in T /\ One(T) => S = {}
<1>1. \A j \in T : j # 1 => j - 1 \in S /\ j - 1 \in Nat
  <2> SUFFICES ASSUME NEW j \in T, j # 1 PROVE j - 1 \in S /\ j - 1 \in Nat
    OBVIOUS
  <2>1. j - 1 \in Nat /\ (j - 1) + 1 = j /\ j - 1 # 0
    OBVIOUS
  <2> QED BY <2>1
<1>2. \A i \in S : i + 1 \in T /\ i \in Nat
  OBVIOUS
<1>3. 1 \notin T => (T = {} <=> S = {})
  BY <1>1, <1>2
<1>4. ASSUME 1 \notin T PROVE One(S) <=> One(T)
  <2>1. ASSUME One(S), NEW i \in T, NEW j \in T PROVE i = j
    <3>1. i - 1 = j - 1 /\ i \in Nat /\ j \in Nat
      BY <1>1, <1>4, <2>1 DEF One
    <3> QED BY <3>1
  <2>2. ASSUME One(T), NEW i \in S, NEW j \in S PROVE i = j
    <3>1. i + 1 = j + 1 /\ i \in Nat /\ j \in Nat
      BY <1>2, <2>2 DEF One
    <3> QED BY <3>1
  <2> QED BY <2>1, <2>2 DEF One
<1>5. ASSUME 1 \in T, S = {} PROVE T # {} /\ One(T)
  BY <1>1, <1>5 DEF One
<1>6. ASSUME 1 \in T, One(T), NEW i \in S PROVE FALSE
  <2>1. i + 1 \in T /\ i + 1 # 1
    BY <1>2
  <2> QED BY <2>1, <1>6 DEF One
<1> QED BY <1>3, <1>4, <1>5, <1>6

\* addNodeToBeExecuted() brings the datum of its connection to one place, and
\* loses or doubles nothing.
LEMMA AddNodeMoves ==
    ASSUME NEW N, GraphOver(N, graph), NEW A, A \subseteq N, NEW x \in States(N, A),
           NEW c \in graph.connections,
           {None, Hole} \cap RealData(N) = {}, None \notin N,
           c.to \in A, NEW run \in Nat, NEW runs, NEW sp
    PROVE  LET y == AddNodeToBeExecuted(x, c, run)
               new == Datum(c, run)
           IN  /\ y \in States(N, A)
               /\ \A d \in RealSlots(N) :
                     /\ d # new => Moves(d, x, y, runs, sp)
                     /\ d = new => /\ ~Lost(d, y, runs, None, sp)
                                   /\ Lost(d, x, runs, None, sp) => Unique(d, y, runs, None, sp)
<1> DEFINE y == AddNodeToBeExecuted(x, c, run)
           new == Datum(c, run)
           n == c.to
           OK(d) == /\ d # new => Moves(d, x, y, runs, sp)
                    /\ d = new => /\ ~Lost(d, y, runs, None, sp)
                                  /\ Lost(d, x, runs, None, sp) => Unique(d, y, runs, None, sp)
<1>1. /\ x.stack \in Seq(ItemsOf(N, A)) /\ x.waiting \in WaitingOf(N, A)
      /\ x.waiting \in [N -> EntryArrays(N)] /\ x.overwritten \in SUBSET Slots(N)
      /\ x = [stack |-> x.stack, waiting |-> x.waiting, overwritten |-> x.overwritten]
  BY DEF States, WaitingOf
<1>2. n \in N /\ n \in A /\ new.to = n
  BY DEF Datum
<1> HIDE DEF y, new, n
<1>3. ASSUME NEW item \in ItemsOf(N, A), item.node = n, AddsItem(x, y, n, item),
             \A d \in RealSlots(N) : d.to = n => (Holds(item.inputs, d) <=> d = new)
      PROVE  y \in States(N, A) /\ \A d \in RealSlots(N) : OK(d)
  <2>1. y = [stack |-> <<item>> \o x.stack, waiting |-> x.waiting, overwritten |-> x.overwritten]
    BY <1>1, <1>3 DEF AddsItem
  <2>2. y \in States(N, A)
    <3>1. <<item>> \o x.stack \in Seq(ItemsOf(N, A))
      BY <1>1, Pushed
    <3> QED BY <1>1, <2>1, <3>1 DEF States
  <2>3. ASSUME NEW d \in RealSlots(N) PROVE OK(d)
    <3> DEFINE S == OnStack(d, x.stack)
               T == OnStack(d, y.stack)
    <3>1. /\ S \subseteq Nat \ {0} /\ T \subseteq Nat \ {0}
          /\ \A i \in Nat : i + 1 \in T /\ i # 0 <=> i \in S
          /\ 1 \in T <=> item.node = d.to /\ Holds(item.inputs, d)
      BY <1>1, <2>1, Pushed
    <3>2. 1 \in T <=> d = new
      BY <1>2, <1>3, <3>1
    <3>3. y.waiting = x.waiting /\ y.overwritten = x.overwritten
      BY <2>1
    <3> HIDE DEF S, T
    <3>4. /\ 1 \notin T => (T = {} <=> S = {}) /\ (One(S) <=> One(T))
          /\ 1 \in T /\ S = {} => T # {} /\ One(T)
      BY <3>1, Shifted
    <3>5. One({})
      BY DEF One
    <3> QED BY <3>2, <3>3, <3>4, <3>5 DEF OK, Moves, Lost, Unique, Nowhere, InOne, S, T
  <2> QED BY <2>2, <2>3
<1>4. ASSUME NEW i, NEW entry, NEW lost, Replaces(N, x, i, entry, lost, new),
             AddsEntry(x, y, n, i, entry, lost)
      PROVE  y \in States(N, A) /\ \A d \in RealSlots(N) : OK(d)
  <2> DEFINE e == x.waiting[n]
             in == [j \in DOMAIN e \cup {i} |-> IF j = i THEN entry ELSE e[j]]
  <2>1. y = [stack |-> x.stack, waiting |-> [x.waiting EXCEPT ![n] = in],
             overwritten |-> x.overwritten \cup lost]
    BY <1>1, <1>4 DEF AddsEntry
  <2>2. e \in EntryArrays(N) /\ i \in Nat /\ entry \in Arrays(N) /\ lost \in SUBSET Slots(N)
    BY <1>1, <1>2, <1>4 DEF Replaces
  <2>3. in \in EntryArrays(N) /\ \A d : InEntries(d, in) =
           (InEntries(d, e) \ {i}) \cup (IF Holds(entry, d) THEN {i} ELSE {})
    <3>1. in = [j \in DOMAIN e \cup {i} |-> IF j = i THEN entry ELSE e[j]]
      OBVIOUS
    <3> HIDE DEF e, in
    <3> QED BY <2>2, <3>1, EntryPut
  <2> HIDE DEF in
  <2>4. /\ y.waiting \in [N -> EntryArrays(N)] /\ y.waiting[n] = in
        /\ \A m \in N : m # n => y.waiting[m] = x.waiting[m]
    BY <1>1, <1>2, <2>1, <2>3
  <2>5. y \in States(N, A)
    <3>1. y.waiting \in WaitingOf(N, A)
      BY <1>1, <1>2, <2>4 DEF WaitingOf
    <3> QED BY <1>1, <2>1, <2>2, <3>1 DEF States
  <2>6. ASSUME NEW d \in RealSlots(N) PROVE OK(d)
    <3> DEFINE W == InEntries(d, x.waiting[d.to])
               V == InEntries(d, y.waiting[d.to])
    <3>1. y.stack = x.stack /\ (d \in y.overwritten <=> d \in x.overwritten \/ d \in lost)
      BY <2>1
    <3>2. d.to \in N
      BY DEF RealSlots
    <3>3. CASE d.to # n
      <4>1. d # new /\ d \notin lost /\ y.waiting[d.to] = x.waiting[d.to]
        BY <1>2, <1>4, <2>4, <3>2, <3>3 DEF Replaces
      <4> QED BY <3>1, <4>1 DEF OK, Moves, Lost, Unique
    <3>4. CASE d.to = n
      <4>1. V = (W \ {i}) \cup (IF Holds(entry, d) THEN {i} ELSE {})
        BY <2>3, <2>4, <3>4
      <4>2. \/ /\ Holds(entry, d) <=> d = new \/ i \in W
               /\ d \notin lost /\ (d = new => i \notin W)
            \/ /\ Holds(entry, d) <=> d = new
               /\ d \in lost <=> i \in W
        BY <1>2, <1>4, <3>4 DEF Replaces
      <4> HIDE DEF W, V
      <4>3. CASE d # new
        <5>1. (i \in W /\ d \in lost /\ V = W \ {i}) \/ (V = W /\ d \notin lost)
          BY <4>1, <4>2, <4>3
        <5> QED BY <3>1, <4>3, <5>1 DEF OK, Moves, Lost, Unique, Nowhere, InOne, One, W, V
      <4>4. CASE d = new
        <5>1. i \in V /\ (W = {} => V = {i} /\ d \notin lost)
          BY <4>1, <4>2, <4>4
        <5> QED BY <3>1, <4>4, <5>1 DEF OK, Lost, Unique, Nowhere, InOne, One, W, V
      <4> QED BY <4>3, <4>4
    <3> QED BY <3>3, <3>4
  <2> QED BY <2>5, <2>6
<1>5. ASSUME NEW i, NEW entry, NEW lost, Replaces(N, x, i, entry, lost, new),
             Completes(x, y, n, i, [node |-> n, resumed |-> FALSE, inputs |-> entry], lost)
      PROVE  y \in States(N, A) /\ \A d \in RealSlots(N) : OK(d)
  <2> DEFINE e == x.waiting[n]
             out == [j \in DOMAIN e \ {i} |-> e[j]]
             item == [node |-> n, resumed |-> FALSE, inputs |-> entry]
  <2>1. y = [stack |-> <<item>> \o x.stack, waiting |-> [x.waiting EXCEPT ![n] = out],
             overwritten |-> x.overwritten \cup lost]
    BY <1>1, <1>5 DEF Completes
  <2>2. e \in EntryArrays(N) /\ i \in Nat /\ entry \in Arrays(N) /\ lost \in SUBSET Slots(N)
    BY <1>1, <1>2, <1>5 DEF Replaces
  <2>3. out \in EntryArrays(N) /\ \A d : InEntries(d, out) = InEntries(d, e) \ {i}
    <3>1. out = [j \in DOMAIN e \ {i} |-> e[j]]
      OBVIOUS
    <3> HIDE DEF e, out
    <3> QED BY <2>2, <3>1, EntryTaken
  <2>4. item \in ItemsOf(N, A) /\ item.node = n /\ item.inputs = entry
    BY <1>2, <2>2 DEF ItemsOf
  <2> HIDE DEF out, item
  <2>5. /\ y.waiting \in [N -> EntryArrays(N)] /\ y.waiting[n] = out
        /\ \A m \in N : m # n => y.waiting[m] = x.waiting[m]
    BY <1>1, <1>2, <2>1, <2>3
  <2>6. y \in States(N, A)
    <3>1. y.waiting \in WaitingOf(N, A)
      BY <1>1, <1>2, <2>5 DEF WaitingOf
    <3>2. <<item>> \o x.stack \in Seq(ItemsOf(N, A))
      BY <1>1, <2>4, Pushed
    <3> QED BY <1>1, <2>1, <2>2, <3>1, <3>2 DEF States
  <2>7. ASSUME NEW d \in RealSlots(N) PROVE OK(d)
    <3> DEFINE W == InEntries(d, x.waiting[d.to])
               V == InEntries(d, y.waiting[d.to])
               S == OnStack(d, x.stack)
               T == OnStack(d, y.stack)
    <3>1. y.stack = <<item>> \o x.stack
          /\ (d \in y.overwritten <=> d \in x.overwritten \/ d \in lost)
      BY <2>1
    <3>2. /\ S \subseteq Nat \ {0} /\ T \subseteq Nat \ {0}
          /\ \A j \in Nat : j + 1 \in T /\ j # 0 <=> j \in S
          /\ 1 \in T <=> item.node = d.to /\ Holds(item.inputs, d)
      BY <1>1, <2>4, <3>1, Pushed
    <3>3. d.to \in N
      BY DEF RealSlots
    <3> HIDE DEF S, T
    <3>4. /\ 1 \notin T => (T = {} <=> S = {}) /\ (One(S) <=> One(T))
          /\ 1 \in T /\ S = {} => T # {} /\ One(T)
      BY <3>2, Shifted
    <3>5. CASE d.to # n
      <4>1. d # new /\ d \notin lost /\ y.waiting[d.to] = x.waiting[d.to] /\ 1 \notin T
        BY <1>2, <1>5, <2>4, <2>5, <3>2, <3>3, <3>5 DEF Replaces
      <4> QED BY <3>1, <3>4, <4>1 DEF OK, Moves, Lost, Unique, Nowhere, InOne, S, T
    <3>6. CASE d.to = n
      <4>1. V = W \ {i}
        BY <2>3, <2>5, <3>6
      <4>2. \/ /\ 1 \in T <=> d = new \/ i \in W
               /\ d \notin lost /\ (d = new => i \notin W)
            \/ /\ 1 \in T <=> d = new
               /\ d \in lost <=> i \in W
        BY <1>2, <1>5, <2>4, <3>2, <3>6 DEF Replaces
      <4>3. One({})
        BY DEF One
      <4> HIDE DEF W, V
      <4>4. One(W) => One(V)
        BY <4>1 DEF One
      <4>5. CASE d # new
        <5>1. \/ i \in W /\ d \in lost /\ V = W \ {i} /\ 1 \notin T
              \/ i \in W /\ d \notin lost /\ V = W \ {i} /\ 1 \in T
              \/ V = W /\ d \notin lost /\ 1 \notin T
          BY <4>1, <4>2, <4>5
        <5>2. One(W) /\ i \in W => W \ {i} = {}
          BY DEF One
        <5> QED BY <3>1, <3>4, <4>3, <4>4, <4>5, <5>1, <5>2
                DEF OK, Moves, Lost, Unique, Nowhere, InOne, W, V, S, T
      <4>6. CASE d = new
        <5>1. 1 \in T /\ (W = {} => V = {} /\ d \notin lost)
          BY <4>1, <4>2, <4>6
        <5> QED BY <3>1, <3>4, <4>3, <4>6, <5>1 DEF OK, Lost, Unique, Nowhere, InOne, W, V, S, T
      <4> QED BY <4>5, <4>6
    <3> QED BY <3>5, <3>6
  <2> QED BY <2>6, <2>7
<1>6. y \in States(N, A) /\ \A d \in RealSlots(N) : OK(d)
  <2> HIDE DEF OK
  <2>1. \/ \E item \in ItemsOf(N, A) :
              /\ item.node = n /\ AddsItem(x, y, n, item)
              /\ \A d \in RealSlots(N) : d.to = n => (Holds(item.inputs, d) <=> d = new)
        \/ \E i, entry, lost :
              /\ Replaces(N, x, i, entry, lost, new)
              /\ \/ AddsEntry(x, y, n, i, entry, lost)
                 \/ Completes(x, y, n, i,
                       [node |-> n, resumed |-> FALSE, inputs |-> entry], lost)
    BY AddNodeCases DEF y, new, n
  <2> QED BY <2>1, <1>3, <1>4, <1>5
<1> QED BY <1>6 DEF OK, y, new

\* Different connections have different data.
LEMMA DifferentData ==
    ASSUME NEW N, NEW c \in Connections(N, Nat, Nat), NEW d \in Connections(N, Nat, Nat),
           NEW run, Datum(c, run) = Datum(d, run)
    PROVE  c = d
<1>1. /\ Datum(c, run).to = c.to /\ Datum(d, run).to = d.to
      /\ Datum(c, run).input = c.input /\ Datum(d, run).input = d.input
      /\ Datum(c, run).data.node = c.from /\ Datum(d, run).data.node = d.from
      /\ Datum(c, run).data.output = c.output /\ Datum(d, run).data.output = d.output
  BY DEF Datum
<1>2. /\ c = [from |-> c.from, output |-> c.output, to |-> c.to, input |-> c.input]
      /\ d = [from |-> d.from, output |-> d.output, to |-> d.to, input |-> d.input]
  BY DEF Connections
<1> QED BY <1>1, <1>2

\* When the connections of an order are followed, the data of each comes to one
\* place, and no other data is lost, found or doubled.
LEMMA Followed ==
    ASSUME NEW N, GraphOver(N, graph), NEW A, A \subseteq N,
           [stack |-> stack, waiting |-> waiting, overwritten |-> overwritten] \in States(N, A),
           {None, Hole} \cap RealData(N) = {}, None \notin N,
           NEW order \in Seq(graph.connections),
           \A i, j \in 1..Len(order) : order[i] = order[j] => i = j,
           \A i \in 1..Len(order) : order[i].to \in A,
           NEW run \in Nat, NEW runs, NEW sp
    PROVE  LET x == [stack |-> stack, waiting |-> waiting, overwritten |-> overwritten]
               y == Follow(order, run)
           IN  /\ y \in States(N, A)
               /\ \A d \in RealSlots(N) :
                     /\ (\A i \in 1..Len(order) : d # Datum(order[i], run))
                           => Moves(d, x, y, runs, sp)
                     /\ (\E i \in 1..Len(order) : d = Datum(order[i], run)) =>
                           /\ ~Lost(d, y, runs, None, sp)
                           /\ Lost(d, x, runs, None, sp) => Unique(d, y, runs, None, sp)
<1> DEFINE x == [stack |-> stack, waiting |-> waiting, overwritten |-> overwritten]
           n == Len(order)
           G == States(N, A)
           After(f) == f = [k \in 0..n |-> IF k = 0 THEN x
                                           ELSE AddNodeToBeExecuted(f[k - 1], order[k], run)]
           it == CHOOSE f : After(f)
           step == [p \in Nat \X G |-> IF p[1] \in 1..n
                                       THEN AddNodeToBeExecuted(p[2], order[p[1]], run) ELSE p[2]]
<1>1. n \in Nat /\ \A i \in 1..n : order[i] \in graph.connections
  BY LenProperties, ElementOfSeq
<1>2. Follow(order, run) = it[n]
  BY DEF Follow
<1> HIDE DEF x, n, G
<1>3. ASSUME NEW z \in G, NEW k \in 1..n
      PROVE  LET y == AddNodeToBeExecuted(z, order[k], run)
                 new == Datum(order[k], run)
             IN  /\ y \in G
                 /\ \A d \in RealSlots(N) :
                       /\ d # new => Moves(d, z, y, runs, sp)
                       /\ d = new => /\ ~Lost(d, y, runs, None, sp)
                                     /\ Lost(d, z, runs, None, sp) => Unique(d, y, runs, None, sp)
  <2>1. order[k] \in graph.connections /\ order[k].to \in A
    BY <1>1 DEF n
  <2> QED BY <2>1, AddNodeMoves DEF G
<1>4. step \in [Nat \X G -> G]
  <2>1. ASSUME NEW p \in Nat \X G PROVE step[p] \in G
    <3>1. p[2] \in G
      OBVIOUS
    <3>2. CASE p[1] \in 1..n
      <4>1. AddNodeToBeExecuted(p[2], order[p[1]], run) \in G
        BY <1>3, <3>1, <3>2
      <4> QED BY <3>2, <4>1
    <3>3. CASE p[1] \notin 1..n
      BY <3>1, <3>3
    <3> QED BY <3>2, <3>3
  <2> HIDE DEF step
  <2>2. step = [p \in Nat \X G |-> step[p]]
    BY DEF step
  <2> QED BY <2>1, <2>2
<1>5. \E f : After(f)
  <2> HIDE DEF step
  <2>1. x \in G
    BY DEF x, G
  <2>2. PICK f \in [0..n -> G] : Recurs(f, n, x, step)
    BY <1>1, <1>4, <2>1, Recursion
  <2>3. \A k \in 0..n : k # 0 =>
           step[<<k, f[k - 1]>>] = AddNodeToBeExecuted(f[k - 1], order[k], run)
    <3> TAKE k \in 0..n
    <3> HAVE k # 0
    <3>1. k - 1 \in 0..n /\ k \in Nat /\ k \in 1..n
      BY <1>1
    <3>2. <<k, f[k - 1]>> \in Nat \X G
      BY <3>1
    <3> QED BY <3>1, <3>2 DEF step
  <2>4. After(f)
    BY <2>2, <2>3 DEF Recurs
  <2> QED BY <2>4
<1>6. After(it)
  BY <1>5, Zenon
<1> HIDE DEF it
<1>7. /\ it[0] = x
      /\ \A k \in 1..n : it[k] = AddNodeToBeExecuted(it[k - 1], order[k], run)
  <2>1. \A k \in 0..n : it[k] = IF k = 0 THEN x
                                ELSE AddNodeToBeExecuted(it[k - 1], order[k], run)
    BY <1>6
  <2>2. 0 \in 0..n /\ \A k \in 1..n : k \in 0..n /\ k # 0
    BY <1>1
  <2> QED BY <2>1, <2>2
<1> HIDE DEF After, step
<1> DEFINE Good(k) ==
               /\ it[k] \in G
               /\ \A d \in RealSlots(N) :
                     /\ (\A i \in 1..k : d # Datum(order[i], run)) => Moves(d, x, it[k], runs, sp)
                     /\ (\E i \in 1..k : d = Datum(order[i], run)) =>
                           /\ ~Lost(d, it[k], runs, None, sp)
                           /\ Lost(d, x, runs, None, sp) => Unique(d, it[k], runs, None, sp)
           bad == {k \in 0..n : ~Good(k)}
<1>8. Good(0)
  <2>1. it[0] \in G
    BY <1>7 DEF x, G
  <2>2. \A d \in RealSlots(N) : Moves(d, x, it[0], runs, sp)
    BY <1>7 DEF Moves
  <2> QED BY <2>1, <2>2
<1>9. ASSUME NEW k \in 1..n, Good(k - 1) PROVE Good(k)
  <2> DEFINE z == it[k - 1]
             y == it[k]
  <2>1. z \in G /\ y = AddNodeToBeExecuted(z, order[k], run) /\ k - 1 \in Nat /\ k \in Nat
    BY <1>1, <1>7, <1>9
  <2>2. /\ y \in G
        /\ \A d \in RealSlots(N) :
              /\ d # Datum(order[k], run) => Moves(d, z, y, runs, sp)
              /\ d = Datum(order[k], run) =>
                    /\ ~Lost(d, y, runs, None, sp)
                    /\ Lost(d, z, runs, None, sp) => Unique(d, y, runs, None, sp)
    BY <1>3, <2>1
  <2>3. \A i \in 1..(k - 1) : Datum(order[i], run) # Datum(order[k], run)
    <3> TAKE i \in 1..(k - 1)
    <3>1. i \in 1..n /\ i # k
      BY <1>1
    <3>2. order[i] # order[k]
      BY <3>1 DEF n
    <3>3. order[i] \in Connections(N, Nat, Nat) /\ order[k] \in Connections(N, Nat, Nat)
      BY <1>1, <3>1 DEF GraphOver
    <3> QED BY <3>2, <3>3, DifferentData
  <2>4. \A i \in Nat : i \in 1..k <=> i \in 1..(k - 1) \/ i = k
    BY <2>1
  <2> HIDE DEF z, y
  <2>5. ASSUME NEW d \in RealSlots(N), \A i \in 1..k : d # Datum(order[i], run)
        PROVE  Moves(d, x, y, runs, sp)
    <3>1. Moves(d, x, z, runs, sp)
      BY <1>9, <2>4, <2>5 DEF z
    <3>2. k \in 1..k
      BY <2>1
    <3>3. Moves(d, z, y, runs, sp)
      BY <2>2, <2>5, <3>2
    <3> QED BY <3>1, <3>3 DEF Moves
  <2>6. ASSUME NEW d \in RealSlots(N), NEW i \in 1..k, d = Datum(order[i], run)
        PROVE  /\ ~Lost(d, y, runs, None, sp)
               /\ Lost(d, x, runs, None, sp) => Unique(d, y, runs, None, sp)
    <3>1. CASE i = k
      <4>1. \A j \in 1..(k - 1) : d # Datum(order[j], run)
        BY <2>3, <2>6, <3>1
      <4>2. Moves(d, x, z, runs, sp)
        BY <1>9, <4>1 DEF z
      <4> QED BY <2>2, <2>6, <3>1, <4>2 DEF Moves
    <3>2. CASE i # k
      <4>1. i \in 1..(k - 1) /\ d # Datum(order[k], run)
        BY <2>1, <2>3, <2>6, <3>2
      <4>2. /\ ~Lost(d, z, runs, None, sp)
            /\ Lost(d, x, runs, None, sp) => Unique(d, z, runs, None, sp)
        BY <1>9, <2>6, <4>1 DEF z
      <4>3. Moves(d, z, y, runs, sp)
        BY <2>2, <4>1
      <4> QED BY <4>2, <4>3 DEF Moves
    <3> QED BY <3>1, <3>2
  <2> QED BY <2>2, <2>5, <2>6 DEF y
<1>10. bad = {}
  <2> HIDE DEF Good
  <2> SUFFICES ASSUME bad # {} PROVE FALSE
    OBVIOUS
  <2>1. bad \subseteq Nat
    BY <1>1
  <2>2. PICK k \in bad : \A j \in bad : k <= j
    BY <2>1, LeastNumber
  <2>3. k \in 1..n
    BY <2>2, <1>1, <1>8
  <2>4. k - 1 \in 0..n /\ ~(k <= k - 1)
    BY <2>3, <1>1
  <2>5. Good(k - 1)
    BY <2>2, <2>4
  <2> QED BY <1>9, <2>2, <2>3, <2>5
<1>11. Good(n)
  <2> HIDE DEF Good
  <2>1. n \in 0..n
    BY <1>1
  <2> QED BY <1>10, <2>1
<1> QED BY <1>2, <1>11 DEF n, G, x

-----------------------------------------------------------------------------
(* The data of an execution *)

State == [stack |-> stack, waiting |-> waiting, overwritten |-> overwritten]

\* The nodes that an execution may run: those at or below a start node.
Active == IF executions = 1 THEN Nodes
          ELSE UNION {{s} \cup Children(graph, s) : s \in started}

RunsOf(N) == [inputs : Arrays(N), out : SUBSET Nat, status : {"success", "error", "waiting"}]

\* What is run, or waits, is active; an execution that waits has the run that
\* was put to wait at the head of its stack.
DataTypes ==
    /\ State \in States(Nodes, Active)
    /\ current \in ItemsOf(Nodes, Active) \cup {None}
    /\ runData \in [Nodes -> Seq(RunsOf(Nodes))]
    /\ executions \in Nat \ {0}
    /\ started \subseteq graph.nodes /\ (executions = 1 => started = {})
    /\ status = "waiting" => /\ current = None /\ stack # <<>>
                             /\ runData[Head(stack).node] # <<>>
                             /\ Last(runData[Head(stack).node]).status = "waiting"

\* A run that succeeded.
Made(runs, n, run) == run + 1 \in DOMAIN runs[n] /\ runs[n][run + 1].status = "success"

LostNow(d) == Lost(d, State, runData, current, spent)
UniqueNow(d) == Unique(d, State, runData, current, spent)

\* Data of active nodes is where it was delivered only once it was made, other
\* than what is given twice.
DataKnown ==
    \A c \in graph.connections \ GivenTwice, run \in Nat :
        c.from \in Active /\ ~LostNow(Datum(c, run)) => Made(runData, c.from, run)

\* What was made is in one place, or in some place if it is given twice.
DataPlaced ==
    \A c \in graph.connections, run \in Nat :
        /\ c.from # destination
        /\ run >= kept[c.from] /\ Made(runData, c.from, run)
        /\ c.output \in runData[c.from][run + 1].out
        => ~LostNow(Datum(c, run)) /\ (c \in GivenTwice \/ UniqueNow(Datum(c, run)))

DInv == IInv /\ DataTypes /\ DataKnown /\ DataPlaced /\ kept \in [Nodes -> Nat]

\* Facts about the workflow that the steps rely on.
LEMMA WorkflowFacts ==
    ASSUME IInv, started \subseteq graph.nodes
    PROVE  /\ GraphOver(Nodes, graph) /\ IsFiniteSet(Nodes)
           /\ {None, Hole} \cap RealData(Nodes) = {} /\ None \notin Nodes
           /\ \A A \in SUBSET Nodes : None \notin ItemsOf(Nodes, A)
           /\ Active \subseteq Nodes
           /\ \A c \in graph.connections : c \in Connections(Nodes, Nat, Nat)
           /\ \A c \in graph.connections, run \in Nat : Datum(c, run) \in RealSlots(Nodes)
<1>1. workflow \in Workflows /\ GraphOver(Nodes, graph)
  BY DEF IInv
<1>2. /\ IsFiniteSet(Nodes) /\ None \notin Nodes \cup StackItems(Nodes)
      /\ {None, Hole} \cap RealData(Nodes) = {}
  BY <1>1, WorkflowAssumption, NoneAssumption DEF Nodes, RealData
<1>3. \A A \in SUBSET Nodes : ItemsOf(Nodes, A) \subseteq StackItems(Nodes)
  BY DEF ItemsOf, StackItems, Arrays
<1>4. \A c \in graph.connections : c \in Connections(Nodes, Nat, Nat)
  BY <1>1 DEF GraphOver
<1>5. \A c \in graph.connections, run \in Nat : Datum(c, run) \in RealSlots(Nodes)
  BY <1>4 DEF Connections, Datum, RealSlots, RealData
<1>6. Active \subseteq Nodes
  <2>1. \A s : Children(graph, s) \subseteq graph.nodes
    BY <1>1, ChildrenClosed DEF GraphOver
  <2>2. graph.nodes \subseteq Nodes
    BY <1>1 DEF GraphOver
  <2> QED BY <2>1, <2>2 DEF Active
<1> QED BY <1>1, <1>2, <1>3, <1>4, <1>5, <1>6

\* What does not change within an execution.
LEMMA SameExecution ==
    ASSUME UNCHANGED <<workflow, execVars, executions>>
    PROVE  /\ Nodes' = Nodes /\ Active' = Active /\ GivenTwice' = GivenTwice
           /\ UNCHANGED <<workflow, graph, destination, started, kept, executions>>
<1>1. UNCHANGED <<workflow, graph, destination, started, kept, executions>>
  BY DEF execVars
<1> QED BY <1>1 DEF Nodes, Active, GivenTwice

\* A step of an execution that moves data and makes none.
LEMMA QuietStep ==
    ASSUME DInv, UNCHANGED <<workflow, execVars, executions>>,
           \A n \in Nodes, run \in Nat :
              /\ Made(runData', n, run) <=> Made(runData, n, run)
              /\ Made(runData, n, run) => runData'[n][run + 1].out = runData[n][run + 1].out,
           \A d \in RealSlots(Nodes) : /\ LostNow(d)' <=> LostNow(d)
                                       /\ UniqueNow(d) => UniqueNow(d)'
    PROVE  DataKnown' /\ DataPlaced'
<1>1. /\ Nodes' = Nodes /\ Active' = Active /\ GivenTwice' = GivenTwice
      /\ UNCHANGED <<graph, destination, kept>>
  BY SameExecution
<1>2. /\ \A c \in graph.connections : c.from \in Nodes
      /\ \A c \in graph.connections, run \in Nat : Datum(c, run) \in RealSlots(Nodes)
  <2>1. started \subseteq graph.nodes
    BY DEF DInv, DataTypes
  <2> QED BY <2>1, WorkflowFacts DEF DInv, Connections
<1>3. DataKnown'
  <2> SUFFICES ASSUME NEW c \in graph.connections, c \notin GivenTwice, NEW run \in Nat,
                      c.from \in Active, ~LostNow(Datum(c, run))'
               PROVE  Made(runData', c.from, run)
    BY <1>1 DEF DataKnown
  <2>1. ~LostNow(Datum(c, run))
    BY <1>2
  <2> QED BY <1>2, <2>1 DEF DInv, DataKnown
<1>4. DataPlaced'
  <2> SUFFICES ASSUME NEW c \in graph.connections, NEW run \in Nat, c.from # destination,
                      run >= kept[c.from], Made(runData', c.from, run),
                      c.output \in runData'[c.from][run + 1].out
               PROVE  /\ ~LostNow(Datum(c, run))'
                      /\ c \in GivenTwice \/ UniqueNow(Datum(c, run))'
    BY <1>1 DEF DataPlaced
  <2>1. Made(runData, c.from, run) /\ c.output \in runData[c.from][run + 1].out
    BY <1>2
  <2>2. ~LostNow(Datum(c, run)) /\ (c \in GivenTwice \/ UniqueNow(Datum(c, run)))
    BY <2>1 DEF DInv, DataPlaced
  <2> QED BY <1>2, <2>2
<1> QED BY <1>3, <1>4

\* The item at the head of the stack, and what is below it.
LEMMA HeadIndices ==
    ASSUME NEW T, NEW st \in Seq(T), st # <<>>, NEW d
    PROVE  /\ Head(st) \in T /\ Tail(st) \in Seq(T) /\ 1 \in DOMAIN st /\ st[1] = Head(st)
           /\ OnStack(d, st) \subseteq Nat \ {0} /\ OnStack(d, Tail(st)) \subseteq Nat \ {0}
           /\ \A i \in Nat : i + 1 \in OnStack(d, st) /\ i # 0 <=> i \in OnStack(d, Tail(st))
           /\ 1 \in OnStack(d, st) <=> Head(st).node = d.to /\ Holds(Head(st).inputs, d)
<1>1. Head(st) \in T /\ Tail(st) \in Seq(T) /\ 1 \in DOMAIN st /\ st[1] = Head(st)
  <2>1. Len(st) \in Nat \ {0} /\ DOMAIN st = 1..Len(st)
    BY EmptySeq, LenProperties
  <2> QED BY <2>1, HeadTailProperties
<1>2. <<Head(st)>> \o Tail(st) = st
  BY <1>1
<1>3. /\ \A i \in Nat : i + 1 \in OnStack(d, <<Head(st)>> \o Tail(st)) /\ i # 0
                           <=> i \in OnStack(d, Tail(st))
      /\ 1 \in OnStack(d, <<Head(st)>> \o Tail(st))
            <=> Head(st).node = d.to /\ Holds(Head(st).inputs, d)
      /\ OnStack(d, Tail(st)) \subseteq Nat \ {0}
      /\ OnStack(d, <<Head(st)>> \o Tail(st)) \subseteq Nat \ {0}
  BY <1>1, Pushed
<1> QED BY <1>1, <1>2, <1>3

\* A node taken from the stack is run, or what it has is spent.
LEMMA TakeNodeData ==
    ASSUME DInv, TakeNode
    PROVE  (DataTypes /\ DataKnown /\ DataPlaced)'
<1> DEFINE item == Head(stack)
<1>1. /\ status = "running" /\ current = None /\ stack # <<>> /\ stack' = Tail(stack)
      /\ \/ current' = item /\ spent' = spent
         \/ current' = None /\ spent' = spent \cup Inputs(item.node, item.inputs)
      /\ UNCHANGED <<workflow, execVars, waiting, runData, status, counters, overwritten>>
  BY DEF TakeNode
<1>2. UNCHANGED <<workflow, execVars, executions>> /\ Nodes' = Nodes /\ Active' = Active
      /\ UNCHANGED <<graph, started, executions, status, runData, overwritten, waiting>>
  <2>1. UNCHANGED <<workflow, execVars, executions>>
    BY <1>1 DEF counters
  <2> QED BY <1>1, <2>1, SameExecution
<1>3. /\ stack \in Seq(ItemsOf(Nodes, Active)) /\ State \in States(Nodes, Active)
      /\ Active \subseteq Nodes /\ None \notin ItemsOf(Nodes, Active)
  <2>1. started \subseteq graph.nodes /\ State \in States(Nodes, Active)
    BY DEF DInv, DataTypes
  <2> QED BY <2>1, WorkflowFacts DEF DInv, States, State
<1>4. item \in ItemsOf(Nodes, Active) /\ Tail(stack) \in Seq(ItemsOf(Nodes, Active))
      /\ item # None
  BY <1>1, <1>3, HeadIndices
<1>5. DataTypes'
  <2>1. State' = [stack |-> Tail(stack), waiting |-> waiting, overwritten |-> overwritten]
    BY <1>1, <1>2 DEF State
  <2>2. State' \in States(Nodes, Active)
    BY <1>3, <1>4, <2>1 DEF States, State
  <2>3. current' \in ItemsOf(Nodes, Active) \cup {None}
    BY <1>1, <1>4
  <2>4. status' # "waiting"
    BY <1>1, <1>2
  <2> QED BY <1>2, <2>2, <2>3, <2>4 DEF DInv, DataTypes
<1>6. ASSUME NEW d \in RealSlots(Nodes)
      PROVE  (LostNow(d)' <=> LostNow(d)) /\ (UniqueNow(d) => UniqueNow(d)')
  <2> DEFINE S == OnStack(d, Tail(stack))
             T == OnStack(d, stack)
             held == item.node = d.to /\ Holds(item.inputs, d)
  <2>1. /\ S \subseteq Nat \ {0} /\ T \subseteq Nat \ {0}
        /\ \A i \in Nat : i + 1 \in T /\ i # 0 <=> i \in S
        /\ 1 \in T <=> held
    BY <1>1, <1>3, HeadIndices
  <2>2. d \in Inputs(item.node, item.inputs) <=> held
    <3>1. d \in Slots(Nodes)
      BY DEF RealSlots, Slots, Values, RealData
    <3>2. item.node \in Nodes /\ item.inputs \in Arrays(Nodes)
      BY <1>3, <1>4 DEF ItemsOf
    <3> QED BY <3>1, <3>2, InputsOf
  <2>3. \/ (current' # None /\ current'.node = d.to /\ Holds(current'.inputs, d) <=> held)
           /\ (d \in spent' <=> d \in spent)
        \/ current' = None /\ (d \in spent' <=> d \in spent \/ held)
    <3>1. CASE current' = item /\ spent' = spent
      <4>1. current' # None /\ current'.node = item.node /\ current'.inputs = item.inputs
        BY <1>4, <3>1
      <4> HIDE DEF item
      <4> QED BY <3>1, <4>1
    <3>2. CASE current' = None /\ spent' = spent \cup Inputs(item.node, item.inputs)
      <4> HIDE DEF held, item
      <4> QED BY <2>2, <3>2
    <3> QED BY <1>1, <3>1, <3>2
  <2> HIDE DEF S, T, held
  <2>4. /\ 1 \notin T => (T = {} <=> S = {}) /\ (One(S) <=> One(T))
        /\ 1 \in T /\ One(T) => S = {}
    BY <2>1, Shifted
  <2>5. One({})
    BY DEF One
  <2>6. State'.stack = Tail(stack) /\ State.stack = stack
        /\ State'.waiting = State.waiting /\ State'.overwritten = State.overwritten
    BY <1>1, <1>2 DEF State
  <2> QED BY <1>1, <1>2, <2>1, <2>3, <2>4, <2>5, <2>6
          DEF LostNow, UniqueNow, Lost, Unique, Nowhere, InOne, S, T
<1>7. DataKnown' /\ DataPlaced'
  BY <1>2, <1>6, QuietStep
<1> QED BY <1>5, <1>7

\* Types that all steps rely on.
LEMMA DataFacts ==
    ASSUME DInv
    PROVE  /\ stack \in Seq(ItemsOf(Nodes, Active)) /\ waiting \in WaitingOf(Nodes, Active)
           /\ overwritten \in SUBSET Slots(Nodes)
           /\ Active \subseteq Nodes /\ None \notin ItemsOf(Nodes, Active)
           /\ ItemsOf(Nodes, Active) \subseteq ItemsOf(Nodes, Nodes)
           /\ runData \in [Nodes -> Seq(RunsOf(Nodes))]
           /\ current # None => current \in ItemsOf(Nodes, Active)
           /\ GraphOver(Nodes, graph)
           /\ {None, Hole} \cap RealData(Nodes) = {} /\ None \notin Nodes
           /\ \A c \in graph.connections : c \in Connections(Nodes, Nat, Nat)
           /\ \A c \in graph.connections, run \in Nat : Datum(c, run) \in RealSlots(Nodes)
<1>1. started \subseteq graph.nodes /\ State \in States(Nodes, Active)
      /\ runData \in [Nodes -> Seq(RunsOf(Nodes))]
      /\ current \in ItemsOf(Nodes, Active) \cup {None} /\ IInv
  BY DEF DInv, DataTypes
<1>2. /\ Active \subseteq Nodes /\ None \notin ItemsOf(Nodes, Active)
      /\ GraphOver(Nodes, graph)
      /\ {None, Hole} \cap RealData(Nodes) = {} /\ None \notin Nodes
      /\ \A c \in graph.connections : c \in Connections(Nodes, Nat, Nat)
      /\ \A c \in graph.connections, run \in Nat : Datum(c, run) \in RealSlots(Nodes)
  BY <1>1, WorkflowFacts
<1>3. ItemsOf(Nodes, Active) \subseteq ItemsOf(Nodes, Nodes)
  BY <1>2 DEF ItemsOf
<1>4. stack \in Seq(ItemsOf(Nodes, Active)) /\ waiting \in WaitingOf(Nodes, Active)
      /\ overwritten \in SUBSET Slots(Nodes)
  BY <1>1 DEF States, State
<1> QED BY <1>1, <1>2, <1>3, <1>4

\* A run at the end adds its own inputs if it succeeded, and takes nothing.
LEMMA RunAppended ==
    ASSUME NEW N, NEW runs \in Seq(RunsOf(N)), NEW r \in RunsOf(N)
    PROVE  /\ Append(runs, r) \in Seq(RunsOf(N)) /\ Append(runs, r) # <<>>
           /\ Last(Append(runs, r)) = r
           /\ DOMAIN Append(runs, r) = DOMAIN runs \cup {Len(runs) + 1}
           /\ Len(runs) \in Nat /\ Len(runs) + 1 \notin DOMAIN runs
           /\ \A k \in DOMAIN runs : k \in Nat \ {0} /\ Append(runs, r)[k] = runs[k]
           /\ Append(runs, r)[Len(runs) + 1] = r
           /\ \A d : InRuns(d, Append(runs, r)) = InRuns(d, runs) \cup
                 (IF r.status = "success" /\ Holds(r.inputs, d) THEN {Len(runs) + 1} ELSE {})
<1>1. /\ Len(runs) \in Nat /\ DOMAIN runs = 1..Len(runs)
      /\ Append(runs, r) \in Seq(RunsOf(N)) /\ Len(Append(runs, r)) = Len(runs) + 1
      /\ \A k \in 1..Len(runs) : Append(runs, r)[k] = runs[k]
      /\ Append(runs, r)[Len(runs) + 1] = r
  OBVIOUS
<1>2. DOMAIN Append(runs, r) = DOMAIN runs \cup {Len(runs) + 1}
  BY <1>1
<1>3. Append(runs, r) # <<>> /\ Last(Append(runs, r)) = r
  BY <1>1 DEF Last
<1>4. \A d : InRuns(d, Append(runs, r)) = InRuns(d, runs) \cup
         (IF r.status = "success" /\ Holds(r.inputs, d) THEN {Len(runs) + 1} ELSE {})
  <2> DEFINE a == Append(runs, r)
             m == Len(runs) + 1
  <2>1. a[m] = r /\ DOMAIN a = DOMAIN runs \cup {m} /\ \A k \in DOMAIN runs : a[k] = runs[k]
    BY <1>1, <1>2
  <2>2. m \notin DOMAIN runs
    BY <1>1
  <2> HIDE DEF a, m
  <2>3. \A d : InRuns(d, a) = InRuns(d, runs) \cup
           (IF r.status = "success" /\ Holds(r.inputs, d) THEN {m} ELSE {})
    BY <2>1, <2>2 DEF InRuns
  <2> QED BY <2>3 DEF a, m
<1> QED BY <1>1, <1>2, <1>3, <1>4

\* What a node that returns nothing has is spent.
LEMMA ReturnNothingData ==
    ASSUME DInv, ReturnNothing
    PROVE  (DataTypes /\ DataKnown /\ DataPlaced)'
<1>1. /\ current # None /\ current' = None
      /\ spent' = spent \cup Inputs(current.node, current.inputs)
      /\ UNCHANGED <<workflow, execVars, stack, waiting, runData, status, counters, overwritten>>
  BY DEF ReturnNothing
<1>2. UNCHANGED <<workflow, execVars, executions>> /\ Nodes' = Nodes /\ Active' = Active
      /\ UNCHANGED <<graph, started, executions, status, runData, State, stack>>
  <2>1. UNCHANGED <<workflow, execVars, executions>> /\ State' = State
    BY <1>1 DEF counters, State
  <2> QED BY <1>1, <2>1, SameExecution
<1>3. current \in ItemsOf(Nodes, Active) /\ current.node \in Nodes
      /\ current.inputs \in Arrays(Nodes)
  BY <1>1, DataFacts DEF ItemsOf
<1>4. DataTypes'
  BY <1>1, <1>2 DEF DInv, DataTypes
<1>5. ASSUME NEW d \in RealSlots(Nodes)
      PROVE  (LostNow(d)' <=> LostNow(d)) /\ (UniqueNow(d) => UniqueNow(d)')
  <2>1. d \in Slots(Nodes)
    BY DEF RealSlots, Slots, Values, RealData
  <2>2. d \in spent' <=> d \in spent \/ (current.node = d.to /\ Holds(current.inputs, d))
    BY <1>1, <1>3, <2>1, InputsOf
  <2> QED BY <1>1, <1>2, <2>2 DEF LostNow, UniqueNow, Lost, Unique, Nowhere, InOne
<1>6. DataKnown' /\ DataPlaced'
  BY <1>2, <1>5, QuietStep
<1> QED BY <1>4, <1>6

\* A node that fails or waits goes back to the stack with all it has.
LEMMA StopData ==
    ASSUME DInv, NEW newStatus \in {"error", "waiting"}, current # None, Stop(newStatus),
           UNCHANGED executions
    PROVE  (DataTypes /\ DataKnown /\ DataPlaced)'
<1> DEFINE n == current.node
           r == [inputs |-> current.inputs, out |-> {}, status |-> newStatus]
<1>1. /\ current' = None /\ stack' = <<current>> \o stack
      /\ runData' = [runData EXCEPT ![n] = Append(@, r)]
      /\ status' = IF status = "running" THEN newStatus ELSE status
      /\ UNCHANGED <<workflow, execVars, waiting, executions, spent, overwritten>>
  BY DEF Stop
<1>2. UNCHANGED <<workflow, execVars, executions>> /\ Nodes' = Nodes /\ Active' = Active
      /\ UNCHANGED <<graph, started, executions>>
  <2>1. UNCHANGED <<workflow, execVars, executions>>
    BY <1>1
  <2> QED BY <2>1, SameExecution
<1>3. current \in ItemsOf(Nodes, Active) /\ n \in Nodes /\ r \in RunsOf(Nodes)
      /\ r.status = newStatus /\ r.status # "success"
  <2>1. current \in ItemsOf(Nodes, Active) /\ n \in Nodes /\ current.inputs \in Arrays(Nodes)
    BY DataFacts DEF ItemsOf
  <2> QED BY <2>1 DEF RunsOf
<1> HIDE DEF r
<1>4. /\ runData \in [Nodes -> Seq(RunsOf(Nodes))] /\ runData[n] \in Seq(RunsOf(Nodes))
      /\ runData'[n] = Append(runData[n], r)
      /\ \A m \in Nodes : m # n => runData'[m] = runData[m]
  BY <1>1, <1>3, DataFacts
<1>5. runData' \in [Nodes -> Seq(RunsOf(Nodes))]
  BY <1>1, <1>3, <1>4, RunAppended
<1>6. /\ stack' \in Seq(ItemsOf(Nodes, Active)) /\ stack' # <<>> /\ Head(stack') = current
  <2>1. stack \in Seq(ItemsOf(Nodes, Active))
    BY DataFacts
  <2> QED BY <1>1, <1>3, <2>1
<1>7. DataTypes'
  <2>1. State' \in States(Nodes, Active)
    BY <1>1, <1>6, DataFacts DEF States, State
  <2>2. status # "waiting"
    BY DEF DInv, DataTypes
  <2>3. status' = "waiting" => runData'[n] # <<>> /\ Last(runData'[n]).status = "waiting"
    <3>1. runData'[n] # <<>> /\ Last(runData'[n]) = r
      BY <1>3, <1>4, RunAppended
    <3>2. status' = "waiting" => newStatus = "waiting"
      BY <1>1, <2>2
    <3> QED BY <1>3, <3>1, <3>2
  <2> QED BY <1>1, <1>2, <1>5, <1>6, <2>1, <2>3 DEF DInv, DataTypes
<1>8. ASSUME NEW m \in Nodes, NEW run \in Nat
      PROVE  /\ Made(runData', m, run) <=> Made(runData, m, run)
             /\ Made(runData, m, run) => runData'[m][run + 1].out = runData[m][run + 1].out
  <2>1. CASE m # n
    BY <1>4, <2>1 DEF Made
  <2>2. CASE m = n
    <3>1. /\ DOMAIN runData'[n] = DOMAIN runData[n] \cup {Len(runData[n]) + 1}
          /\ Len(runData[n]) + 1 \notin DOMAIN runData[n]
          /\ \A k \in DOMAIN runData[n] : runData'[n][k] = runData[n][k]
          /\ runData'[n][Len(runData[n]) + 1] = r
      BY <1>3, <1>4, RunAppended
    <3> QED BY <1>3, <2>2, <3>1 DEF Made
  <2> QED BY <2>1, <2>2
<1>9. ASSUME NEW d \in RealSlots(Nodes)
      PROVE  (LostNow(d)' <=> LostNow(d)) /\ (UniqueNow(d) => UniqueNow(d)')
  <2> DEFINE S == OnStack(d, stack)
             T == OnStack(d, stack')
             held == current.node = d.to /\ Holds(current.inputs, d)
  <2>1. /\ S \subseteq Nat \ {0} /\ T \subseteq Nat \ {0}
        /\ \A i \in Nat : i + 1 \in T /\ i # 0 <=> i \in S
        /\ 1 \in T <=> held
    BY <1>1, <1>3, DataFacts, Pushed
  <2>2. InRuns(d, runData'[d.to]) = InRuns(d, runData[d.to])
    <3>1. d.to \in Nodes
      BY DEF RealSlots
    <3>2. InRuns(d, Append(runData[n], r)) = InRuns(d, runData[n])
      <4>1. InRuns(d, Append(runData[n], r)) = InRuns(d, runData[n]) \cup
               (IF r.status = "success" /\ Holds(r.inputs, d) THEN {Len(runData[n]) + 1} ELSE {})
        BY <1>3, <1>4, RunAppended
      <4> QED BY <1>3, <4>1
    <3> QED BY <1>4, <3>1, <3>2
  <2> HIDE DEF S, T, held
  <2>3. /\ 1 \notin T => (T = {} <=> S = {}) /\ (One(S) <=> One(T))
        /\ 1 \in T /\ S = {} => T # {} /\ One(T)
    BY <2>1, Shifted
  <2>4. State'.stack = stack' /\ State.stack = stack
        /\ State'.waiting = State.waiting /\ State'.overwritten = State.overwritten
    BY <1>1, <1>2 DEF State
  <2>5. One({})
    BY DEF One
  <2>6. current # None /\ current.node = d.to /\ Holds(current.inputs, d) <=> held
    BY DEF held
  <2> QED BY <1>1, <2>1, <2>2, <2>3, <2>4, <2>5, <2>6
          DEF LostNow, UniqueNow, Lost, Unique, Nowhere, InOne, S, T
<1>10. DataKnown' /\ DataPlaced'
  BY <1>2, <1>8, <1>9, QuietStep
<1> QED BY <1>7, <1>10

\* Saving an array changes no data.
LEMMA SavedArrays ==
    ASSUME NEW N, {None, Hole} \cap RealData(N) = {}, NEW array \in Arrays(N)
    PROVE  /\ Saved(array) \in Arrays(N)
           /\ \A d \in RealSlots(N) : Holds(Saved(array), d) <=> Holds(array, d)
<1>1. /\ Len(array) \in Nat /\ DOMAIN array = 1..Len(array)
      /\ \A i \in DOMAIN array : array[i] \in Values(N)
  BY DEF Arrays
<1>2. None \in Values(N)
  BY DEF Values
<1>3. Saved(array) \in [1..Len(array) -> Values(N)]
  BY <1>1, <1>2 DEF Saved
<1>4. Saved(array) \in Arrays(N)
  BY <1>1, <1>3, SeqDef DEF Arrays
<1>5. ASSUME NEW d \in RealSlots(N) PROVE Holds(Saved(array), d) <=> Holds(array, d)
  <2>1. d.data # None /\ d.data # Hole
    BY DEF RealSlots
  <2>2. DOMAIN Saved(array) = DOMAIN array
        /\ \A i \in DOMAIN array :
              Saved(array)[i] = IF array[i] = Hole THEN None ELSE array[i]
    BY DEF Saved
  <2> QED BY <2>1, <2>2 DEF Holds
<1> QED BY <1>4, <1>5

\* The last run is taken back.
LEMMA RunTakenBack ==
    ASSUME NEW N, NEW runs \in Seq(RunsOf(N)), runs # <<>>, Last(runs).status = "waiting"
    PROVE  /\ Front(runs) \in Seq(RunsOf(N))
           /\ DOMAIN Front(runs) = DOMAIN runs \ {Len(runs)}
           /\ \A k \in DOMAIN Front(runs) : Front(runs)[k] = runs[k]
           /\ runs[Len(runs)].status # "success"
           /\ \A d : InRuns(d, Front(runs)) = InRuns(d, runs)
<1> DEFINE n == Len(runs)
<1>1. n \in Nat \ {0} /\ DOMAIN runs = 1..n /\ \A i \in 1..n : runs[i] \in RunsOf(N)
  BY EmptySeq, LenProperties, ElementOfSeq
<1> HIDE DEF n
<1>2. Front(runs) = SubSeq(runs, 1, n - 1)
  BY DEF Front, n
<1>3. /\ Front(runs) \in Seq(RunsOf(N))
      /\ Len(Front(runs)) = IF 1 <= n - 1 THEN n - 1 - 1 + 1 ELSE 0
      /\ \A i \in 1..(n - 1 - 1 + 1) : Front(runs)[i] = runs[1 + i - 1]
  <2>1. 1 \in Int /\ n - 1 \in Int /\ \A i \in 1..(n - 1) : runs[i] \in RunsOf(N)
    BY <1>1
  <2> QED BY <1>2, <2>1, SubSeqProperties
<1>4. Len(Front(runs)) = n - 1
  BY <1>1, <1>3
<1>5. DOMAIN Front(runs) = 1..(n - 1)
  BY <1>3, <1>4, LenProperties
<1>6. \A k \in 1..(n - 1) : Front(runs)[k] = runs[k]
  BY <1>1, <1>3
<1>7. DOMAIN Front(runs) = DOMAIN runs \ {n}
  BY <1>1, <1>5
<1>8. runs[n].status # "success"
  BY DEF Last, n
<1>9. \A d : InRuns(d, Front(runs)) = InRuns(d, runs)
  BY <1>5, <1>6, <1>7, <1>8 DEF InRuns
<1> QED BY <1>3, <1>5, <1>6, <1>7, <1>8, <1>9 DEF n

\* An item with another flag and other inputs.
LEMMA ItemChanged ==
    ASSUME NEW A, NEW C, NEW x \in [node : A, resumed : BOOLEAN, inputs : C],
           NEW s \in BOOLEAN, NEW b \in C, NEW y, y = [x EXCEPT !.resumed = s, !.inputs = b]
    PROVE  y \in [node : A, resumed : BOOLEAN, inputs : C] /\ y.node = x.node /\ y.inputs = b
  OBVIOUS

\* What was saved with an execution is what it resumes with.
LEMMA ResumeData ==
    ASSUME DInv, Resume
    PROVE  (DataTypes /\ DataKnown /\ DataPlaced)'
<1> DEFINE n == Head(stack).node
           Item(i) == [stack[i] EXCEPT !.resumed = @ \/ stack[i].node = n, !.inputs = Saved(@)]
<1>1. /\ status = "waiting" /\ status' = "running"
      /\ stack' = [i \in DOMAIN stack |-> Item(i)]
      /\ waiting' = [m \in Nodes |-> [i \in DOMAIN waiting[m] |-> Saved(waiting[m][i])]]
      /\ runData' = [runData EXCEPT ![n] = Front(@)]
      /\ UNCHANGED <<workflow, execVars, current, counters, spent, overwritten>>
  BY DEF Resume
<1>2. UNCHANGED <<workflow, execVars, executions>> /\ Nodes' = Nodes /\ Active' = Active
      /\ UNCHANGED <<graph, started, executions>>
  <2>1. UNCHANGED <<workflow, execVars, executions>>
    BY <1>1 DEF counters
  <2> QED BY <2>1, SameExecution
<1>3. /\ current = None /\ stack # <<>>
      /\ runData[n] # <<>> /\ Last(runData[n]).status = "waiting"
  BY <1>1 DEF DInv, DataTypes
<1>4. /\ stack \in Seq(ItemsOf(Nodes, Active)) /\ waiting \in WaitingOf(Nodes, Active)
      /\ overwritten \in SUBSET Slots(Nodes)
      /\ runData \in [Nodes -> Seq(RunsOf(Nodes))] /\ Active \subseteq Nodes
      /\ {None, Hole} \cap RealData(Nodes) = {}
  BY DataFacts
<1>5. Len(stack) \in Nat /\ DOMAIN stack = 1..Len(stack)
      /\ \A i \in DOMAIN stack : stack[i] \in ItemsOf(Nodes, Active)
  BY <1>4, LenProperties, ElementOfSeq
<1>6. n \in Nodes /\ runData[n] \in Seq(RunsOf(Nodes))
  <2>1. Head(stack) \in ItemsOf(Nodes, Active)
    BY <1>3, <1>4, HeadIndices
  <2> QED BY <1>4, <2>1 DEF ItemsOf
<1>7. ASSUME NEW i \in DOMAIN stack
      PROVE  /\ Item(i) \in ItemsOf(Nodes, Active) /\ Item(i).node = stack[i].node
             /\ Item(i).inputs = Saved(stack[i].inputs) /\ stack[i].inputs \in Arrays(Nodes)
  <2>1. /\ stack[i] = [node |-> stack[i].node, resumed |-> stack[i].resumed,
                       inputs |-> stack[i].inputs]
        /\ stack[i].node \in Active /\ stack[i].resumed \in BOOLEAN
        /\ stack[i].inputs \in Arrays(Nodes)
    BY <1>5 DEF ItemsOf
  <2>2. Saved(stack[i].inputs) \in Arrays(Nodes)
    BY <1>4, <2>1, SavedArrays
  <2> DEFINE flag == stack[i].resumed \/ stack[i].node = n
             array == Saved(stack[i].inputs)
  <2>3. flag \in BOOLEAN /\ array \in Arrays(Nodes) /\ stack[i] \in ItemsOf(Nodes, Active)
    BY <2>2, <1>5
  <2>4. Item(i) = [stack[i] EXCEPT !.resumed = flag, !.inputs = array]
    BY Zenon
  <2> HIDE DEF Item, flag, array
  <2>5. /\ Item(i) \in ItemsOf(Nodes, Active) /\ Item(i).node = stack[i].node
        /\ Item(i).inputs = array
    <3>1. stack[i] \in [node : Active, resumed : BOOLEAN, inputs : Arrays(Nodes)]
      BY <2>3 DEF ItemsOf
    <3>2. /\ Item(i) \in [node : Active, resumed : BOOLEAN, inputs : Arrays(Nodes)]
          /\ Item(i).node = stack[i].node /\ Item(i).inputs = array
      BY <2>3, <2>4, <3>1, ItemChanged
    <3> QED BY <3>2 DEF ItemsOf
  <2> QED BY <2>1, <2>5 DEF array
<1> HIDE DEF Item, n
<1>8. /\ stack' \in Seq(ItemsOf(Nodes, Active)) /\ DOMAIN stack' = DOMAIN stack
      /\ \A i \in DOMAIN stack : stack'[i] = Item(i)
  <2>1. stack' \in [1..Len(stack) -> ItemsOf(Nodes, Active)]
    BY <1>1, <1>5, <1>7
  <2>2. stack' \in Seq(ItemsOf(Nodes, Active))
    BY <1>5, <2>1, SeqDef
  <2> QED BY <1>1, <2>2
<1>9. ASSUME NEW m \in Nodes
      PROVE  /\ waiting[m] \in EntryArrays(Nodes) /\ waiting'[m] \in EntryArrays(Nodes)
             /\ DOMAIN waiting'[m] = DOMAIN waiting[m]
             /\ \A i \in DOMAIN waiting[m] :
                   waiting'[m][i] = Saved(waiting[m][i]) /\ waiting[m][i] \in Arrays(Nodes)
  <2>1. waiting'[m] = [i \in DOMAIN waiting[m] |-> Saved(waiting[m][i])]
    BY <1>1
  <2>2. waiting[m] \in EntryArrays(Nodes)
    BY <1>4 DEF WaitingOf
  <2>3. /\ DOMAIN waiting[m] \subseteq Nat /\ IsFiniteSet(DOMAIN waiting[m])
        /\ \A i \in DOMAIN waiting[m] : waiting[m][i] \in Arrays(Nodes)
    BY <2>2 DEF EntryArrays
  <2>4. \A i \in DOMAIN waiting[m] : Saved(waiting[m][i]) \in Arrays(Nodes)
    BY <1>4, <2>3, SavedArrays
  <2>5. waiting'[m] \in [DOMAIN waiting[m] -> Arrays(Nodes)]
    BY <2>1, <2>4
  <2>6. waiting'[m] \in EntryArrays(Nodes)
    BY <2>1, <2>3, <2>5 DEF EntryArrays
  <2> QED BY <2>1, <2>2, <2>3, <2>6
<1>10. /\ runData'[n] = Front(runData[n]) /\ \A m \in Nodes : m # n => runData'[m] = runData[m]
       /\ runData' \in [Nodes -> Seq(RunsOf(Nodes))]
  <2>1. Front(runData[n]) \in Seq(RunsOf(Nodes))
    BY <1>3, <1>6, RunTakenBack
  <2> QED BY <1>1, <1>4, <1>6, <2>1
<1>11. DataTypes'
  <2>1. waiting' \in WaitingOf(Nodes, Active)
    <3>1. waiting' = [m \in Nodes |-> waiting'[m]]
      BY <1>1
    <3>2. \A m \in Nodes \ Active : DOMAIN waiting[m] = {}
      BY <1>4 DEF WaitingOf
    <3> QED BY <1>9, <3>1, <3>2 DEF WaitingOf
  <2>2. State' \in States(Nodes, Active)
    BY <1>1, <1>4, <1>8, <2>1 DEF States, State
  <2> QED BY <1>1, <1>2, <1>3, <1>10, <2>2 DEF DInv, DataTypes
<1>12. ASSUME NEW m \in Nodes, NEW run \in Nat
       PROVE  /\ Made(runData', m, run) <=> Made(runData, m, run)
              /\ Made(runData, m, run) => runData'[m][run + 1].out = runData[m][run + 1].out
  <2>1. CASE m # n
    BY <1>10, <2>1 DEF Made
  <2>2. CASE m = n
    <3>1. /\ DOMAIN runData'[n] = DOMAIN runData[n] \ {Len(runData[n])}
          /\ \A k \in DOMAIN runData'[n] : runData'[n][k] = runData[n][k]
          /\ runData[n][Len(runData[n])].status # "success"
      BY <1>3, <1>6, <1>10, RunTakenBack
    <3> QED BY <2>2, <3>1 DEF Made
  <2> QED BY <2>1, <2>2
<1>13. ASSUME NEW d \in RealSlots(Nodes)
       PROVE  (LostNow(d)' <=> LostNow(d)) /\ (UniqueNow(d) => UniqueNow(d)')
  <2>1. d.to \in Nodes
    BY DEF RealSlots
  <2>2. OnStack(d, stack') = OnStack(d, stack)
    <3>1. \A i \in DOMAIN stack : /\ stack'[i].node = stack[i].node
                                  /\ Holds(stack'[i].inputs, d) <=> Holds(stack[i].inputs, d)
      BY <1>4, <1>7, <1>8, SavedArrays
    <3> QED BY <1>8, <3>1 DEF OnStack
  <2>3. InEntries(d, waiting'[d.to]) = InEntries(d, waiting[d.to])
    <3>1. \A i \in DOMAIN waiting[d.to] :
             Holds(waiting'[d.to][i], d) <=> Holds(waiting[d.to][i], d)
      BY <1>4, <1>9, <2>1, SavedArrays
    <3> QED BY <1>9, <2>1, <3>1 DEF InEntries
  <2>4. InRuns(d, runData'[d.to]) = InRuns(d, runData[d.to])
    <3>1. InRuns(d, Front(runData[n])) = InRuns(d, runData[n])
      BY <1>3, <1>6, RunTakenBack
    <3> QED BY <1>10, <2>1, <3>1
  <2> QED BY <1>1, <2>2, <2>3, <2>4 DEF LostNow, UniqueNow, Lost, Unique, State
<1>14. DataKnown' /\ DataPlaced'
  BY <1>2, <1>12, <1>13, QuietStep
<1> QED BY <1>11, <1>14

\* Steps that change the status only.
LEMMA StatusData ==
    ASSUME DInv, UNCHANGED <<workflow, execVars, executions, stack, waiting, overwritten, runData,
                             current, spent>>,
           status' # "waiting" \/ status' = status
    PROVE  (DataTypes /\ DataKnown /\ DataPlaced)'
<1>1. Nodes' = Nodes /\ Active' = Active /\ State' = State
      /\ UNCHANGED <<graph, started, executions>>
  BY SameExecution DEF State
<1>2. DataTypes'
  BY <1>1 DEF DInv, DataTypes
<1>3. ASSUME NEW d PROVE (LostNow(d)' <=> LostNow(d)) /\ (UniqueNow(d)' <=> UniqueNow(d))
  BY <1>1 DEF LostNow, UniqueNow
<1>4. DataKnown' /\ DataPlaced'
  BY <1>3, QuietStep
<1> QED BY <1>2, <1>4

\* A waiting entry that is put on the stack keeps its data.
LEMMA RunWaitingMoves ==
    ASSUME NEW A, A \subseteq Nodes, NEW x \in States(Nodes, A), RunWaiting(x), NEW runs, NEW sp
    PROVE  LET y == [stack |-> stack', waiting |-> waiting', overwritten |-> x.overwritten]
           IN  y \in States(Nodes, A) /\ \A d \in RealSlots(Nodes) : Moves(d, x, y, runs, sp)
<1> DEFINE y == [stack |-> stack', waiting |-> waiting', overwritten |-> x.overwritten]
<1>1. /\ x.stack \in Seq(ItemsOf(Nodes, A)) /\ x.waiting \in WaitingOf(Nodes, A)
      /\ x.waiting \in [Nodes -> EntryArrays(Nodes)] /\ x.overwritten \in SUBSET Slots(Nodes)
      /\ x = [stack |-> x.stack, waiting |-> x.waiting, overwritten |-> x.overwritten]
  BY DEF States, WaitingOf
<1>2. ASSUME stack' = x.stack, waiting' = x.waiting
      PROVE  y \in States(Nodes, A) /\ \A d \in RealSlots(Nodes) : Moves(d, x, y, runs, sp)
  <2>1. y = x
    BY <1>1, <1>2
  <2> HIDE DEF y
  <2> QED BY <2>1 DEF Moves
<1>3. ASSUME x.stack = <<>>, NEW n \in Nodes, MayRun(n, x.waiting),
             stack' = <<[node |-> n, resumed |-> FALSE,
                         inputs |-> x.waiting[n][Min(DOMAIN x.waiting[n])]]>>,
             waiting' = [x.waiting EXCEPT ![n] =
                            [i \in DOMAIN x.waiting[n] \ {Min(DOMAIN x.waiting[n])} |->
                                x.waiting[n][i]]]
      PROVE  y \in States(Nodes, A) /\ \A d \in RealSlots(Nodes) : Moves(d, x, y, runs, sp)
  <2> DEFINE e == x.waiting[n]
             index == Min(DOMAIN e)
             out == [i \in DOMAIN e \ {index} |-> e[i]]
             item == [node |-> n, resumed |-> FALSE, inputs |-> e[index]]
  <2>1. DOMAIN e # {} /\ n \in A
    BY <1>1, <1>3 DEF MayRun, WaitingNodes, WaitingOf
  <2>2. e \in EntryArrays(Nodes)
    BY <1>1
  <2>3. /\ DOMAIN e \subseteq Nat /\ \A i \in DOMAIN e : e[i] \in Arrays(Nodes)
    <3> HIDE DEF e
    <3> QED BY <2>2 DEF EntryArrays
  <2>4. index \in DOMAIN e
    <3> HIDE DEF e
    <3> QED BY <2>1, <2>3, MinProperties
  <2>5. item \in ItemsOf(Nodes, A)
    BY <2>1, <2>3, <2>4 DEF ItemsOf
  <2>6. out \in EntryArrays(Nodes) /\ \A d : InEntries(d, out) = InEntries(d, e) \ {index}
    <3> HIDE DEF e, index
    <3>1. index \in Nat
      BY <2>3, <2>4
    <3>2. out = [i \in DOMAIN e \ {index} |-> e[i]]
      OBVIOUS
    <3> HIDE DEF out
    <3> QED BY <2>2, <3>1, <3>2, EntryTaken
  <2>7. y.stack = <<item>> /\ y.waiting = [x.waiting EXCEPT ![n] = out]
        /\ y.overwritten = x.overwritten
    BY <1>3
  <2> HIDE DEF e, index, out
  <2>8. y.waiting[n] = out /\ (\A m \in Nodes \ {n} : y.waiting[m] = x.waiting[m])
        /\ y.waiting \in [Nodes -> EntryArrays(Nodes)]
    BY <1>1, <2>6, <2>7
  <2>9. y.waiting \in WaitingOf(Nodes, A)
    BY <1>1, <2>1, <2>8 DEF WaitingOf
  <2>10. y.stack \in Seq(ItemsOf(Nodes, A))
    <3> HIDE DEF y, item
    <3> QED BY <2>5, <2>7
  <2>11. y \in States(Nodes, A)
    BY <1>1, <2>9, <2>10 DEF States
  <2>12. item.node = n /\ item.inputs = e[index]
    OBVIOUS
  <2> HIDE DEF y, item
  <2>13. ASSUME NEW d \in RealSlots(Nodes) PROVE Moves(d, x, y, runs, sp)
    <3>1. OnStack(d, x.stack) = {}
      BY <1>3 DEF OnStack
    <3>2. OnStack(d, y.stack) = IF d.to = n /\ Holds(e[index], d) THEN {1} ELSE {}
      <4>1. DOMAIN <<item>> = {1} /\ <<item>>[1] = item
        OBVIOUS
      <4> QED BY <2>7, <2>12, <4>1 DEF OnStack
    <3>3. d.to \in Nodes
      BY DEF RealSlots
    <3>4. CASE d.to # n
      <4>1. y.waiting[d.to] = x.waiting[d.to]
        BY <2>8, <3>3, <3>4
      <4> QED BY <2>7, <3>1, <3>2, <3>4, <4>1 DEF Moves, Lost, Unique
    <3>5. CASE d.to = n
      <4> DEFINE W == InEntries(d, e)
      <4>1. InEntries(d, y.waiting[d.to]) = W \ {index} /\ InEntries(d, x.waiting[d.to]) = W
        BY <2>6, <2>8, <3>5 DEF e
      <4>2. index \in W <=> Holds(e[index], d)
        BY <2>4 DEF InEntries
      <4> HIDE DEF W
      <4>3. OnStack(d, y.stack) = IF index \in W THEN {1} ELSE {}
        BY <3>2, <3>5, <4>2
      <4>4. One({}) /\ One({1}) /\ (One(W) => One(W \ {index}))
            /\ (One(W) /\ index \in W => W \ {index} = {})
        BY DEF One
      <4> QED BY <2>7, <3>1, <4>1, <4>3, <4>4 DEF Moves, Lost, Unique, Nowhere, InOne
    <3> QED BY <3>4, <3>5
  <2> QED BY <2>11, <2>13
<1> QED BY <1>2, <1>3 DEF RunWaiting

\* A connection of an active node leads to an active one.
LEMMA ActiveClosed ==
    ASSUME GraphOver(Nodes, graph), NEW c \in graph.connections, c.from \in Active
    PROVE  c.to \in Active
<1>1. CASE executions = 1
  BY <1>1 DEF Active, GraphOver, Connections
<1>2. CASE executions # 1
  <2>1. PICK s \in started : c.from = s \/ c.from \in Children(graph, s)
    BY <1>2 DEF Active
  <2>2. c.to \in Children(graph, s)
    BY <2>1, ChildrenClosed DEF GraphOver
  <2> QED BY <1>2, <2>2 DEF Active
<1> QED BY <1>1, <1>2

\* The connections followed, each once, and their outputs.
LEMMA OrderFollowed ==
    ASSUME DInv, NEW n \in Active, NEW out, NEW order \in ConnectionsToFollow(n, out)
    PROVE  /\ order \in Seq(graph.connections)
           /\ \A i, j \in 1..Len(order) : order[i] = order[j] => i = j
           /\ \A i \in 1..Len(order) : order[i].from = n /\ order[i].to \in Active
           /\ \A c \in graph.connections :
                 c.from = n /\ c.output \in out => \E i \in 1..Len(order) : c = order[i]
<1> DEFINE S == {c \in DirectChildConnections(graph, n) : c.output \in out}
<1>1. S \subseteq graph.connections /\ \A c \in S : c.from = n
  BY DEF DirectChildConnections
<1>2. GraphOver(Nodes, graph) /\ IsFiniteSet(S)
  BY <1>1, DataFacts, FS_Subset DEF GraphOver
<1>3. order \in SetToSeqs(S)
  BY DEF ConnectionsToFollow
<1>4. \A c \in graph.connections : c.from = n /\ c.output \in out => c \in S
  BY DEF DirectChildConnections
<1> HIDE DEF S
<1>5. /\ order \in Seq(S) /\ Len(order) \in Nat
      /\ \A i, j \in 1..Len(order) : order[i] = order[j] => i = j
      /\ \A x \in S : \E i \in 1..Len(order) : order[i] = x
  BY <1>2, <1>3, Enumerated
<1>6. \A i \in 1..Len(order) : order[i] \in S
  BY <1>5
<1>7. order \in Seq(graph.connections)
  BY <1>1, <1>5
<1>8. \A c \in S : c.to \in Active
  BY <1>1, <1>2, ActiveClosed
<1> QED BY <1>1, <1>4, <1>5, <1>6, <1>7, <1>8

\* What a successful run does to the places of data, up to the connections of
\* which it gives the data: these reach one place.
LEMMA FinishNodeMoves ==
    ASSUME DInv, FinishNode
    PROVE  \E out \in SUBSET Nat :
              /\ runData' = [runData EXCEPT ![current.node] =
                    Append(@, [inputs |-> current.inputs, out |-> out, status |-> "success"])]
              /\ State' \in States(Nodes, Active)
              /\ \A d \in RealSlots(Nodes) :
                    \/ Moves(d, State, State', runData', spent)
                    \/ \E c \in graph.connections :
                          /\ d = Datum(c, Len(runData[current.node])) /\ c.from = current.node
                          /\ ~Lost(d, State', runData', None, spent)
                          /\ Lost(d, State, runData', None, spent)
                                => Unique(d, State', runData', None, spent)
              /\ current.node # destination =>
                    \A c \in graph.connections :
                       LET d == Datum(c, Len(runData[current.node]))
                       IN  c.from = current.node /\ c.output \in out =>
                              /\ ~Lost(d, State', runData', None, spent)
                              /\ Lost(d, State, runData', None, spent)
                                    => Unique(d, State', runData', None, spent)
<1> DEFINE n == current.node
           run == Len(runData[n])
           Reaches1(d) == /\ ~Lost(d, State', runData', None, spent)
                          /\ Lost(d, State, runData', None, spent)
                                => Unique(d, State', runData', None, spent)
<1>1. current # None /\ spent' = spent
  BY DEF FinishNode
<1>2. PICK out \in Results(current) :
         /\ runData' = [runData EXCEPT ![n] =
               Append(@, [inputs |-> current.inputs, out |-> out, status |-> "success"])]
         /\ IF n = destination
            THEN UNCHANGED <<stack, waiting, overwritten>>
            ELSE \E order \in ConnectionsToFollow(n, out) :
                    /\ RunWaiting(Follow(order, run))
                    /\ overwritten' = Follow(order, run).overwritten
  BY DEF FinishNode
<1>3. n \in Active /\ n \in Nodes /\ Active \subseteq Nodes
      /\ State \in States(Nodes, Active) /\ GraphOver(Nodes, graph)
      /\ {None, Hole} \cap RealData(Nodes) = {} /\ None \notin Nodes
      /\ runData[n] \in Seq(RunsOf(Nodes))
      /\ \A c \in graph.connections, k \in Nat : Datum(c, k) \in RealSlots(Nodes)
  BY <1>1, DataFacts DEF ItemsOf, DInv, DataTypes
<1>4. run \in Nat
  BY <1>3
<1>5. out \in SUBSET Nat
  <2>1. \A c \in workflow.connections : c.output \in Nat
    BY WorkflowAssumption DEF DInv, IInv
  <2>2. Outputs(n) \subseteq Nat
    BY <2>1 DEF Outputs, DirectChildConnections
  <2> QED BY <1>2, <2>2 DEF Results
<1>6. CASE n = destination
  <2>1. State' = State
    BY <1>2, <1>6 DEF State
  <2>2. \A d \in RealSlots(Nodes) : Moves(d, State, State', runData', spent)
    BY <2>1 DEF Moves
  <2> QED BY <1>2, <1>3, <1>5, <1>6, <2>1, <2>2
<1>7. CASE n # destination
  <2>1. PICK order \in ConnectionsToFollow(n, out) :
           RunWaiting(Follow(order, run)) /\ overwritten' = Follow(order, run).overwritten
    BY <1>2, <1>7
  <2> DEFINE y == Follow(order, run)
             d0(i) == Datum(order[i], run)
  <2>2. /\ order \in Seq(graph.connections)
        /\ \A i, j \in 1..Len(order) : order[i] = order[j] => i = j
        /\ \A i \in 1..Len(order) : order[i].from = n /\ order[i].to \in Active
        /\ \A c \in graph.connections :
              c.from = n /\ c.output \in out => \E i \in 1..Len(order) : c = order[i]
    BY <1>3, OrderFollowed
  <2>3. /\ y \in States(Nodes, Active)
        /\ \A d \in RealSlots(Nodes) :
              /\ (\A i \in 1..Len(order) : d # d0(i)) => Moves(d, State, y, runData', spent)
              /\ (\E i \in 1..Len(order) : d = d0(i)) =>
                    /\ ~Lost(d, y, runData', None, spent)
                    /\ Lost(d, State, runData', None, spent) => Unique(d, y, runData', None, spent)
    <3>1. [stack |-> stack, waiting |-> waiting, overwritten |-> overwritten]
             \in States(Nodes, Active)
      BY <1>3 DEF State
    <3>2. \A i \in 1..Len(order) : order[i].to \in Active
      BY <2>2
    <3> HIDE DEF run
    <3> QED BY <1>3, <1>4, <2>2, <3>1, <3>2, Followed DEF State
  <2> HIDE DEF y
  <2>4. State' = [stack |-> stack', waiting |-> waiting', overwritten |-> y.overwritten]
    BY <2>1 DEF y, State
  <2>5. /\ State' \in States(Nodes, Active)
        /\ \A d \in RealSlots(Nodes) : Moves(d, y, State', runData', spent)
    <3>1. RunWaiting(y)
      BY <2>1 DEF y
    <3> DEFINE z == [stack |-> stack', waiting |-> waiting', overwritten |-> y.overwritten]
    <3>2. z \in States(Nodes, Active)
          /\ \A d \in RealSlots(Nodes) : Moves(d, y, z, runData', spent)
      BY <1>3, <2>3, <3>1, RunWaitingMoves
    <3> QED BY <2>4, <3>2
  <2>6. ASSUME NEW d \in RealSlots(Nodes), \A i \in 1..Len(order) : d # d0(i)
        PROVE  Moves(d, State, State', runData', spent)
    BY <2>3, <2>5, <2>6 DEF Moves
  <2>7. ASSUME NEW d \in RealSlots(Nodes), \E i \in 1..Len(order) : d = d0(i)
        PROVE  Reaches1(d)
    BY <2>3, <2>5, <2>7 DEF Moves
  <2> HIDE DEF Reaches1
  <2>8. ASSUME NEW d \in RealSlots(Nodes)
        PROVE  \/ Moves(d, State, State', runData', spent)
               \/ \E c \in graph.connections : d = Datum(c, run) /\ c.from = n /\ Reaches1(d)
    <3>1. ASSUME NEW i \in 1..Len(order), d = d0(i)
          PROVE  \E c \in graph.connections : d = Datum(c, run) /\ c.from = n /\ Reaches1(d)
      <4>1. order[i] \in graph.connections /\ order[i].from = n
        BY <2>2, ElementOfSeq
      <4> QED BY <3>1, <4>1, <2>7
    <3> QED BY <3>1, <2>6
  <2>9. ASSUME NEW c \in graph.connections, c.from = n, c.output \in out
        PROVE  Reaches1(Datum(c, run))
    <3>1. PICK i \in 1..Len(order) : c = order[i]
      BY <2>2, <2>9
    <3>2. Datum(c, run) \in RealSlots(Nodes) /\ Datum(c, run) = d0(i)
      BY <1>3, <1>4, <3>1
    <3> QED BY <2>7, <3>2
  <2> HIDE DEF run, n
  <2> QED BY <1>2, <1>5, <2>5, <2>8, <2>9 DEF Reaches1, run, n
<1> QED BY <1>6, <1>7

\* A successful run keeps its data and delivers what it made, which was nowhere
\* before: DataKnown.
LEMMA FinishNodeData ==
    ASSUME DInv, FinishNode
    PROVE  (DataTypes /\ DataKnown /\ DataPlaced)'
<1> DEFINE n == current.node
           run == Len(runData[n])
           Arrives(d) == /\ ~Lost(d, State', runData', None, spent)
                         /\ Lost(d, State, runData', None, spent)
                               => Unique(d, State', runData', None, spent)
<1>1. /\ current # None /\ current' = None
      /\ UNCHANGED <<workflow, execVars, status, counters, spent>>
  BY DEF FinishNode
<1>2. PICK out \in SUBSET Nat :
         /\ runData' = [runData EXCEPT ![n] =
               Append(@, [inputs |-> current.inputs, out |-> out, status |-> "success"])]
         /\ State' \in States(Nodes, Active)
         /\ \A d \in RealSlots(Nodes) :
               \/ Moves(d, State, State', runData', spent)
               \/ \E c \in graph.connections : d = Datum(c, run) /\ c.from = n /\ Arrives(d)
         /\ n # destination =>
               \A c \in graph.connections :
                  c.from = n /\ c.output \in out => Arrives(Datum(c, run))
  BY FinishNodeMoves
<1> DEFINE r == [inputs |-> current.inputs, out |-> out, status |-> "success"]
<1>3. UNCHANGED <<workflow, execVars, executions>> /\ Nodes' = Nodes /\ Active' = Active
      /\ GivenTwice' = GivenTwice
      /\ UNCHANGED <<graph, started, executions, status, destination, kept>>
  <2>1. UNCHANGED <<workflow, execVars, executions>>
    BY <1>1 DEF counters
  <2> QED BY <1>1, <2>1, SameExecution
<1>4. current \in ItemsOf(Nodes, Active) /\ n \in Nodes /\ n \in Active /\ r \in RunsOf(Nodes)
      /\ r.status = "success" /\ r.out = out /\ r.inputs = current.inputs
  <2>1. current \in ItemsOf(Nodes, Active) /\ n \in Nodes /\ n \in Active
        /\ current.inputs \in Arrays(Nodes)
    BY <1>1, DataFacts DEF ItemsOf
  <2> QED BY <2>1 DEF RunsOf
<1>5. runData' = [runData EXCEPT ![n] = Append(@, r)]
  BY <1>2
<1> HIDE DEF r
<1>6. /\ runData \in [Nodes -> Seq(RunsOf(Nodes))] /\ runData[n] \in Seq(RunsOf(Nodes))
      /\ runData'[n] = Append(runData[n], r)
      /\ \A m \in Nodes : m # n => runData'[m] = runData[m]
      /\ \A c \in graph.connections : c \in Connections(Nodes, Nat, Nat) /\ c.from \in Nodes
      /\ \A c \in graph.connections, k \in Nat : Datum(c, k) \in RealSlots(Nodes)
  BY <1>4, <1>5, DataFacts DEF Connections
<1>7. /\ Append(runData[n], r) \in Seq(RunsOf(Nodes)) /\ run \in Nat
      /\ DOMAIN runData'[n] = DOMAIN runData[n] \cup {run + 1}
      /\ run + 1 \notin DOMAIN runData[n]
      /\ \A k \in DOMAIN runData[n] : k \in Nat \ {0} /\ runData'[n][k] = runData[n][k]
      /\ runData'[n][run + 1] = r
      /\ \A d : InRuns(d, runData'[n]) = InRuns(d, runData[n]) \cup
            (IF r.status = "success" /\ Holds(r.inputs, d) THEN {run + 1} ELSE {})
  BY <1>4, <1>6, RunAppended
<1>8. runData' \in [Nodes -> Seq(RunsOf(Nodes))]
  BY <1>4, <1>5, <1>6, <1>7
<1>9. DataTypes'
  <2>1. status # "waiting"
    BY <1>1 DEF DInv, DataTypes
  <2> QED BY <1>1, <1>2, <1>3, <1>8, <2>1 DEF DInv, DataTypes
<1>10. ASSUME NEW d \in RealSlots(Nodes)
       PROVE  /\ Lost(d, State, runData', None, spent) <=> LostNow(d)
              /\ UniqueNow(d) => Unique(d, State, runData', None, spent)
  <2>1. d.to \in Nodes
    BY DEF RealSlots
  <2>2. CASE d.to # n
    BY <1>1, <1>6, <2>1, <2>2 DEF LostNow, UniqueNow, Lost, Unique
  <2>3. CASE d.to = n
    <3> DEFINE held == Holds(current.inputs, d)
               R == InRuns(d, runData[n])
    <3>1. InRuns(d, runData'[n]) = R \cup (IF held THEN {run + 1} ELSE {})
      BY <1>4, <1>7
    <3>2. current # None /\ current.node = d.to /\ Holds(current.inputs, d) <=> held
      BY <1>1, <2>3
    <3> HIDE DEF held, R, run
    <3>3. One({run + 1})
      BY DEF One
    <3>4. InRuns(d, runData[d.to]) = R /\ runData'[d.to] = runData'[n]
      BY <2>3 DEF R
    <3> QED BY <3>1, <3>2, <3>3, <3>4 DEF LostNow, UniqueNow, Lost, Unique, Nowhere, InOne
  <2> QED BY <2>2, <2>3
<1>11. ASSUME NEW d PROVE /\ LostNow(d)' <=> Lost(d, State', runData', None, spent)
                          /\ UniqueNow(d)' <=> Unique(d, State', runData', None, spent)
  BY <1>1 DEF LostNow, UniqueNow
<1>12. ASSUME NEW c \in graph.connections, NEW k \in Nat, ~(c.from = n /\ k = run)
       PROVE  /\ LostNow(Datum(c, k))' <=> LostNow(Datum(c, k))
              /\ UniqueNow(Datum(c, k)) => UniqueNow(Datum(c, k))'
              /\ Made(runData', c.from, k) <=> Made(runData, c.from, k)
              /\ Made(runData, c.from, k)
                    => runData'[c.from][k + 1].out = runData[c.from][k + 1].out
  <2>1. ASSUME NEW b \in graph.connections, b.from = n, Datum(c, k) = Datum(b, run) PROVE FALSE
    <3>1. Datum(c, k).data.run = k /\ Datum(b, run).data.run = run
      BY DEF Datum
    <3>2. c = b
      BY <1>6, <2>1, <3>1, DifferentData
    <3> QED BY <1>12, <2>1, <3>1, <3>2
  <2>2. Moves(Datum(c, k), State, State', runData', spent)
    BY <1>2, <1>6, <2>1
  <2>3. Datum(c, k) \in RealSlots(Nodes)
    BY <1>6
  <2>4. /\ LostNow(Datum(c, k))' <=> LostNow(Datum(c, k))
        /\ UniqueNow(Datum(c, k)) => UniqueNow(Datum(c, k))'
    <3> DEFINE d == Datum(c, k)
    <3> HIDE DEF d
    <3>1. /\ LostNow(d)' <=> LostNow(d)
          /\ UniqueNow(d) => UniqueNow(d)'
      <4>1. d \in RealSlots(Nodes) /\ Moves(d, State, State', runData', spent)
        BY <2>2, <2>3 DEF d
      <4>2. /\ Lost(d, State, runData', None, spent) <=> LostNow(d)
            /\ UniqueNow(d) => Unique(d, State, runData', None, spent)
        BY <1>10, <4>1
      <4>3. /\ LostNow(d)' <=> Lost(d, State', runData', None, spent)
            /\ UniqueNow(d)' <=> Unique(d, State', runData', None, spent)
        BY <1>11
      <4> QED BY <4>1, <4>2, <4>3 DEF Moves
    <3> QED BY <3>1 DEF d
  <2>5. /\ Made(runData', c.from, k) <=> Made(runData, c.from, k)
        /\ Made(runData, c.from, k) => runData'[c.from][k + 1].out = runData[c.from][k + 1].out
    <3>1. CASE c.from # n
      BY <1>6, <3>1 DEF Made
    <3>2. CASE c.from = n
      <4>1. k + 1 # run + 1
        BY <1>7, <1>12, <3>2
      <4> HIDE DEF run
      <4> QED BY <1>7, <3>2, <4>1 DEF Made
    <3> QED BY <3>1, <3>2
  <2> QED BY <2>4, <2>5
<1>13. Made(runData', n, run) /\ ~Made(runData, n, run) /\ runData'[n][run + 1].out = out
  BY <1>4, <1>7 DEF Made
<1>14. DataKnown'
  <2> SUFFICES ASSUME NEW c \in graph.connections, c \notin GivenTwice, NEW k \in Nat,
                      c.from \in Active, ~LostNow(Datum(c, k))'
               PROVE  Made(runData', c.from, k)
    BY <1>3 DEF DataKnown
  <2>1. CASE c.from = n /\ k = run
    BY <2>1, <1>13
  <2>2. CASE ~(c.from = n /\ k = run)
    BY <2>2, <1>12 DEF DInv, DataKnown
  <2> QED BY <2>1, <2>2
<1>15. DataPlaced'
  <2> SUFFICES ASSUME NEW c \in graph.connections, NEW k \in Nat, c.from # destination,
                      k >= kept[c.from], Made(runData', c.from, k),
                      c.output \in runData'[c.from][k + 1].out
               PROVE  /\ ~LostNow(Datum(c, k))'
                      /\ c \in GivenTwice \/ UniqueNow(Datum(c, k))'
    BY <1>3 DEF DataPlaced
  <2>1. CASE c.from = n /\ k = run
    <3>1. Arrives(Datum(c, k))
      BY <1>2, <1>13, <2>1
    <3>2. c \in GivenTwice \/ LostNow(Datum(c, k))
      BY <1>4, <1>13, <2>1 DEF DInv, DataKnown
    <3>3. Lost(Datum(c, k), State, runData', None, spent) <=> LostNow(Datum(c, k))
      BY <1>6, <1>10
    <3> QED BY <1>11, <3>1, <3>2, <3>3
  <2>2. CASE ~(c.from = n /\ k = run)
    BY <2>2, <1>12 DEF DInv, DataPlaced
  <2> QED BY <2>1, <2>2
<1> QED BY <1>9, <1>14, <1>15

\* An execution starts with one item and no data.
LEMMA InitData ==
    ASSUME Init
    PROVE  DataTypes /\ DataKnown /\ DataPlaced
<1> DEFINE item == [node |-> workflow.trigger, resumed |-> FALSE, inputs |-> <<First>>]
<1>1. /\ workflow \in Workflows /\ stack = <<item>>
      /\ waiting = [n \in Nodes |-> NoEntries] /\ runData = [n \in Nodes |-> <<>>]
      /\ current = None /\ status = "running" /\ executions = 1 /\ started = {}
      /\ spent = {} /\ overwritten = {}
      /\ graph.connections = workflow.connections
  BY DEF Init, Nodes
<1>2. Active = Nodes
  BY <1>1 DEF Active
<1>3. /\ workflow.trigger \in Nodes /\ None \notin Nodes
      /\ workflow.connections \subseteq Connections(Nodes, Nat, Nat)
  BY <1>1, WorkflowAssumption, NoneAssumption DEF Nodes, Connections
<1>4. item \in ItemsOf(Nodes, Active)
  <2>1. <<First>> \in Arrays(Nodes)
    BY DEF Arrays, Values
  <2> QED BY <1>2, <1>3, <2>1 DEF ItemsOf
<1>5. \A n \in Nodes : waiting[n] \in EntryArrays(Nodes) /\ DOMAIN waiting[n] = {}
  <2>1. IsFiniteSet({}) /\ {} \in SUBSET Nat /\ DOMAIN NoEntries = {}
        /\ NoEntries \in [{} -> Arrays(Nodes)]
    BY FS_EmptySet DEF NoEntries
  <2>2. NoEntries \in UNION {[S -> Arrays(Nodes)] : S \in SUBSET Nat}
    BY <2>1
  <2>3. NoEntries \in EntryArrays(Nodes)
    BY <2>1, <2>2 DEF EntryArrays
  <2> QED BY <1>1, <2>1, <2>3
<1>6. waiting \in WaitingOf(Nodes, Active)
  BY <1>1, <1>5 DEF WaitingOf
<1>7. State \in States(Nodes, Active)
  <2>1. stack \in Seq(ItemsOf(Nodes, Active))
    BY <1>1, <1>4
  <2> QED BY <1>1, <1>6, <2>1 DEF State, States
<1>8. DataTypes
  BY <1>1, <1>7 DEF DataTypes
<1>9. \A n \in Nodes, run \in Nat : ~Made(runData, n, run)
  BY <1>1 DEF Made
<1>10. DataPlaced
  BY <1>1, <1>3, <1>9 DEF DataPlaced, Connections
<1>11. ASSUME NEW c \in graph.connections, NEW run \in Nat PROVE LostNow(Datum(c, run))
  <2> DEFINE d == Datum(c, run)
  <2>1. d.to \in Nodes /\ d.data.node \in Nodes /\ d.input \in Nat
    BY <1>1, <1>3 DEF Datum, Connections
  <2> HIDE DEF d
  <2>2. ~Holds(<<First>>, d)
    <3>1. d.data # First
      BY <2>1, <1>3 DEF First
    <3> QED BY <3>1 DEF Holds
  <2>3. OnStack(d, stack) = {}
    <3>1. DOMAIN stack = {1} /\ stack[1].inputs = <<First>>
      BY <1>1
    <3> QED BY <2>2, <3>1 DEF OnStack
  <2>4. InEntries(d, waiting[d.to]) = {}
    BY <1>5, <2>1 DEF InEntries
  <2>5. InRuns(d, runData[d.to]) = {}
    BY <1>1, <2>1 DEF InRuns
  <2>6. LostNow(d)
    BY <1>1, <2>3, <2>4, <2>5 DEF LostNow, Lost, Nowhere, State
  <2> QED BY <2>6 DEF d
<1>12. DataKnown
  BY <1>11 DEF DataKnown
<1> QED BY <1>8, <1>10, <1>12

-----------------------------------------------------------------------------
(* The state in which a partial execution starts *)

\* Data of nodes of G, and arrays of it; the stack and the waiting entries of
\* start nodes.
StartData(N, G) == {v \in RealData(N) : v.node \in G} \cup {First, None, Hole}
StartItems(N, A, G) == [node : A, resumed : BOOLEAN, inputs : Seq(StartData(N, G))]
StartEntries(N, G) ==
    {e \in UNION {[S -> Seq(StartData(N, G))] : S \in SUBSET Nat} : IsFiniteSet(DOMAIN e)}
StartWaiting(N, A, G) ==
    {w \in [N -> StartEntries(N, G)] : \A n \in N \ A : DOMAIN w[n] = {}}
StartStates(N, A, G) ==
    [stack : Seq(StartItems(N, A, G)), waiting : StartWaiting(N, A, G)]

\* The nodes that can give data: pinned ones and those with a run.
Giving(N, runs, pinned) == {n \in N : n \in pinned \/ runs[n] # <<>>}

\* A group has some of the connections that are left, one for each input.
LEMMA NextGroupType ==
    ASSUME NEW left, NEW given
    PROVE  /\ NextGroup(left, given) \subseteq left
           /\ \A c, d \in NextGroup(left, given) : c.input = d.input => c = d
<1> DEFINE At(i) == {c \in left : c.input = i}
           Preferred(i) == IF At(i) \cap given # {} THEN CHOOSE c \in At(i) \cap given : TRUE
                           ELSE CHOOSE c \in At(i) : TRUE
           smallest == Min({c.input : c \in left})
           some == {d \in left : \A i \in smallest..d.input : At(i) # {}}
<1>1. NextGroup(left, given) = {Preferred(c.input) : c \in some}
  BY DEF NextGroup
<1>2. some \subseteq left
  OBVIOUS
<1>3. \A i : At(i) # {} => Preferred(i) \in At(i)
  OBVIOUS
<1>4. \A c \in left : c \in At(c.input)
  OBVIOUS
<1>5. \A i : At(i) \subseteq left /\ \A c \in At(i) : c.input = i
  OBVIOUS
<1> HIDE DEF some, Preferred, At, smallest
<1>6. \A c \in some : Preferred(c.input) \in left /\ Preferred(c.input).input = c.input
  BY <1>2, <1>3, <1>4, <1>5
<1> QED BY <1>1, <1>6

\* The data of the first run that gave items on the output of a connection.
LEMMA FirstRunType ==
    ASSUME NEW N, NEW runs \in [N -> Seq(RunsOf(N))], NEW c \in Connections(N, Nat, Nat),
           RunsWithData(runs, c.from, c.output) # {}, NEW pinned
    PROVE  FirstRun(runs, c) \in RealData(N) \cap StartData(N, Giving(N, runs, pinned))
<1> DEFINE with == RunsWithData(runs, c.from, c.output)
<1>1. c.from \in N /\ c.output \in Nat
  BY DEF Connections
<1>2. runs[c.from] \in Seq(RunsOf(N))
  BY <1>1
<1>3. with \subseteq DOMAIN runs[c.from] /\ DOMAIN runs[c.from] \subseteq Nat \ {0}
  BY <1>2 DEF RunsWithData
<1>4. with \subseteq Nat \ {0} /\ runs[c.from] # <<>>
  BY <1>3
<1> HIDE DEF with
<1>5. Min(with) \in with
  BY <1>4, MinProperties DEF with
<1> DEFINE m == Min(with)
<1>6. m \in Nat \ {0}
  BY <1>4, <1>5
<1>7. FirstRun(runs, c) = [node |-> c.from, output |-> c.output, run |-> m - 1]
  BY DEF FirstRun, with
<1> HIDE DEF m
<1>8. m - 1 \in Nat
  BY <1>6
<1> QED BY <1>1, <1>4, <1>7, <1>8 DEF StartData, RealData, Giving

\* A complete group gives an item of the data of its connections.
LEMMA StackItemType ==
    ASSUME NEW N, NEW runs \in [N -> Seq(RunsOf(N))], NEW A, NEW n \in A, NEW pinned,
           NEW group, IsFiniteSet(group), group \subseteq Connections(N, Nat, Nat),
           \A c, d \in group : c.input = d.input => c = d
    PROVE  StackItem(n, group, runs, pinned) \in StartItems(N, A, Giving(N, runs, pinned))
<1> DEFINE given == {c \in group : c.from \in pinned \/ RunsWithData(runs, c.from, c.output) # {}}
           Ordered(s) == \A i, j \in DOMAIN s : i < j => s[i].input < s[j].input
           order == CHOOSE s \in [1..Cardinality(given) -> given] : Ordered(s)
           Data(c) == IF c.from \in pinned
                      THEN [node |-> c.from, output |-> c.output, run |-> 0]
                      ELSE FirstRun(runs, c)
           inputs == [i \in DOMAIN order |-> Data(order[i])]
           G == Giving(N, runs, pinned)
<1>1. StackItem(n, group, runs, pinned) = [node |-> n, resumed |-> FALSE, inputs |-> inputs]
  BY DEF StackItem
<1>2. ASSUME NEW c \in given PROVE Data(c) \in StartData(N, G)
  <2>1. c \in Connections(N, Nat, Nat) /\ c.from \in N /\ c.output \in Nat
    BY DEF Connections
  <2>2. CASE c.from \in pinned
    <3>1. Data(c) = [node |-> c.from, output |-> c.output, run |-> 0]
      BY <2>2
    <3> HIDE DEF Data
    <3> QED BY <2>1, <2>2, <3>1 DEF StartData, RealData, Giving
  <2>3. CASE c.from \notin pinned
    <3>1. RunsWithData(runs, c.from, c.output) # {} /\ Data(c) = FirstRun(runs, c)
      BY <2>3
    <3> HIDE DEF Data, given
    <3>2. FirstRun(runs, c) \in StartData(N, Giving(N, runs, pinned))
      BY <2>1, <3>1, FirstRunType
    <3> QED BY <3>1, <3>2
  <2> QED BY <2>2, <2>3
<1>3. /\ given \subseteq group /\ IsFiniteSet(given) /\ \A c \in given : c.input \in Nat
      /\ \A c, d \in given : c.input = d.input => c = d
  BY FS_Subset DEF Connections
<1> HIDE DEF given, Data
<1>4. Cardinality(given) \in Nat
  BY <1>3, FS_CardinalityType
<1>5. order \in [1..Cardinality(given) -> given]
  <2>1. \E s \in [1..Cardinality(given) -> given] : Ordered(s)
    BY <1>3, Sorted
  <2> HIDE DEF Ordered
  <2> QED BY <2>1
<1> HIDE DEF order
<1>6. inputs \in [1..Cardinality(given) -> StartData(N, G)]
  BY <1>2, <1>5
<1>7. inputs \in Seq(StartData(N, G))
  BY <1>4, <1>6, SeqDef
<1> HIDE DEF inputs, G
<1>8. [node |-> n, resumed |-> FALSE, inputs |-> inputs] \in StartItems(N, A, G)
  BY <1>7 DEF StartItems
<1> QED BY <1>1, <1>8 DEF G

\* An incomplete one gives an array of what has run data.
LEMMA WaitingEntryType ==
    ASSUME NEW N, NEW runs \in [N -> Seq(RunsOf(N))], NEW pinned,
           NEW group, IsFiniteSet(group), group \subseteq Connections(N, Nat, Nat)
    PROVE  WaitingEntry(group, runs) \in Seq(StartData(N, Giving(N, runs, pinned)))
<1> DEFINE given == {c \in group : RunsWithData(runs, c.from, c.output) # {}}
           At(i) == {c \in given : c.input = i - 1}
           ends == {0} \cup {c.input + 1 : c \in given}
           G == Giving(N, runs, pinned)
           Element(i) == IF At(i) # {} THEN FirstRun(runs, CHOOSE c \in At(i) : TRUE) ELSE Hole
<1>1. WaitingEntry(group, runs) = [i \in 1..Max(ends) |-> Element(i)]
  BY DEF WaitingEntry
<1>2. ASSUME NEW i PROVE Element(i) \in StartData(N, G)
  <2>1. CASE At(i) = {}
    BY <2>1 DEF StartData
  <2>2. CASE At(i) # {}
    <3>1. PICK c \in given : Element(i) = FirstRun(runs, c)
      BY <2>2
    <3>2. c \in Connections(N, Nat, Nat) /\ RunsWithData(runs, c.from, c.output) # {}
      OBVIOUS
    <3> HIDE DEF given, At, Element
    <3>3. FirstRun(runs, c) \in RealData(N) \cap StartData(N, Giving(N, runs, pinned))
      BY <3>2, FirstRunType
    <3> QED BY <3>1, <3>3
  <2> QED BY <2>1, <2>2
<1>3. IsFiniteSet(given) /\ \A c \in given : c.input \in Nat
  BY FS_Subset DEF Connections
<1> HIDE DEF given, Element
<1>4. IsFiniteSet({c.input + 1 : c \in given})
  <2>1. [c \in given |-> c.input + 1] \in Surjection(given, {c.input + 1 : c \in given})
    BY DEF Surjection
  <2> QED BY <1>3, <2>1, FS_Surjection
<1>5. ends \subseteq Nat /\ ends # {} /\ IsFiniteSet(ends)
  <2>1. ends = {c.input + 1 : c \in given} \cup {0}
    OBVIOUS
  <2>2. IsFiniteSet(ends)
    BY <1>4, <2>1, FS_AddElement
  <2> QED BY <1>3, <2>2
<1> HIDE DEF ends
<1>6. Max(ends) \in Nat
  BY <1>5, MaxProperties
<1>7. [i \in 1..Max(ends) |-> Element(i)] \in [1..Max(ends) -> StartData(N, G)]
  BY <1>2
<1> HIDE DEF G
<1>8. [i \in 1..Max(ends) |-> Element(i)] \in Seq(StartData(N, G))
  BY <1>6, <1>7, SeqDef
<1> QED BY <1>1, <1>8 DEF G

\* A group is put on the stack, or waits, or has no data at all.
LEMMA AddGroupType ==
    ASSUME NEW N, NEW runs \in [N -> Seq(RunsOf(N))], NEW A, A \subseteq N, NEW n \in A,
           NEW pinned, NEW given, NEW group, IsFiniteSet(group),
           group \subseteq Connections(N, Nat, Nat),
           \A c, d \in group : c.input = d.input => c = d,
           NEW start \in StartStates(N, A, Giving(N, runs, pinned))
    PROVE  AddGroup(start, n, group, given, runs, pinned)
              \in StartStates(N, A, Giving(N, runs, pinned))
<1> DEFINE G == Giving(N, runs, pinned)
           y == AddGroup(start, n, group, given, runs, pinned)
           item == StackItem(n, group, runs, pinned)
           e == start.waiting[n]
           next == Cardinality(DOMAIN e)
           entry == WaitingEntry(group, runs)
           in == [i \in DOMAIN e \cup {next} |-> IF i = next THEN entry ELSE e[i]]
<1>1. \/ y = [start EXCEPT !.stack = Append(@, item)]
      \/ y = start
      \/ y = [start EXCEPT !.waiting[n] = in]
  BY DEF AddGroup
<1>2. item \in StartItems(N, A, G) /\ entry \in Seq(StartData(N, G))
  BY StackItemType, WaitingEntryType
<1>3. /\ start.stack \in Seq(StartItems(N, A, G)) /\ start.waiting \in StartWaiting(N, A, G)
      /\ start = [stack |-> start.stack, waiting |-> start.waiting]
      /\ start.waiting \in [N -> StartEntries(N, G)]
      /\ \A m \in N \ A : DOMAIN start.waiting[m] = {}
  BY DEF StartStates, StartWaiting
<1>4. e \in StartEntries(N, G)
  BY <1>3
<1> HIDE DEF e, entry, G
<1>5. /\ DOMAIN e \subseteq Nat /\ IsFiniteSet(DOMAIN e)
      /\ \A i \in DOMAIN e : e[i] \in Seq(StartData(N, G))
  BY <1>4 DEF StartEntries
<1>6. next \in Nat
  BY <1>5, FS_CardinalityType
<1> HIDE DEF next
<1>7. in \in StartEntries(N, G)
  <2>1. in \in [DOMAIN e \cup {next} -> Seq(StartData(N, G))] /\ DOMAIN in = DOMAIN e \cup {next}
    BY <1>2, <1>5
  <2>2. IsFiniteSet(DOMAIN e \cup {next}) /\ DOMAIN e \cup {next} \in SUBSET Nat
    BY <1>5, <1>6, FS_AddElement
  <2> HIDE DEF in
  <2> QED BY <2>1, <2>2 DEF StartEntries
<1> HIDE DEF in, item
<1>8. ASSUME y = [start EXCEPT !.stack = Append(@, item)]
      PROVE  y \in StartStates(N, A, G)
  <2>1. y = [stack |-> Append(start.stack, item), waiting |-> start.waiting]
    BY <1>3, <1>8
  <2>2. Append(start.stack, item) \in Seq(StartItems(N, A, G))
    BY <1>2, <1>3
  <2> QED BY <1>3, <2>1, <2>2 DEF StartStates
<1>9. ASSUME y = [start EXCEPT !.waiting[n] = in]
      PROVE  y \in StartStates(N, A, G)
  <2> DEFINE w == [start.waiting EXCEPT ![n] = in]
  <2>1. y = [stack |-> start.stack, waiting |-> w]
    BY <1>3, <1>9, e = start.waiting[n] DEF e
  <2>2. w \in [N -> StartEntries(N, G)] /\ \A m \in N \ A : w[m] = start.waiting[m]
    BY <1>3, <1>7
  <2>3. w \in StartWaiting(N, A, G)
    <3> HIDE DEF w
    <3> QED BY <1>3, <2>2 DEF StartWaiting
  <2> QED BY <1>3, <2>1, <2>3 DEF StartStates
<1>10. y \in StartStates(N, A, G)
  <2> HIDE DEF y
  <2> QED BY <1>1, <1>8, <1>9, start \in StartStates(N, A, G) DEF G
<1> QED BY <1>10 DEF G

\* The connections whose node has run or is pinned.
GivenOf(all, runs, pinned) == {c \in all : runs[c.from] # <<>> \/ c.from \in pinned}

\* What is left of the connections into a start node, and what it is started
\* with, after each group.
GroupsIn(runs, pinned, n, all, given, start, X, it) ==
    /\ it \in [0..Cardinality(all) -> [left : SUBSET all, start : X]]
    /\ it[0] = [left |-> all, start |-> start]
    /\ \A k \in 1..Cardinality(all) :
          it[k] = LET before == it[k - 1]
                      group == NextGroup(before.left, given)
                  IN  IF before.left = {} THEN before
                      ELSE [left |-> before.left \ group,
                            start |-> AddGroup(before.start, n, group, given, runs, pinned)]

\* What it ends with.
GroupsTo(runs, pinned, n, all, given, start, X, end) ==
    \E it : /\ GroupsIn(runs, pinned, n, all, given, start, X, it)
            /\ end = it[Cardinality(all)].start

\* The groups of a start node are added one after the other.
LEMMA GroupSteps ==
    ASSUME NEW N, NEW runs \in [N -> Seq(RunsOf(N))], NEW A, A \subseteq N, NEW n \in A,
           NEW pinned, NEW g, IsFiniteSet(g.connections),
           g.connections \subseteq Connections(N, Nat, Nat),
           NEW start \in StartStates(N, A, Giving(N, runs, pinned)),
           NEW all, all = DirectParentConnections(g, n), all # {},
           NEW given, given = GivenOf(all, runs, pinned)
    PROVE  GroupsTo(runs, pinned, n, all, given, start,
                    StartStates(N, A, Giving(N, runs, pinned)),
                    AddStartNode(g, runs, pinned, start, n))
<1> DEFINE D == Cardinality(all)
           X == StartStates(N, A, Giving(N, runs, pinned))
           G == [left : SUBSET all, start : X]
           first == [left |-> all, start |-> start]
           After(before) ==
               LET group == NextGroup(before.left, given)
               IN  IF before.left = {} THEN before
                   ELSE [left |-> before.left \ group,
                         start |-> AddGroup(before.start, n, group, given, runs, pinned)]
           Grouped(f) == f = [k \in 0..D |-> IF k = 0 THEN first ELSE After(f[k - 1])]
           it == CHOOSE f : Grouped(f)
           step == [p \in Nat \X G |-> After(p[2])]
<1>1. IsFiniteSet(all) /\ all \subseteq Connections(N, Nat, Nat)
  BY FS_Subset DEF DirectParentConnections
<1>2. AddStartNode(g, runs, pinned, start, n) = it[D].start
  BY DEF AddStartNode, GivenOf
<1>4. ASSUME NEW before \in G PROVE After(before) \in G
  <2> DEFINE group == NextGroup(before.left, given)
  <2>1. before.left \subseteq all /\ before.start \in X
    OBVIOUS
  <2>2. group \subseteq before.left /\ \A c, d \in group : c.input = d.input => c = d
    BY NextGroupType
  <2>3. After(before) = IF before.left = {} THEN before
           ELSE [left |-> before.left \ group,
                 start |-> AddGroup(before.start, n, group, given, runs, pinned)]
    OBVIOUS
  <2> HIDE DEF group, After, X
  <2>4. IsFiniteSet(group) /\ group \subseteq Connections(N, Nat, Nat)
    BY <1>1, <2>1, <2>2, FS_Subset
  <2>5. AddGroup(before.start, n, group, given, runs, pinned) \in X
    BY <2>1, <2>2, <2>4, AddGroupType DEF X
  <2> QED BY <2>1, <2>3, <2>5
<1>5. D \in Nat
  BY <1>1, FS_CardinalityType
<1>6. first \in G /\ step \in [Nat \X G -> G]
  <2>1. first \in G
    OBVIOUS
  <2> HIDE DEF G, After
  <2> QED BY <1>4, <2>1
<1>7. \E f : Grouped(f) /\ f \in [0..D -> G]
  <2> HIDE DEF G, step, D, After, first
  <2>1. PICK f \in [0..D -> G] : Recurs(f, D, first, step)
    BY <1>5, <1>6, Recursion
  <2>2. \A k \in 0..D : k # 0 => step[<<k, f[k - 1]>>] = After(f[k - 1])
    <3> TAKE k \in 0..D
    <3> HAVE k # 0
    <3>1. k - 1 \in 0..D /\ k \in Nat
      BY <1>5
    <3>2. <<k, f[k - 1]>> \in Nat \X G
      BY <3>1
    <3> QED BY <3>2 DEF step
  <2>3. Grouped(f)
    BY <2>1, <2>2 DEF Recurs
  <2> QED BY <2>3
<1>8. Grouped(it)
  <2> HIDE DEF After, first, D, G
  <2> QED BY <1>7, Zenon
<1> HIDE DEF it, After, first
<1>9. \A k \in 0..D : it[k] = IF k = 0 THEN first ELSE After(it[k - 1])
  BY <1>8
<1> HIDE DEF G, D
<1>10. \A k \in 0..D : it[k] \in G
  <2> DEFINE bad == {k \in 0..D : it[k] \notin G}
  <2> SUFFICES ASSUME bad # {} PROVE FALSE
    OBVIOUS
  <2>1. bad \subseteq Nat
    BY <1>5
  <2>2. PICK k \in bad : \A j \in bad : k <= j
    BY <2>1, LeastNumber
  <2>3. k # 0
    BY <1>6, <1>9
  <2>4. k - 1 \in 0..D /\ ~(k <= k - 1)
    BY <2>3, <1>5
  <2>5. it[k - 1] \in G
    BY <2>2, <2>4
  <2> QED BY <1>4, <1>9, <2>3, <2>5
<1>11. it \in [0..D -> G]
  <2>1. it = [k \in 0..D |-> it[k]]
    BY <1>8
  <2> QED BY <1>10, <2>1
<1>12. it[0] = first /\ \A k \in 1..D : it[k] = After(it[k - 1])
  <2>1. 0 \in 0..D /\ \A k \in 1..D : k \in 0..D /\ k # 0
    BY <1>5
  <2> QED BY <1>9, <2>1
<1>13. GroupsIn(runs, pinned, n, all, given, start, X, it)
  <2> HIDE DEF X
  <2> QED BY <1>11, <1>12 DEF GroupsIn, D, first, After, G
<1> QED BY <1>2, <1>13 DEF D, GroupsTo

\* A start node, after the ones before it.
LEMMA AddStartNodeType ==
    ASSUME NEW N, NEW runs \in [N -> Seq(RunsOf(N))], NEW A, A \subseteq N, NEW n \in A,
           NEW pinned, NEW g, IsFiniteSet(g.connections),
           g.connections \subseteq Connections(N, Nat, Nat),
           NEW start \in StartStates(N, A, Giving(N, runs, pinned))
    PROVE  AddStartNode(g, runs, pinned, start, n) \in StartStates(N, A, Giving(N, runs, pinned))
<1> DEFINE all == DirectParentConnections(g, n)
           given == GivenOf(all, runs, pinned)
           H == Giving(N, runs, pinned)
           X == StartStates(N, A, H)
<1>1. Cardinality(all) \in Nat
  BY FS_Subset, FS_CardinalityType DEF DirectParentConnections
<1>2. CASE all = {}
  <2> DEFINE item == [node |-> n, resumed |-> FALSE, inputs |-> <<First>>]
  <2>1. AddStartNode(g, runs, pinned, start, n) = [start EXCEPT !.stack = Append(@, item)]
    BY <1>2 DEF AddStartNode
  <2>2. item \in StartItems(N, A, H)
    <3>1. <<First>> \in Seq(StartData(N, H))
      BY DEF StartData
    <3> HIDE DEF H
    <3> QED BY <3>1 DEF StartItems
  <2> HIDE DEF item, H
  <2>3. /\ start.stack \in Seq(StartItems(N, A, H)) /\ start.waiting \in StartWaiting(N, A, H)
        /\ start = [stack |-> start.stack, waiting |-> start.waiting]
    BY DEF StartStates, H
  <2>4. Append(start.stack, item) \in Seq(StartItems(N, A, H))
    BY <2>2, <2>3
  <2>5. ASSUME NEW y, y = [start EXCEPT !.stack = Append(@, item)]
        PROVE  y \in StartStates(N, A, H)
    <3>1. y = [stack |-> Append(start.stack, item), waiting |-> start.waiting]
      BY <2>3, <2>5
    <3> QED BY <2>3, <2>4, <3>1 DEF StartStates
  <2> QED BY <2>1, <2>5 DEF H
<1>3. CASE all # {}
  <2>1. all = DirectParentConnections(g, n)
        /\ given = GivenOf(all, runs, pinned)
    OBVIOUS
  <2> HIDE DEF H, all, given
  <2> DEFINE y == AddStartNode(g, runs, pinned, start, n)
  <2>A. GroupsTo(runs, pinned, n, all, given, start, StartStates(N, A, Giving(N, runs, pinned)), y)
    BY <1>3, <2>1, GroupSteps
  <2>2. PICK it : GroupsIn(runs, pinned, n, all, given, start, X, it)
                  /\ y = it[Cardinality(all)].start
    BY <2>A DEF GroupsTo, H
  <2>3. it[Cardinality(all)] \in [left : SUBSET all, start : X]
    <3>1. Cardinality(all) \in 0..Cardinality(all)
      BY <1>1
    <3> QED BY <2>2, <3>1 DEF GroupsIn, H
  <2> QED BY <2>2, <2>3 DEF H
<1> QED BY <1>2, <1>3

\* Runs that are dropped are dropped at the nodes to clean and below them.
LEMMA CleanedRuns ==
    ASSUME NEW N, NEW runs \in [N -> Seq(RunsOf(N))], NEW g, NEW nodes
    PROVE  /\ CleanRunData(runs, g, nodes) \in [N -> Seq(RunsOf(N))]
           /\ \A s \in nodes, n \in N :
                 n = s \/ n \in Children(g, s) => CleanRunData(runs, g, nodes)[n] = <<>>
<1> DEFINE cleaned == nodes \cup UNION {Children(g, n) : n \in nodes}
           y == [n \in N |-> IF n \in g.nodes \ cleaned THEN runs[n] ELSE <<>>]
<1>1. CleanRunData(runs, g, nodes) = y
  BY DEF CleanRunData
<1>2. <<>> \in Seq(RunsOf(N))
  OBVIOUS
<1>3. \A s \in nodes : s \in cleaned /\ Children(g, s) \subseteq cleaned
  OBVIOUS
<1> HIDE DEF cleaned
<1>4. y \in [N -> Seq(RunsOf(N))]
  BY <1>2
<1>5. \A s \in nodes, n \in N : n = s \/ n \in Children(g, s) => y[n] = <<>>
  BY <1>3
<1> QED BY <1>1, <1>4, <1>5

\* The stack and the waiting entries after each of the start nodes in an order.
StartsIn(N, g, runs, pinned, order, G, it) ==
    /\ it \in [0..Len(order) -> G]
    /\ it[0] = [stack |-> <<>>, waiting |-> [n \in N |-> NoEntries]]
    /\ \A k \in 1..Len(order) : it[k] = AddStartNode(g, runs, pinned, it[k - 1], order[k])

\* The state after the last one.
StartsOf(g, runs, pinned, order) ==
    LET start[k \in 0..Len(order)] ==
            IF k = 0 THEN [stack |-> <<>>, waiting |-> [n \in Nodes |-> NoEntries]]
            ELSE AddStartNode(g, runs, pinned, start[k - 1], order[k])
    IN  start[Len(order)]

\* What a start ends with.
StartsTo(N, g, runs, pinned, order, G, end) ==
    \E it : StartsIn(N, g, runs, pinned, order, G, it) /\ end = it[Len(order)]

\* The start nodes are added one after the other.
LEMMA StartSteps ==
    ASSUME NEW runs \in [Nodes -> Seq(RunsOf(Nodes))], NEW found, found \subseteq Nodes,
           IsFiniteSet(found), NEW pinned, NEW g, GraphOver(Nodes, g),
           NEW order \in SetToSeqs(found)
    PROVE  StartsTo(Nodes, g, runs, pinned, order,
                    StartStates(Nodes, found, Giving(Nodes, runs, pinned)),
                    StartsOf(g, runs, pinned, order))
<1> DEFINE D == Len(order)
           G == StartStates(Nodes, found, Giving(Nodes, runs, pinned))
           first == [stack |-> <<>>, waiting |-> [n \in Nodes |-> NoEntries]]
           Started(f) == f = [k \in 0..D |-> IF k = 0 THEN first
                                             ELSE AddStartNode(g, runs, pinned, f[k - 1], order[k])]
           it == CHOOSE f : Started(f)
           step == [p \in Nat \X G |-> IF p[1] \in 1..D
                                       THEN AddStartNode(g, runs, pinned, p[2], order[p[1]])
                                       ELSE p[2]]
<1>1. D \in Nat /\ \A k \in 1..D : order[k] \in found
  BY Enumerated
<1>2. ASSUME NEW x \in G, NEW k \in 1..D
      PROVE  AddStartNode(g, runs, pinned, x, order[k]) \in G
  BY <1>1, AddStartNodeType DEF GraphOver
<1>3. first \in G
  <2> DEFINE H == Giving(Nodes, runs, pinned)
  <2>1. NoEntries \in StartEntries(Nodes, H) /\ DOMAIN NoEntries = {}
    <3>1. IsFiniteSet({}) /\ {} \in SUBSET Nat /\ DOMAIN NoEntries = {}
          /\ NoEntries \in [{} -> Seq(StartData(Nodes, H))]
      BY FS_EmptySet DEF NoEntries
    <3>2. NoEntries \in UNION {[S -> Seq(StartData(Nodes, H))] : S \in SUBSET Nat}
      BY <3>1
    <3> QED BY <3>1, <3>2 DEF StartEntries
  <2> HIDE DEF H
  <2>2. [n \in Nodes |-> NoEntries] \in StartWaiting(Nodes, found, H)
    BY <2>1 DEF StartWaiting
  <2>3. <<>> \in Seq(StartItems(Nodes, found, H))
    OBVIOUS
  <2> QED BY <2>2, <2>3 DEF StartStates, H
<1>4. step \in [Nat \X G -> G]
  <2> HIDE DEF G
  <2> QED BY <1>2
<1> HIDE DEF first
<1>5. \E f : Started(f)
  <2> HIDE DEF G, step, D
  <2>1. PICK f \in [0..D -> G] : Recurs(f, D, first, step)
    BY <1>1, <1>3, <1>4, Recursion
  <2>2. \A k \in 0..D :
           k # 0 => step[<<k, f[k - 1]>>] = AddStartNode(g, runs, pinned, f[k - 1], order[k])
    <3> TAKE k \in 0..D
    <3> HAVE k # 0
    <3>1. k - 1 \in 0..D /\ k \in Nat /\ k \in 1..D
      BY <1>1
    <3>2. <<k, f[k - 1]>> \in Nat \X G
      BY <3>1
    <3> QED BY <3>1, <3>2 DEF step
  <2>3. Started(f)
    BY <2>1, <2>2 DEF Recurs
  <2> QED BY <2>3
<1>6. Started(it)
  <2> HIDE DEF D, G
  <2> QED BY <1>5, Zenon
<1> HIDE DEF it
<1>7. \A k \in 0..D :
         it[k] = IF k = 0 THEN first ELSE AddStartNode(g, runs, pinned, it[k - 1], order[k])
  BY <1>6
<1> HIDE DEF G, D
<1>8. \A k \in 0..D : it[k] \in G
  <2> DEFINE bad == {k \in 0..D : it[k] \notin G}
  <2> SUFFICES ASSUME bad # {} PROVE FALSE
    OBVIOUS
  <2>1. bad \subseteq Nat
    BY <1>1
  <2>2. PICK k \in bad : \A j \in bad : k <= j
    BY <2>1, LeastNumber
  <2>3. k # 0
    BY <1>3, <1>7
  <2>4. k - 1 \in 0..D /\ ~(k <= k - 1) /\ k \in 1..D
    BY <2>3, <1>1
  <2>5. it[k - 1] \in G
    BY <2>2, <2>4
  <2> QED BY <1>2, <1>7, <2>3, <2>4, <2>5
<1>9. it \in [0..D -> G]
  <2>1. it = [k \in 0..D |-> it[k]]
    BY <1>6
  <2> QED BY <1>8, <2>1
<1>10. /\ it[0] = first
       /\ \A k \in 1..D : it[k] = AddStartNode(g, runs, pinned, it[k - 1], order[k])
  <2>1. 0 \in 0..D /\ \A k \in 1..D : k \in 0..D /\ k # 0
    BY <1>1
  <2> QED BY <1>7, <2>1
<1>11. StartsIn(Nodes, g, runs, pinned, order, G, it)
  BY <1>9, <1>10 DEF StartsIn, D, first
<1>12. StartsOf(g, runs, pinned, order) = it[D]
  BY DEF StartsOf, it, D, first
<1> QED BY <1>11, <1>12 DEF G, D, StartsTo

\* What a start holds: data of its nodes that can give it, and nothing of the
\* nodes that it cleans and that are not pinned.
LEMMA StartFacts ==
    ASSUME NEW A, A \subseteq Nodes, NEW H, NEW x \in StartStates(Nodes, A, H), None \notin Nodes,
           {None, Hole} \cap RealData(Nodes) = {}
    PROVE  /\ [stack |-> x.stack, waiting |-> x.waiting, overwritten |-> {}] \in States(Nodes, A)
           /\ \A d \in RealSlots(Nodes) :
                 \/ OnStack(d, x.stack) = {} /\ InEntries(d, x.waiting[d.to]) = {}
                 \/ d.to \in A /\ d.data.node \in H
<1>1. x.stack \in Seq(StartItems(Nodes, A, H)) /\ x.waiting \in StartWaiting(Nodes, A, H)
  BY DEF StartStates
<1>2. StartData(Nodes, H) \subseteq Values(Nodes)
  BY DEF StartData, Values, RealData
<1>3. Seq(StartData(Nodes, H)) \subseteq Arrays(Nodes)
  BY <1>2 DEF Arrays
<1>4. x.stack \in Seq(ItemsOf(Nodes, A))
  <2>1. StartItems(Nodes, A, H) \subseteq ItemsOf(Nodes, A)
    BY <1>3 DEF StartItems, ItemsOf
  <2> QED BY <1>1, <2>1
<1>5. ASSUME NEW n \in Nodes
      PROVE  /\ x.waiting[n] \in EntryArrays(Nodes)
             /\ \A i \in DOMAIN x.waiting[n] : x.waiting[n][i] \in Seq(StartData(Nodes, H))
  <2> DEFINE e == x.waiting[n]
  <2>1. e \in StartEntries(Nodes, H)
    BY <1>1 DEF StartWaiting
  <2> HIDE DEF e
  <2>2. PICK S \in SUBSET Nat : e \in [S -> Seq(StartData(Nodes, H))] /\ IsFiniteSet(DOMAIN e)
    BY <2>1 DEF StartEntries
  <2>3. e \in [S -> Arrays(Nodes)]
    BY <1>3, <2>2
  <2>4. e \in EntryArrays(Nodes)
    BY <2>2, <2>3 DEF EntryArrays
  <2> QED BY <2>2, <2>4 DEF e
<1>6. x.waiting \in WaitingOf(Nodes, A)
  BY <1>1, <1>5 DEF StartWaiting, WaitingOf
<1>7. [stack |-> x.stack, waiting |-> x.waiting, overwritten |-> {}] \in States(Nodes, A)
  BY <1>4, <1>6 DEF States
<1>8. ASSUME NEW d \in RealSlots(Nodes), NEW array \in Seq(StartData(Nodes, H)), Holds(array, d)
      PROVE  d.data.node \in H
  <2>1. d.data \in StartData(Nodes, H)
    BY <1>8, ElementOfSeq DEF Holds
  <2>2. d.data \in RealData(Nodes) /\ d.data.node \in Nodes
    BY DEF RealSlots, RealData
  <2>3. d.data # First /\ d.data \notin {None, Hole}
    BY <2>2 DEF First
  <2> QED BY <2>1, <2>3 DEF StartData
<1>9. ASSUME NEW d \in RealSlots(Nodes), NEW i \in OnStack(d, x.stack)
      PROVE  d.to \in A /\ d.data.node \in H
  <2>1. x.stack[i] \in StartItems(Nodes, A, H) /\ x.stack[i].node = d.to
        /\ Holds(x.stack[i].inputs, d)
    BY <1>1, ElementOfSeq DEF OnStack
  <2>2. x.stack[i].node \in A /\ x.stack[i].inputs \in Seq(StartData(Nodes, H))
    BY <2>1 DEF StartItems
  <2> QED BY <1>8, <2>1, <2>2
<1>10. ASSUME NEW d \in RealSlots(Nodes), NEW i \in InEntries(d, x.waiting[d.to])
       PROVE  d.to \in A /\ d.data.node \in H
  <2>1. d.to \in Nodes /\ i \in DOMAIN x.waiting[d.to] /\ Holds(x.waiting[d.to][i], d)
    BY DEF RealSlots, InEntries
  <2>2. d.to \in A
    BY <1>1, <2>1 DEF StartWaiting
  <2> QED BY <1>5, <1>8, <2>1, <2>2
<1> QED BY <1>7, <1>9, <1>10

\* The nodes found to start with are nodes of the subgraph.
LEMMA FoundNodes ==
    ASSUME NEW g, Closed(g), NEW starts, starts \subseteq g.nodes, NEW trigger,
           \A n \in starts : Entries(g, trigger, StronglyConnectedComponent(g, n)) # {}
    PROVE  HandleCycles(g, starts, trigger) \subseteq g.nodes
<1>1. ASSUME NEW n \in starts PROVE EntryOf(g, trigger, n) \in g.nodes
  <2>1. EntryOf(g, trigger, n) \in Entries(g, trigger, StronglyConnectedComponent(g, n))
    BY DEF EntryOf
  <2>2. EntryOf(g, trigger, n) \in StronglyConnectedComponent(g, n)
    BY <2>1 DEF Entries
  <2>3. Children(g, n) \subseteq g.nodes
    BY ChildrenClosed
  <2> QED BY <2>2, <2>3 DEF StronglyConnectedComponent
<1> QED BY <1>1 DEF HandleCycles

\* The state in which a partial execution starts.
LEMMA PartialStart ==
    ASSUME DInv, NEW target \in Nodes, NEW dirty, RunPartialWorkflow(target, dirty)
    PROVE  /\ UNCHANGED <<workflow, current>> /\ current = None /\ status' = "running"
           /\ executions' = executions + 1 /\ spent' = {} /\ overwritten' = {}
           /\ GraphOver(Nodes, graph') /\ started' \subseteq graph'.nodes
           /\ kept' = [n \in Nodes |-> Len(runData'[n])]
           /\ runData' \in [Nodes -> Seq(RunsOf(Nodes))]
           /\ \A s \in started', n \in Nodes :
                 n = s \/ n \in Children(graph', s) => runData'[n] = <<>>
           /\ \E order \in SetToSeqs(started') : \E it :
                 /\ StartsIn(Nodes, graph', runData', workflow.pinned, order,
                             StartStates(Nodes, started',
                                         Giving(Nodes, runData', workflow.pinned)), it)
                 /\ [stack |-> stack', waiting |-> waiting'] = it[Len(order)]
           /\ [stack |-> stack', waiting |-> waiting']
                 \in StartStates(Nodes, started', Giving(Nodes, runData', workflow.pinned))
<1> DEFINE whole == [nodes |-> workflow.nodes, connections |-> workflow.connections]
           trigger == IF DirectParentConnections(whole, target) = {} THEN target
                      ELSE workflow.trigger
           subgraph == FindSubgraph(FilterDisabledNodes(whole, workflow.disabled), target, trigger)
           usable == CleanRunData(runData, subgraph,
                                  IF trigger = target THEN {target} ELSE dirty \cap subgraph.nodes)
           starts == IF trigger = target THEN {target}
                     ELSE FindStartNodes(subgraph, trigger, target, workflow.loops, usable,
                                         workflow.pinned)
           found == HandleCycles(subgraph, starts, trigger)
           cleaned == CleanRunData(usable, subgraph, found)
<1>1. /\ Ended /\ executions' = executions + 1
      /\ \A n \in starts :
            Entries(subgraph, trigger, StronglyConnectedComponent(subgraph, n)) # {}
      /\ graph' = subgraph /\ runData' = cleaned
      /\ started' = found /\ kept' = [n \in Nodes |-> Len(cleaned[n])]
      /\ \E order \in SetToSeqs(found) :
            LET start[k \in 0..Len(order)] ==
                    IF k = 0 THEN [stack |-> <<>>, waiting |-> [n \in Nodes |-> NoEntries]]
                    ELSE AddStartNode(subgraph, cleaned, workflow.pinned, start[k - 1], order[k])
            IN  stack' = start[Len(order)].stack /\ waiting' = start[Len(order)].waiting
      /\ status' = "running" /\ spent' = {} /\ overwritten' = {}
      /\ UNCHANGED <<workflow, current>>
  BY DEF RunPartialWorkflow
<1>2. /\ workflow \in Workflows
      /\ IsFiniteSet(workflow.nodes) /\ IsFiniteSet(workflow.disabled)
      /\ IsFiniteSet(whole.connections)
      /\ whole.connections \subseteq Connections(workflow.nodes, Nat, Nat)
      /\ trigger \in workflow.nodes
  BY WorkflowAssumption DEF DInv, IInv, Connections, Nodes
<1>3. GraphOver(Nodes, subgraph) /\ trigger \in subgraph.nodes
  BY <1>2, SubgraphClosed DEF Nodes
<1>4. starts \subseteq subgraph.nodes
  <2>1. CASE trigger = target
    <3>1. starts = {target}
      BY <2>1
    <3> QED BY <1>3, <2>1, <3>1
  <2>2. CASE trigger # target
    <3>1. starts = FindStartNodes(subgraph, trigger, target, workflow.loops, usable,
                                  workflow.pinned)
      BY <2>2
    <3> HIDE DEF starts, subgraph, usable, trigger
    <3> QED BY <3>1 DEF FindStartNodes
  <2> QED BY <2>1, <2>2
<1> HIDE DEF starts, trigger, subgraph
<1>5. found \subseteq subgraph.nodes /\ subgraph.nodes \subseteq Nodes
      /\ IsFiniteSet(subgraph.nodes)
  BY <1>1, <1>3, <1>4, FoundNodes DEF GraphOver, Closed
<1>6. IsFiniteSet(found) /\ found \subseteq Nodes
  BY <1>5, FS_Subset
<1> HIDE DEF found
<1>7. usable \in [Nodes -> Seq(RunsOf(Nodes))]
  <2>1. runData \in [Nodes -> Seq(RunsOf(Nodes))]
    BY DataFacts
  <2> QED BY <2>1, CleanedRuns
<1> HIDE DEF usable
<1>8. /\ cleaned \in [Nodes -> Seq(RunsOf(Nodes))]
      /\ \A s \in found, n \in Nodes :
            n = s \/ n \in Children(subgraph, s) => cleaned[n] = <<>>
  BY <1>7, CleanedRuns
<1> HIDE DEF cleaned
<1>9. /\ \E order \in SetToSeqs(found) : \E it :
            /\ StartsIn(Nodes, subgraph, cleaned, workflow.pinned, order,
                        StartStates(Nodes, found, Giving(Nodes, cleaned, workflow.pinned)), it)
            /\ [stack |-> stack', waiting |-> waiting'] = it[Len(order)]
      /\ [stack |-> stack', waiting |-> waiting']
            \in StartStates(Nodes, found, Giving(Nodes, cleaned, workflow.pinned))
  <2> DEFINE X == StartStates(Nodes, found, Giving(Nodes, cleaned, workflow.pinned))
  <2>1. \E order \in SetToSeqs(found) : \E it :
           /\ StartsIn(Nodes, subgraph, cleaned, workflow.pinned, order, X, it)
           /\ stack' = it[Len(order)].stack /\ waiting' = it[Len(order)].waiting
    <3>1. \E order \in SetToSeqs(found) :
             /\ stack' = StartsOf(subgraph, cleaned, workflow.pinned, order).stack
             /\ waiting' = StartsOf(subgraph, cleaned, workflow.pinned, order).waiting
      BY <1>1 DEF StartsOf
    <3>2. PICK order \in SetToSeqs(found) :
             /\ stack' = StartsOf(subgraph, cleaned, workflow.pinned, order).stack
             /\ waiting' = StartsOf(subgraph, cleaned, workflow.pinned, order).waiting
      BY <3>1
    <3>3. StartsTo(Nodes, subgraph, cleaned, workflow.pinned, order,
                   StartStates(Nodes, found, Giving(Nodes, cleaned, workflow.pinned)),
                   StartsOf(subgraph, cleaned, workflow.pinned, order))
      BY <1>3, <1>6, <1>8, StartSteps
    <3> QED BY <3>2, <3>3 DEF StartsTo
  <2>2. PICK order \in SetToSeqs(found) : \E it :
           /\ StartsIn(Nodes, subgraph, cleaned, workflow.pinned, order, X, it)
           /\ stack' = it[Len(order)].stack /\ waiting' = it[Len(order)].waiting
    BY <2>1
  <2>3. PICK it :
           /\ StartsIn(Nodes, subgraph, cleaned, workflow.pinned, order, X, it)
           /\ stack' = it[Len(order)].stack /\ waiting' = it[Len(order)].waiting
    BY <2>2
  <2>4. it[Len(order)] \in X
    <3>1. Len(order) \in 0..Len(order)
      BY <1>6, Enumerated
    <3> HIDE DEF X
    <3> QED BY <2>3, <3>1 DEF StartsIn
  <2>5. it[Len(order)] = [stack |-> stack', waiting |-> waiting']
    <3> DEFINE x == it[Len(order)]
    <3>1. x = [stack |-> x.stack, waiting |-> x.waiting]
      BY <2>4 DEF StartStates
    <3> HIDE DEF x
    <3> QED BY <2>3, <3>1 DEF x
  <2> HIDE DEF X
  <2> QED BY <2>3, <2>4, <2>5 DEF X
<1>10. current = None
  BY <1>1 DEF Ended
<1> QED BY <1>1, <1>3, <1>5, <1>8, <1>9, <1>10

\* A partial execution starts with data of nodes that it will not run, but for
\* what is given twice.
LEMMA RunPartialData ==
    ASSUME DInv, NEW target \in Nodes, NEW dirty, RunPartialWorkflow(target, dirty)
    PROVE  (DataTypes /\ DataKnown /\ DataPlaced)'
<1> DEFINE H == Giving(Nodes, runData', workflow.pinned)
           x == [stack |-> stack', waiting |-> waiting']
<1>1. /\ UNCHANGED <<workflow, current>> /\ current = None /\ status' = "running"
      /\ executions' = executions + 1 /\ spent' = {} /\ overwritten' = {}
      /\ GraphOver(Nodes, graph') /\ started' \subseteq graph'.nodes
      /\ kept' = [n \in Nodes |-> Len(runData'[n])]
      /\ runData' \in [Nodes -> Seq(RunsOf(Nodes))]
      /\ \A s \in started', n \in Nodes :
            n = s \/ n \in Children(graph', s) => runData'[n] = <<>>
      /\ x \in StartStates(Nodes, started', H)
  BY PartialStart
<1>2. /\ executions \in Nat \ {0} /\ None \notin Nodes /\ {None, Hole} \cap RealData(Nodes) = {}
  BY DataFacts DEF DInv, DataTypes
<1>3. executions' \in Nat \ {0} /\ executions' # 1
  BY <1>1, <1>2
<1>4. Nodes' = Nodes /\ workflow' = workflow
  BY <1>1 DEF Nodes
<1>5. Active' = UNION {{s} \cup Children(graph', s) : s \in started'}
  BY <1>3 DEF Active
<1>6. /\ \A s \in started' : Children(graph', s) \subseteq graph'.nodes
      /\ graph'.nodes \subseteq Nodes
      /\ \A c \in graph'.connections, s \in started' :
            c.from = s \/ c.from \in Children(graph', s) => c.to \in Children(graph', s)
      /\ graph'.connections \subseteq Connections(Nodes, Nat, Nat)
  BY <1>1, ChildrenClosed DEF GraphOver
<1>7. started' \subseteq Active' /\ Active' \subseteq Nodes /\ started' \subseteq Nodes
  BY <1>1, <1>5, <1>6
<1>8. \A n \in Active' : runData'[n] = <<>>
  BY <1>1, <1>5, <1>7
<1>9. \A c \in graph'.connections : c.from \in Active' => c.to \in Active'
  BY <1>5, <1>6
<1> HIDE DEF H
<1>10. /\ [stack |-> x.stack, waiting |-> x.waiting, overwritten |-> {}] \in States(Nodes, started')
       /\ \A d \in RealSlots(Nodes) :
             \/ OnStack(d, x.stack) = {} /\ InEntries(d, x.waiting[d.to]) = {}
             \/ d.to \in started' /\ d.data.node \in H
  BY <1>1, <1>2, <1>7, StartFacts
<1>11. State' = [stack |-> x.stack, waiting |-> x.waiting, overwritten |-> {}]
  BY <1>1 DEF State
<1>12. State' \in States(Nodes, Active')
  <2>1. /\ State'.stack \in Seq(ItemsOf(Nodes, started'))
        /\ State'.waiting \in WaitingOf(Nodes, started')
        /\ State'.overwritten = {}
        /\ State' = [stack |-> State'.stack, waiting |-> State'.waiting,
                     overwritten |-> State'.overwritten]
    BY <1>10, <1>11 DEF States
  <2>2. ItemsOf(Nodes, started') \subseteq ItemsOf(Nodes, Active')
    BY <1>7 DEF ItemsOf
  <2>3. WaitingOf(Nodes, started') \subseteq WaitingOf(Nodes, Active')
    BY <1>7 DEF WaitingOf
  <2>4. State'.stack \in Seq(ItemsOf(Nodes, Active'))
    BY <2>1, <2>2
  <2> HIDE DEF x
  <2> QED BY <2>1, <2>3, <2>4 DEF States
<1>13. DataTypes'
  BY <1>1, <1>3, <1>4, <1>12 DEF DataTypes
<1>14. ASSUME NEW c \in graph'.connections, c \notin GivenTwice', NEW run \in Nat,
              c.from \in Active'
       PROVE  LostNow(Datum(c, run))'
  <2> DEFINE d == Datum(c, run)
  <2>1. /\ d \in RealSlots(Nodes) /\ d.to = c.to /\ d.data.node = c.from
        /\ c.from \in Nodes /\ c.to \in Nodes
    BY <1>6 DEF Datum, RealSlots, RealData, Connections
  <2> HIDE DEF d
  <2>2. ~(c.to \in started' /\ c.from \in H)
    <3> SUFFICES ASSUME c.to \in started', c.from \in H PROVE FALSE
      OBVIOUS
    <3>1. c.from \in workflow.pinned
      BY <1>8, <1>14 DEF H, Giving
    <3>2. ({c.from} \cup {m \in graph'.nodes \ {c.from} : c.from \in Children(graph', m)})
             \cap started' # {}
      <4>1. PICK s \in started' : c.from = s \/ c.from \in Children(graph', s)
        BY <1>5, <1>14
      <4>2. s \in graph'.nodes
        BY <1>1
      <4> QED BY <4>1, <4>2
    <3>3. c \in GivenTwice'
      BY <1>1, <3>1, <3>2 DEF GivenTwice, Parents
    <3> QED BY <1>14, <3>3
  <2>3. OnStack(d, x.stack) = {} /\ InEntries(d, x.waiting[d.to]) = {}
    BY <1>10, <2>1, <2>2
  <2>4. InRuns(d, runData'[d.to]) = {}
    <3>1. runData'[d.to] = <<>>
      BY <1>8, <1>9, <1>14, <2>1
    <3> QED BY <3>1 DEF InRuns
  <2>5. State'.stack = x.stack /\ State'.waiting = x.waiting /\ State'.overwritten = {}
    BY <1>11
  <2> HIDE DEF x
  <2>6. LostNow(d)'
    BY <1>1, <2>3, <2>4, <2>5 DEF LostNow, Lost, Nowhere
  <2> QED BY <2>6 DEF d
<1>15. DataKnown'
  BY <1>14 DEF DataKnown
<1>16. ASSUME NEW n \in Nodes, NEW run \in Nat, run >= kept'[n] PROVE ~Made(runData', n, run)
  <2>1. runData'[n] \in Seq(RunsOf(Nodes)) /\ kept'[n] = Len(runData'[n])
    BY <1>1
  <2>2. DOMAIN runData'[n] = 1..Len(runData'[n]) /\ Len(runData'[n]) \in Nat
    BY <2>1
  <2>3. run + 1 \notin DOMAIN runData'[n]
    BY <1>16, <2>1, <2>2
  <2> QED BY <2>3 DEF Made
<1>17. DataPlaced'
  <2>1. \A c \in graph'.connections : c.from \in Nodes
    BY <1>6 DEF Connections
  <2> QED BY <1>16, <2>1 DEF DataPlaced
<1> QED BY <1>13, <1>15, <1>17

\* The invariant holds initially.
LEMMA InitDInv == Init => DInv
<1> SUFFICES ASSUME Init PROVE DInv
  OBVIOUS
<1>1. kept \in [Nodes -> Nat]
  BY DEF Init, Nodes
<1> QED BY <1>1, InitIInv, InitData DEF DInv

\* Every step keeps the invariant.
LEMMA NextDInv == DInv /\ [Next]_vars => DInv'
<1> SUFFICES ASSUME DInv, [Next]_vars PROVE DInv'
  OBVIOUS
<1>1. IInv'
  BY NextIInv DEF DInv
<1>2. kept \in [Nodes -> Nat]
  BY DEF DInv
<1>3. ASSUME (DataTypes /\ DataKnown /\ DataPlaced)', UNCHANGED <<workflow, kept>> PROVE DInv'
  BY <1>1, <1>2, <1>3 DEF DInv, Nodes
<1>4. ASSUME NEW target \in Nodes \ workflow.disabled, NEW dirty \in workflow.edited,
             RunPartialWorkflow(target, dirty)
      PROVE  DInv'
  <2>1. (DataTypes /\ DataKnown /\ DataPlaced)'
    BY <1>4, RunPartialData
  <2>2. /\ UNCHANGED workflow /\ kept' = [n \in Nodes |-> Len(runData'[n])]
        /\ runData' \in [Nodes -> Seq(RunsOf(Nodes))]
    BY <1>4, PartialStart
  <2>3. kept' \in [Nodes -> Nat]
    BY <2>2, LenProperties
  <2> QED BY <1>1, <2>1, <2>2, <2>3 DEF DInv, Nodes
<1>5. CASE TakeNode
  BY <1>3, <1>5, TakeNodeData DEF TakeNode, execVars
<1>6. CASE FinishNode
  BY <1>3, <1>6, FinishNodeData DEF FinishNode, execVars
<1>7. CASE ReturnNothing
  BY <1>3, <1>7, ReturnNothingData DEF ReturnNothing, execVars
<1>8. ASSUME NEW newStatus \in {"error", "waiting"}, current # None, Stop(newStatus)
      PROVE  DInv'
  <2>1. UNCHANGED <<workflow, kept, executions>>
    BY <1>8 DEF Stop, execVars
  <2> QED BY <1>3, <1>8, <2>1, StopData
<1>9. CASE FailNode
  BY <1>8, <1>9 DEF FailNode
<1>10. CASE PutToWait
  BY <1>8, <1>10 DEF PutToWait
<1>11. CASE Resume
  BY <1>3, <1>11, ResumeData DEF Resume, execVars
<1>12. CASE Cancel \/ Finish \/ UNCHANGED vars
  <2>1. UNCHANGED <<workflow, execVars, executions, stack, waiting, overwritten, runData,
                    current, spent>>
        /\ (status' # "waiting" \/ status' = status)
    BY <1>12 DEF Cancel, Finish, vars, counters
  <2>2. (DataTypes /\ DataKnown /\ DataPlaced)'
    BY <2>1, StatusData
  <2> QED BY <1>3, <2>1, <2>2 DEF execVars
<1> QED BY <1>4, <1>5, <1>6, <1>7, <1>9, <1>10, <1>11, <1>12 DEF Next

\* The places of data, counted.
LEMMA PlacesCounted ==
    ASSUME NEW d
    PROVE  /\ ~LostNow(d) => Places(d) # {}
           /\ UniqueNow(d) => Cardinality(Places(d)) = 1
<1> DEFINE S == OnStack(d, stack)
           W == InEntries(d, waiting[d.to])
           R == InRuns(d, runData[d.to])
           cur == current # None /\ current.node = d.to /\ Holds(current.inputs, d)
           all == {<<"stack", i>> : i \in S} \cup {<<"waiting", i>> : i \in W} \cup
                  {<<"run", k>> : k \in R} \cup
                  {<<"current", 0>> : x \in {y \in {current} \ {None} : cur}} \cup
                  {<<"spent", 0>> : x \in {d} \cap spent} \cup
                  {<<"overwritten", 0>> : x \in {d} \cap overwritten}
<1>1. Places(d) = all
  BY DEF Places, OnStack, InEntries, InRuns, Holds
<1>2. /\ LostNow(d) <=> Nowhere(S, W, R, cur, d \in spent, d \in overwritten)
      /\ UniqueNow(d) <=> InOne(S, W, R, cur, d \in spent, d \in overwritten)
  BY DEF LostNow, Lost, UniqueNow, Unique, State
<1>3. cur => current # None
  OBVIOUS
<1> HIDE DEF S, W, R, cur
<1>4. ~LostNow(d) => all # {}
  BY <1>2, <1>3 DEF Nowhere
<1>5. UniqueNow(d) => \E p : all = {p}
  <2> SUFFICES ASSUME InOne(S, W, R, cur, d \in spent, d \in overwritten)
               PROVE  \E p : all = {p}
    BY <1>2
  <2>1. CASE S # {}
    <3>1. PICK i : S = {i}
      BY <2>1 DEF InOne, One
    <3>2. all = {<<"stack", i>>}
      BY <2>1, <3>1 DEF InOne
    <3> QED BY <3>2
  <2>2. CASE W # {}
    <3>1. PICK i : W = {i}
      BY <2>2 DEF InOne, One
    <3>2. all = {<<"waiting", i>>}
      BY <2>2, <3>1 DEF InOne
    <3> QED BY <3>2
  <2>3. CASE R # {}
    <3>1. PICK i : R = {i}
      BY <2>3 DEF InOne, One
    <3>2. all = {<<"run", i>>}
      BY <2>3, <3>1 DEF InOne
    <3> QED BY <3>2
  <2>4. CASE cur
    <3>1. all = {<<"current", 0>>}
      BY <2>4, <1>3 DEF InOne
    <3> QED BY <3>1
  <2>5. CASE d \in spent
    <3>1. all = {<<"spent", 0>>}
      BY <2>5 DEF InOne
    <3> QED BY <3>1
  <2>6. CASE d \in overwritten
    <3>1. all = {<<"overwritten", 0>>}
      BY <2>6 DEF InOne
    <3> QED BY <3>1
  <2> QED BY <2>1, <2>2, <2>3, <2>4, <2>5, <2>6 DEF InOne
<1>6. \A p : Cardinality({p}) = 1
  BY FS_Singleton
<1> HIDE DEF all
<1> QED BY <1>1, <1>4, <1>5, <1>6

\* The invariant says where each delivery is.
LEMMA DInvImplies == DInv => DeliveredOnce
<1> SUFFICES ASSUME DInv, NEW d \in Deliveries
             PROVE  \/ Cardinality(Places(d)) = 1
                    \/ /\ Places(d) # {}
                       /\ \E c \in GivenTwice :
                             c.from = d.data.node /\ c.to = d.to /\ c.input = d.input
  BY DEF DeliveredOnce
<1>1. PICK c \in graph.connections :
         /\ c.from # destination
         /\ \E k \in kept[c.from] + 1..Len(runData[c.from]) :
               /\ runData[c.from][k].status = "success" /\ c.output \in runData[c.from][k].out
               /\ d = Datum(c, k - 1)
  BY DEF Deliveries, Datum
<1>2. PICK k \in kept[c.from] + 1..Len(runData[c.from]) :
         /\ runData[c.from][k].status = "success" /\ c.output \in runData[c.from][k].out
         /\ d = Datum(c, k - 1)
  BY <1>1
<1>3. kept[c.from] \in Nat /\ runData[c.from] \in Seq(RunsOf(Nodes))
  BY DataFacts DEF Connections, DInv
<1>4. DOMAIN runData[c.from] = 1..Len(runData[c.from]) /\ Len(runData[c.from]) \in Nat
  BY <1>3
<1>5. k - 1 \in Nat /\ k - 1 + 1 = k /\ k \in DOMAIN runData[c.from] /\ k - 1 >= kept[c.from]
  BY <1>3, <1>4
<1>6. Made(runData, c.from, k - 1) /\ c.output \in runData[c.from][k - 1 + 1].out
  BY <1>2, <1>5 DEF Made
<1>7. ~LostNow(d) /\ (c \in GivenTwice \/ UniqueNow(d))
  BY <1>1, <1>2, <1>5, <1>6 DEF DInv, DataPlaced
<1>8. d.data.node = c.from /\ d.to = c.to /\ d.input = c.input
  BY <1>2 DEF Datum
<1> QED BY <1>7, <1>8, PlacesCounted

\* Of any workflow, with cycles, partial executions, failures, waits and
\* cancelations at any time: what an output gave reaches each input connected
\* to it once, or is accounted for as spent or overwritten; only a start node
\* with pinned data above another start node may get its data twice.
THEOREM DataDeliveredOnce == Spec => []DeliveredOnce
<1>1. Spec => []DInv
  BY InitDInv, NextDInv, PTL DEF Spec
<1> QED BY <1>1, DInvImplies, PTL

-----------------------------------------------------------------------------
(* Runs of a node *)

\* The indices of a node on the stack; the nodes of which something is on the
\* stack, waits or, in cur, is being run.
Queued(n, st) == {i \in DOMAIN st : st[i].node = n}
Busy(x, cur) ==
    {n \in Nodes : Queued(n, x.stack) # {} \/ DOMAIN x.waiting[n] # {} \/ n \in cur}

\* Nothing leads to a node any more.
Idle(m, busy) == \A b \in busy : m # b /\ m \notin Children(graph, b)

\* A connection that has given its data, or will never.
Got(c, busy, fed) == c \in fed \/ Idle(c.from, busy)

HasData(array, i) == i \in DOMAIN array /\ IsData(array[i])

\* An entry that lacks an element for each input that has no data yet, be it
\* that one is missing, of two inputs, or is null.
Awaits(n, entry) ==
    /\ \E i \in DOMAIN entry : IsData(entry[i])
    /\ Len(entry) <= NumberOfInputs(n)
    /\ NumberOfInputs(n) # 2 => Len(entry) = NumberOfInputs(n) /\ Hole \notin Range(entry)

\* A node that is about to run, runs or, if in ran, has run.
Released(n, x, cur, ran) == Queued(n, x.stack) # {} \/ n \in cur \/ n \in ran

\* A node is released once, and while it waits it was not, in a single entry.
AtMostOnce(n, x, cur, ran) ==
    /\ One(Queued(n, x.stack))
    /\ Queued(n, x.stack) # {} => n \notin cur \cup ran
    /\ n \notin cur \cap ran
    /\ DOMAIN x.waiting[n] # {} => /\ ~Released(n, x, cur, ran)
                                   /\ One(DOMAIN x.waiting[n])
                                   /\ NumberOfInputs(n) > 1

\* It was released with all that it will ever get, and the data of an entry
\* was given.
WithAll(n, x, cur, ran, fed) ==
    /\ Released(n, x, cur, ran) =>
          \A c \in DirectParentConnections(graph, n) : Got(c, Busy(x, cur), fed)
    /\ \A i \in DOMAIN x.waiting[n] :
          /\ Awaits(n, x.waiting[n][i])
          /\ \A c \in DirectParentConnections(graph, n) :
                HasData(x.waiting[n][i], c.input + 1) => Got(c, Busy(x, cur), fed)

Once(n, x, cur, ran, fed) == AtMostOnce(n, x, cur, ran) /\ WithAll(n, x, cur, ran, fed)

\* What nothing leads to stays so when a busy node makes a child busy.
LEMMA IdleKept ==
    ASSUME Closed(graph), NEW c \in graph.connections, NEW busy, c.from \in busy,
           NEW new, new \subseteq busy \cup {c.to}
    PROVE  \A m : Idle(m, busy) => Idle(m, new)
<1> SUFFICES ASSUME NEW m, Idle(m, busy) PROVE Idle(m, new)
  OBVIOUS
<1>1. m \notin Children(graph, c.from) /\ c.to \in Children(graph, c.from)
  BY ChildrenClosed DEF Idle
<1>2. Children(graph, c.to) \subseteq Children(graph, c.from)
  BY <1>1, ChildrenTransitive
<1>3. m # c.to /\ m \notin Children(graph, c.to)
  BY <1>1, <1>2
<1> QED BY <1>3 DEF Idle

SameQueued(n, st, new) ==
    /\ Queued(n, new) = {} <=> Queued(n, st) = {}
    /\ One(Queued(n, st)) => One(Queued(n, new))

\* The indices of a node after an item was pushed.
LEMMA QueuedPushed ==
    ASSUME NEW T, NEW st \in Seq(T), NEW item \in T,
           NEW new, new = <<item>> \o st
    PROVE  /\ \A n : n # item.node => SameQueued(n, st, new)
           /\ Queued(item.node, new) # {}
           /\ Queued(item.node, st) = {} => One(Queued(item.node, new))
<1>1. /\ new \in Seq(T)
      /\ Len(new) = 1 + Len(st)
      /\ \A i \in 1..(1 + Len(st)) : new[i] = IF i <= 1 THEN <<item>>[i] ELSE st[i - 1]
  <2>1. <<item>> \in Seq(T) /\ Len(<<item>>) = 1
    OBVIOUS
  <2> QED BY <2>1, ConcatProperties
<1>2. Len(st) \in Nat /\ DOMAIN st = 1..Len(st) /\ DOMAIN new = 1..(1 + Len(st))
  BY <1>1, LenProperties
<1>3. new[1] = item /\ 1 \in DOMAIN new
  BY <1>1, <1>2
<1>4. \A i \in DOMAIN new : i # 1 => i - 1 \in DOMAIN st /\ new[i] = st[i - 1] /\ i \in Nat
  BY <1>1, <1>2
<1>5. \A i \in DOMAIN st : i + 1 \in DOMAIN new /\ new[i + 1] = st[i]
  <2> TAKE i \in DOMAIN st
  <2>1. i + 1 \in DOMAIN new /\ i + 1 # 1 /\ i + 1 - 1 = i
    BY <1>2
  <2> QED BY <1>4, <2>1
<1>6. ASSUME NEW n, n # item.node
      PROVE  SameQueued(n, st, new)
  <2>1. \A i \in Queued(n, new) : i - 1 \in Queued(n, st) /\ i \in Nat
    BY <1>3, <1>4, <1>6 DEF Queued
  <2>2. \A i \in Queued(n, st) : i + 1 \in Queued(n, new)
    BY <1>5 DEF Queued
  <2>3. ASSUME One(Queued(n, st)), NEW i \in Queued(n, new), NEW j \in Queued(n, new)
        PROVE  i = j
    <3>1. i - 1 = j - 1 /\ i \in Nat /\ j \in Nat
      BY <2>1, <2>3 DEF One
    <3> QED BY <3>1
  <2> QED BY <2>1, <2>2, <2>3 DEF One, SameQueued
<1>7. Queued(item.node, new) # {}
  BY <1>3 DEF Queued
<1>8. ASSUME Queued(item.node, st) = {} PROVE One(Queued(item.node, new))
  <2>1. \A i \in Queued(item.node, new) : i = 1
    BY <1>4, <1>8 DEF Queued
  <2> QED BY <2>1 DEF One
<1> QED BY <1>6, <1>7, <1>8

\* Data written into an entry: it then has all its data, or still lacks some.
LEMMA EntryWritten ==
    ASSUME GraphOver(Nodes, graph), {None, Hole} \cap RealData(Nodes) = {},
           NEW n, NumberOfInputs(n) > 1, None # Hole,
           NEW i \in 1..NumberOfInputs(n), NEW data \in RealData(Nodes),
           NEW before \in Arrays(Nodes),
           before = AllNull(n) \/ (Awaits(n, before) /\ ~HasData(before, i)),
           NEW entry, entry = WriteAt(before, i, data)
    PROVE  /\ entry \in Arrays(Nodes) /\ Awaits(n, entry)
           /\ HasData(entry, i)
           /\ \A j : j # i /\ HasData(entry, j) => HasData(before, j)
           /\ None \notin Range(entry) => \A j \in 1..NumberOfInputs(n) : HasData(entry, j)
<1> DEFINE N == NumberOfInputs(n)
<1>1. N \in Nat /\ N > 1
  BY NumberOfInputsType
<1> HIDE DEF N
<1>2. i \in 1..N /\ i \in Nat \ {0} /\ data \in Values(Nodes) /\ IsData(data)
  BY <1>1 DEF Values, RealData, IsData, N
<1>3. /\ entry \in Arrays(Nodes) /\ i \in DOMAIN entry /\ entry[i] = data
      /\ DOMAIN before \subseteq DOMAIN entry
      /\ \A k \in DOMAIN entry \ {i} :
            entry[k] = IF k \in DOMAIN before THEN before[k] ELSE Hole
  BY <1>2, Written
<1>4. /\ Len(before) \in Nat /\ DOMAIN before = 1..Len(before)
      /\ Len(entry) \in Nat /\ DOMAIN entry = 1..Len(entry)
  BY <1>3, LenProperties DEF Arrays
<1>5. Len(entry) = IF i > Len(before) THEN i ELSE Len(before)
  BY <1>2, <1>4 DEF WriteAt
<1>6. HasData(entry, i)
  BY <1>2, <1>3 DEF HasData
<1>7. \A j : j # i /\ HasData(entry, j) => HasData(before, j)
  BY <1>3 DEF HasData, IsData
<1>8. CASE before = AllNull(n)
  <2>1. DOMAIN before = 1..N /\ \A k \in 1..N : before[k] = None
    BY <1>8 DEF AllNull, N
  <2>2. Len(before) = N
    <3> DEFINE L == Len(before)
    <3>1. L \in Nat /\ 1..L = 1..N
      BY <1>4, <2>1
    <3> HIDE DEF L
    <3>2. N \in 1..L /\ L \in 1..N
      BY <1>1, <3>1
    <3> QED BY <1>1, <3>1, <3>2 DEF L
  <2>3. Len(entry) = N
    BY <1>1, <1>2, <1>5, <2>2
  <2>4. \A k \in DOMAIN entry : k # i => entry[k] = None
    BY <1>3, <1>4, <2>1, <2>3
  <2>5. Hole \notin Range(entry)
    BY <1>2, <1>3, <2>4 DEF Range, IsData
  <2>6. Awaits(n, entry)
    BY <1>1, <1>6, <2>3, <2>5 DEF Awaits, HasData, N
  <2>7. None \in Range(entry)
    <3>1. PICK k \in 1..N : k # i
      <4>1. 1 \in 1..N /\ 2 \in 1..N
        BY <1>1
      <4> QED BY <4>1
    <3>2. k \in DOMAIN entry /\ entry[k] = None
      BY <1>4, <2>3, <2>4, <3>1
    <3> QED BY <3>2 DEF Range
  <2> QED BY <1>3, <1>6, <1>7, <2>6, <2>7
<1>9. CASE Awaits(n, before) /\ ~HasData(before, i)
  <2>1. PICK k \in DOMAIN before : IsData(before[k])
    BY <1>9 DEF Awaits
  <2>2. k # i /\ k \in DOMAIN entry /\ entry[k] = before[k] /\ k \in 1..N
        /\ Len(before) <= N /\ k \in Nat
    <3>1. Len(before) <= N
      BY <1>9 DEF Awaits, N
    <3> QED BY <1>1, <1>3, <1>4, <1>9, <2>1, <3>1 DEF HasData
  <2>3. Len(entry) <= N
    BY <1>1, <1>2, <1>4, <1>5, <2>2
  <2>4. CASE N = 2
    <3>1. \A j \in 1..N : j = i \/ j = k
      BY <1>2, <2>2, <2>4
    <3>2. \A j \in 1..N : HasData(entry, j)
      BY <1>6, <2>1, <2>2, <3>1 DEF HasData
    <3>3. Awaits(n, entry)
      BY <1>6, <2>3, <2>4 DEF Awaits, HasData, N
    <3> QED BY <1>3, <1>6, <1>7, <3>2, <3>3 DEF N
  <2>5. CASE N # 2
    <3>1. Len(before) = N /\ Hole \notin Range(before)
      BY <1>9, <2>5 DEF Awaits, N
    <3>2. Len(entry) = N
      BY <1>1, <1>2, <1>5, <3>1
    <3>3. \A j \in DOMAIN entry : j # i => j \in DOMAIN before /\ entry[j] = before[j]
      BY <1>3, <1>4, <3>1, <3>2
    <3>4. \A j \in DOMAIN entry : entry[j] # Hole
      BY <1>2, <1>3, <3>1, <3>3 DEF Range, IsData
    <3>5. Awaits(n, entry)
      BY <1>6, <3>2, <3>4, <2>3 DEF Awaits, HasData, Range, N
    <3>6. None \notin Range(entry) => \A j \in 1..N : HasData(entry, j)
      BY <1>4, <3>2, <3>4 DEF HasData, IsData, Range
    <3> QED BY <1>3, <1>6, <1>7, <3>5, <3>6 DEF N
  <2> QED BY <2>4, <2>5
<1> QED BY <1>8, <1>9

\* addNodeToBeExecuted() changes one node, and the stack by an item of it.
OnlyAdds(x, y, A, n) ==
    /\ \A m \in Nodes \ {n} : y.waiting[m] = x.waiting[m]
    /\ \/ y.stack = x.stack
       \/ \E item \in ItemsOf(Nodes, A) : item.node = n /\ y.stack = <<item>> \o x.stack

\* Node n is put on the stack with all its inputs, or waits in one entry; other
\* than that of input i, the data was in an entry.
AddsOnce(x, y, A, n, i) ==
    \/ /\ \E item \in ItemsOf(Nodes, A) : item.node = n /\ y.stack = <<item>> \o x.stack
       /\ DOMAIN y.waiting[n] = {}
       /\ \A j \in 1..NumberOfInputs(n) \ {i} :
             \E e \in DOMAIN x.waiting[n] : HasData(x.waiting[n][e], j)
    \/ /\ y.stack = x.stack /\ NumberOfInputs(n) > 1
       /\ One(DOMAIN y.waiting[n])
       /\ \A k \in DOMAIN y.waiting[n] :
             /\ Awaits(n, y.waiting[n][k])
             /\ \A j : j # i /\ HasData(y.waiting[n][k], j) =>
                   \E e \in DOMAIN x.waiting[n] : HasData(x.waiting[n][e], j)

\* So it is for a node with at most one entry, which lacks the data.
LEMMA AddNodeTo ==
    ASSUME GraphOver(Nodes, graph), {None, Hole} \cap RealData(Nodes) = {}, None # Hole,
           NEW A, A \subseteq Nodes, NEW x \in States(Nodes, A), NEW c \in graph.connections,
           c.to \in A, NEW run \in Nat, One(DOMAIN x.waiting[c.to]),
           \A i \in DOMAIN x.waiting[c.to] :
              /\ NumberOfInputs(c.to) > 1
              /\ Awaits(c.to, x.waiting[c.to][i])
              /\ ~HasData(x.waiting[c.to][i], c.input + 1),
           NEW y, y = AddNodeToBeExecuted(x, c, run)
    PROVE  OnlyAdds(x, y, A, c.to) /\ AddsOnce(x, y, A, c.to, c.input + 1)
<1> DEFINE n == c.to
           data == [node |-> c.from, output |-> c.output, run |-> run]
           entries == x.waiting[n]
           lacking == {i \in DOMAIN entries :
                          c.input + 1 > Len(entries[i]) \/ ~IsData(entries[i][c.input + 1])}
           index == IF lacking # {} THEN Min(lacking) ELSE Cardinality(DOMAIN entries)
           before == IF lacking # {} THEN entries[index] ELSE AllNull(n)
           lost == IF lacking # {} \/ index \notin DOMAIN entries THEN {}
                   ELSE Inputs(n, entries[index])
           entry == WriteAt(before, c.input + 1, data)
           inputs == IF NumberOfInputs(n) = 1 THEN <<data>> ELSE entry
           item == [node |-> n, resumed |-> FALSE, inputs |-> inputs]
<1>1. /\ c.from \in Nodes /\ n \in Nodes /\ c.output \in Nat /\ c.input \in Nat
      /\ data \in RealData(Nodes) /\ data \in Values(Nodes)
  BY DEF GraphOver, Connections, RealData, Values
<1>2. NumberOfInputs(n) \in Nat \ {0} /\ c.input + 1 \in 1..NumberOfInputs(n)
  <2>1. NumberOfInputs(n) \in Nat \ {0} /\ c.input < NumberOfInputs(n)
    BY NumberOfInputsType
  <2> HIDE DEF n
  <2> QED BY <1>1, <2>1
<1>3. /\ entries \in EntryArrays(Nodes) /\ DOMAIN entries \subseteq Nat
      /\ IsFiniteSet(DOMAIN entries)
      /\ \A i \in DOMAIN entries : entries[i] \in Arrays(Nodes)
      /\ x.waiting \in [Nodes -> EntryArrays(Nodes)] /\ x.stack \in Seq(ItemsOf(Nodes, A))
      /\ x = [stack |-> x.stack, waiting |-> x.waiting, overwritten |-> x.overwritten]
  <2>1. entries \in EntryArrays(Nodes) /\ x.waiting \in [Nodes -> EntryArrays(Nodes)]
        /\ x.stack \in Seq(ItemsOf(Nodes, A))
        /\ x = [stack |-> x.stack, waiting |-> x.waiting, overwritten |-> x.overwritten]
    BY <1>1 DEF States, WaitingOf
  <2> HIDE DEF entries
  <2> QED BY <2>1 DEF EntryArrays
<1>4. /\ NumberOfInputs(n) = 1 => y = [x EXCEPT !.stack = <<item>> \o @]
      /\ NumberOfInputs(n) # 1 /\ None \notin Range(entry) =>
            y = [x EXCEPT !.stack = <<item>> \o @,
                          !.waiting[n] = [i \in DOMAIN entries \ {index} |-> entries[i]],
                          !.overwritten = @ \cup lost]
      /\ NumberOfInputs(n) # 1 /\ ~(None \notin Range(entry)) =>
            y = [x EXCEPT !.waiting[n] = [i \in DOMAIN entries \cup {index} |->
                                            IF i = index THEN entry ELSE entries[i]],
                          !.overwritten = @ \cup lost]
  BY DEF AddNodeToBeExecuted
<1>5. /\ item.node = n
      /\ inputs \in Arrays(Nodes) => item \in ItemsOf(Nodes, A)
  BY DEF ItemsOf
<1>6. lacking = DOMAIN entries
  <2>1. ASSUME NEW i \in DOMAIN entries PROVE i \in lacking
    <3>1. ~HasData(entries[i], c.input + 1) /\ entries[i] \in Arrays(Nodes)
      BY <1>3
    <3>2. DOMAIN entries[i] = 1..Len(entries[i]) /\ Len(entries[i]) \in Nat
      BY <3>1, LenProperties DEF Arrays
    <3>3. c.input + 1 > Len(entries[i]) \/ ~IsData(entries[i][c.input + 1])
      BY <1>1, <3>1, <3>2 DEF HasData
    <3> QED BY <3>3
  <2> QED BY <2>1
<1>7. /\ index \in Nat
      /\ DOMAIN entries # {} => index \in DOMAIN entries /\ before = entries[index]
      /\ DOMAIN entries = {} => before = AllNull(n)
  <2>1. Cardinality(DOMAIN entries) \in Nat
    BY <1>3, FS_CardinalityType
  <2>2. lacking # {} => Min(lacking) \in lacking
    BY <1>3, <1>6, MinProperties
  <2> HIDE DEF entries, lacking
  <2> QED BY <1>3, <1>6, <2>1, <2>2
<1>8. DOMAIN entries \subseteq {index} /\ One({index})
  BY <1>7 DEF One
<1>9. ASSUME NumberOfInputs(n) # 1
      PROVE  /\ entry \in Arrays(Nodes) /\ Awaits(n, entry)
             /\ \A j : j # c.input + 1 /\ HasData(entry, j) =>
                   \E i \in DOMAIN entries : HasData(entries[i], j)
             /\ None \notin Range(entry) =>
                   \A j \in 1..NumberOfInputs(n) : HasData(entry, j)
  <2>1. NumberOfInputs(n) > 1
    BY <1>2, <1>9
  <2>2. before \in Arrays(Nodes)
    <3>1. AllNull(n) \in [1..NumberOfInputs(n) -> Values(Nodes)]
      BY DEF AllNull, Values
    <3>2. AllNull(n) \in Arrays(Nodes)
      BY <1>2, <3>1, SeqDef DEF Arrays
    <3> HIDE DEF before, entries, index
    <3> QED BY <1>3, <1>7, <3>2
  <2>3. \/ before = AllNull(n)
        \/ Awaits(n, before) /\ ~HasData(before, c.input + 1)
    BY <1>7
  <2>4. \A j : HasData(before, j) => \E i \in DOMAIN entries : HasData(entries[i], j)
    <3>1. \A j : ~HasData(AllNull(n), j)
      BY DEF HasData, AllNull, IsData
    <3> HIDE DEF before, entries, index, HasData
    <3> QED BY <1>7, <3>1
  <2>5. /\ entry \in Arrays(Nodes) /\ Awaits(n, entry)
        /\ \A j : j # c.input + 1 /\ HasData(entry, j) => HasData(before, j)
        /\ None \notin Range(entry) => \A j \in 1..NumberOfInputs(n) : HasData(entry, j)
    <3> DEFINE i == c.input + 1
               b == before
               d == data
    <3>1. i \in 1..NumberOfInputs(n) /\ d \in RealData(Nodes) /\ b \in Arrays(Nodes)
          /\ (b = AllNull(n) \/ (Awaits(n, b) /\ ~HasData(b, i)))
      BY <1>1, <1>2, <2>2, <2>3
    <3>2. entry = WriteAt(b, i, d)
      OBVIOUS
    <3> HIDE DEF i, b, d, entry
    <3>3. /\ entry \in Arrays(Nodes) /\ Awaits(n, entry)
          /\ \A j : j # i /\ HasData(entry, j) => HasData(b, j)
          /\ None \notin Range(entry) => \A j \in 1..NumberOfInputs(n) : HasData(entry, j)
      BY <2>1, <3>1, <3>2, EntryWritten
    <3> QED BY <3>3 DEF i, b
  <2> HIDE DEF before, entry, entries
  <2> QED BY <2>4, <2>5
<1> HIDE DEF item, entry, before, lost, entries, index, lacking, data
<1>10. CASE NumberOfInputs(n) = 1
  <2>1. y.stack = <<item>> \o x.stack /\ y.waiting = x.waiting
    BY <1>3, <1>4, <1>10
  <2>2. item \in ItemsOf(Nodes, A)
    <3>1. inputs \in Arrays(Nodes)
      BY <1>1, <1>10 DEF Arrays
    <3> QED BY <1>5, <3>1
  <2>3. DOMAIN x.waiting[n] = {}
    BY <1>10
  <2>4. c.input + 1 = 1 /\ 1..NumberOfInputs(n) \ {c.input + 1} = {}
    BY <1>1, <1>2, <1>10
  <2>5. OnlyAdds(x, y, A, n)
    BY <1>5, <2>1, <2>2 DEF OnlyAdds
  <2>6. AddsOnce(x, y, A, n, c.input + 1)
    BY <1>5, <2>1, <2>2, <2>3, <2>4 DEF AddsOnce
  <2> QED BY <2>5, <2>6
<1>11. CASE NumberOfInputs(n) # 1 /\ None \notin Range(entry)
  <2> DEFINE out == [i \in DOMAIN entries \ {index} |-> entries[i]]
  <2>1. DOMAIN out = {}
    BY <1>8
  <2> HIDE DEF out
  <2>2. y.stack = <<item>> \o x.stack /\ y.waiting = [x.waiting EXCEPT ![n] = out]
    BY <1>3, <1>4, <1>11 DEF out
  <2>3. item \in ItemsOf(Nodes, A)
    BY <1>5, <1>9, <1>11
  <2>4. y.waiting[n] = out /\ \A m \in Nodes \ {n} : y.waiting[m] = x.waiting[m]
    BY <1>1, <1>3, <2>2
  <2>5. \A j \in 1..NumberOfInputs(n) \ {c.input + 1} :
           \E i \in DOMAIN x.waiting[n] : HasData(x.waiting[n][i], j)
    BY <1>9, <1>11 DEF entries
  <2>6. OnlyAdds(x, y, A, n)
    BY <1>5, <2>2, <2>3, <2>4 DEF OnlyAdds
  <2>7. AddsOnce(x, y, A, n, c.input + 1)
    <3> HIDE DEF n
    <3> QED BY <1>5, <2>1, <2>2, <2>3, <2>4, <2>5 DEF AddsOnce
  <2> QED BY <2>6, <2>7
<1>12. CASE NumberOfInputs(n) # 1 /\ ~(None \notin Range(entry))
  <2> DEFINE in == [i \in DOMAIN entries \cup {index} |-> IF i = index THEN entry ELSE entries[i]]
  <2>1. DOMAIN in = {index} /\ in[index] = entry
    BY <1>8
  <2> HIDE DEF in
  <2>2. y.stack = x.stack /\ y.waiting = [x.waiting EXCEPT ![n] = in]
    BY <1>3, <1>4, <1>12 DEF in
  <2>3. y.waiting[n] = in /\ \A m \in Nodes \ {n} : y.waiting[m] = x.waiting[m]
    BY <1>1, <1>3, <2>2
  <2>4. NumberOfInputs(n) > 1
    BY <1>2, <1>12
  <2>5. One(DOMAIN in) /\ \A k \in DOMAIN in : in[k] = entry
    BY <1>8, <2>1
  <2>6. \A k \in DOMAIN in :
           /\ Awaits(n, in[k])
           /\ \A j : j # c.input + 1 /\ HasData(in[k], j) =>
                 \E i \in DOMAIN x.waiting[n] : HasData(x.waiting[n][i], j)
    BY <1>9, <1>12, <2>5 DEF entries
  <2>7. OnlyAdds(x, y, A, n)
    BY <2>2, <2>3 DEF OnlyAdds
  <2>8. AddsOnce(x, y, A, n, c.input + 1)
    <3> HIDE DEF n
    <3> QED BY <2>2, <2>3, <2>4, <2>5, <2>6 DEF AddsOnce
  <2> QED BY <2>7, <2>8
<1> QED BY <1>10, <1>11, <1>12

\* addNodeToBeExecuted() changes one node.
LEMMA AddNodeElse ==
    ASSUME GraphOver(Nodes, graph), {None, Hole} \cap RealData(Nodes) = {}, None \notin Nodes,
           NEW A, A \subseteq Nodes, NEW x \in States(Nodes, A), NEW c \in graph.connections,
           c.to \in A, NEW run \in Nat, NEW y, y = AddNodeToBeExecuted(x, c, run)
    PROVE  OnlyAdds(x, y, A, c.to)
<1>1. /\ x.waiting \in [Nodes -> EntryArrays(Nodes)] /\ c.to \in Nodes
      /\ x = [stack |-> x.stack, waiting |-> x.waiting, overwritten |-> x.overwritten]
  BY DEF States, WaitingOf
<1>2. \/ \E item \in ItemsOf(Nodes, A) :
            /\ item.node = c.to /\ AddsItem(x, y, c.to, item)
            /\ \A d \in RealSlots(Nodes) :
                  d.to = c.to => (Holds(item.inputs, d) <=> d = Datum(c, run))
      \/ \E i, entry, lost :
            /\ Replaces(Nodes, x, i, entry, lost, Datum(c, run))
            /\ \/ AddsEntry(x, y, c.to, i, entry, lost)
               \/ Completes(x, y, c.to, i,
                     [node |-> c.to, resumed |-> FALSE, inputs |-> entry], lost)
  BY AddNodeCases
<1>3. ASSUME NEW item \in ItemsOf(Nodes, A), item.node = c.to, AddsItem(x, y, c.to, item)
      PROVE  /\ \A n \in Nodes \ {c.to} : y.waiting[n] = x.waiting[n]
             /\ y.stack = <<item>> \o x.stack
  BY <1>1, <1>3 DEF AddsItem
<1>4. ASSUME NEW i, NEW entry, NEW lost, AddsEntry(x, y, c.to, i, entry, lost)
      PROVE  /\ \A n \in Nodes \ {c.to} : y.waiting[n] = x.waiting[n]
             /\ y.stack = x.stack
  <2> DEFINE new == [j \in DOMAIN x.waiting[c.to] \cup {i} |->
                        IF j = i THEN entry ELSE x.waiting[c.to][j]]
  <2> HIDE DEF new
  <2>1. y.waiting = [x.waiting EXCEPT ![c.to] = new] /\ y.stack = x.stack
    BY <1>1, <1>4 DEF AddsEntry, new
  <2> QED BY <1>1, <2>1
<1>5. ASSUME NEW i, NEW item \in ItemsOf(Nodes, A), item.node = c.to, NEW lost,
             Completes(x, y, c.to, i, item, lost)
      PROVE  /\ \A n \in Nodes \ {c.to} : y.waiting[n] = x.waiting[n]
             /\ y.stack = <<item>> \o x.stack
  <2> DEFINE new == [j \in DOMAIN x.waiting[c.to] \ {i} |-> x.waiting[c.to][j]]
  <2> HIDE DEF new
  <2>1. y.waiting = [x.waiting EXCEPT ![c.to] = new] /\ y.stack = <<item>> \o x.stack
    BY <1>1, <1>5 DEF Completes, new
  <2> QED BY <1>1, <2>1
<1>6. ASSUME NEW i, NEW entry, NEW lost, Replaces(Nodes, x, i, entry, lost, Datum(c, run))
      PROVE  LET item == [node |-> c.to, resumed |-> FALSE, inputs |-> entry]
             IN  item \in ItemsOf(Nodes, A) /\ item.node = c.to
  <2>1. entry \in Arrays(Nodes)
    BY <1>6 DEF Replaces
  <2> QED BY <2>1 DEF ItemsOf
<1> QED BY <1>2, <1>3, <1>4, <1>5, <1>6 DEF OnlyAdds

\* Data that is given stays given.
LEMMA GotKept ==
    ASSUME NEW busy, NEW new, \A m : Idle(m, busy) => Idle(m, new),
           NEW fed, NEW more, fed \subseteq more
    PROVE  \A c : Got(c, busy, fed) => Got(c, new, more)
BY DEF Got

\* A node that a step leaves alone.
LEMMA OnceKept ==
    ASSUME NEW n, NEW x, NEW y, NEW cur, NEW ran, NEW fed, NEW more, fed \subseteq more,
           Once(n, x, cur, ran, fed),
           \A m : Idle(m, Busy(x, cur)) => Idle(m, Busy(y, cur)),
           y.waiting[n] = x.waiting[n],
           Queued(n, y.stack) = {} <=> Queued(n, x.stack) = {}, One(Queued(n, y.stack))
    PROVE  Once(n, y, cur, ran, more)
<1>1. \A c : Got(c, Busy(x, cur), fed) => Got(c, Busy(y, cur), more)
  BY GotKept
<1>2. Released(n, y, cur, ran) <=> Released(n, x, cur, ran)
  BY DEF Released
<1>3. AtMostOnce(n, y, cur, ran)
  BY <1>2 DEF Once, AtMostOnce
<1>4. WithAll(n, y, cur, ran, more)
  BY <1>1, <1>2 DEF Once, WithAll
<1> QED BY <1>3, <1>4 DEF Once

\* The data of a connection from a running node releases the node it leads to
\* for the first time, with all its data, or is added to the one entry.
LEMMA AddNodeOnce ==
    ASSUME GraphOver(Nodes, graph), SingleConnections,
           {None, Hole} \cap RealData(Nodes) = {}, None \notin Nodes, None # Hole,
           NEW A, A \subseteq Nodes, NEW x \in States(Nodes, A), NEW c \in graph.connections,
           c.to \in A, NEW run \in Nat, NEW y, y = AddNodeToBeExecuted(x, c, run),
           NEW cur, c.from \in cur, NEW ran, NEW fed, NEW P, P \subseteq Nodes,
           \A n \in P : Once(n, x, cur, ran, fed),
           c.to \in P => c \notin fed
    PROVE  \A n \in P : Once(n, y, cur, ran, fed \cup {c})
<1>1. /\ c.from \in Nodes /\ c.to \in Nodes /\ c.input \in Nat /\ Closed(graph)
      /\ c \in DirectParentConnections(graph, c.to)
      /\ \A d \in DirectParentConnections(graph, c.to) : d.input \in Nat
  BY DEF GraphOver, Connections, DirectParentConnections
<1>2. c.from \in Busy(x, cur)
  BY <1>1 DEF Busy
<1>3. x.stack \in Seq(ItemsOf(Nodes, A))
  BY DEF States
<1>4. /\ \A n \in Nodes \ {c.to} : y.waiting[n] = x.waiting[n]
      /\ \/ y.stack = x.stack
         \/ \E item \in ItemsOf(Nodes, A) :
               item.node = c.to /\ y.stack = <<item>> \o x.stack
  <2>1. OnlyAdds(x, y, A, c.to)
    BY AddNodeElse
  <2> QED BY <2>1 DEF OnlyAdds
<1>5. \A n \in Nodes \ {c.to} :
         /\ Queued(n, y.stack) = {} <=> Queued(n, x.stack) = {}
         /\ One(Queued(n, x.stack)) => One(Queued(n, y.stack))
  <2>1. CASE y.stack = x.stack
    BY <2>1
  <2>2. ASSUME NEW item \in ItemsOf(Nodes, A), item.node = c.to, y.stack = <<item>> \o x.stack
        PROVE  \A n \in Nodes \ {c.to} :
                  /\ Queued(n, y.stack) = {} <=> Queued(n, x.stack) = {}
                  /\ One(Queued(n, x.stack)) => One(Queued(n, y.stack))
    <3> DEFINE st == x.stack
               new == y.stack
    <3>1. st \in Seq(ItemsOf(Nodes, A)) /\ new = <<item>> \o st
      BY <1>3, <2>2
    <3> HIDE DEF st, new
    <3>2. \A n : n # item.node => SameQueued(n, st, new)
      BY <3>1, QueuedPushed
    <3> QED BY <2>2, <3>2 DEF st, new, SameQueued
  <2> QED BY <1>4, <2>1, <2>2
<1>6. \A m : Idle(m, Busy(x, cur)) => Idle(m, Busy(y, cur))
  <2>1. Busy(y, cur) \subseteq Busy(x, cur) \cup {c.to}
    BY <1>4, <1>5 DEF Busy
  <2> QED BY <1>1, <1>2, <2>1, IdleKept
<1>7. ASSUME NEW n \in P, n # c.to PROVE Once(n, y, cur, ran, fed \cup {c})
  <2>1. Once(n, x, cur, ran, fed) /\ n \in Nodes
    OBVIOUS
  <2>2. One(Queued(n, x.stack))
    BY <2>1 DEF Once, AtMostOnce
  <2> QED BY <1>4, <1>5, <1>6, <1>7, <2>1, <2>2, OnceKept
<1>8. ASSUME c.to \in P PROVE Once(c.to, y, cur, ran, fed \cup {c})
  <2> DEFINE n == c.to
             more == fed \cup {c}
             into == DirectParentConnections(graph, n)
  <2>1. Once(n, x, cur, ran, fed)
    BY <1>8
  <2>2. ~Got(c, Busy(x, cur), fed)
    BY <1>2, <1>8 DEF Got, Idle
  <2>3. ~Released(n, x, cur, ran)
    BY <1>1, <2>1, <2>2 DEF Once, WithAll
  <2>4. /\ One(DOMAIN x.waiting[n])
        /\ \A i \in DOMAIN x.waiting[n] :
              /\ NumberOfInputs(n) > 1 /\ Awaits(n, x.waiting[n][i])
              /\ ~HasData(x.waiting[n][i], c.input + 1)
    <3>1. DOMAIN x.waiting[n] # {} => One(DOMAIN x.waiting[n]) /\ NumberOfInputs(n) > 1
      BY <2>1 DEF Once, AtMostOnce
    <3>2. One({})
      BY DEF One
    <3>3. \A i \in DOMAIN x.waiting[n] :
             Awaits(n, x.waiting[n][i]) /\ ~HasData(x.waiting[n][i], c.input + 1)
      BY <1>1, <2>1, <2>2 DEF Once, WithAll
    <3> HIDE DEF n
    <3> QED BY <3>1, <3>2, <3>3
  <2>5. \A d : Got(d, Busy(x, cur), fed) => Got(d, Busy(y, cur), more)
    BY <1>6, GotKept
  <2>6. \A d \in into : d # c => d.input + 1 \in 1..NumberOfInputs(n) \ {c.input + 1}
    <3> SUFFICES ASSUME NEW d \in into, d # c
                 PROVE  d.input + 1 \in 1..NumberOfInputs(n) \ {c.input + 1}
      OBVIOUS
    <3>1. d \in graph.connections /\ d.to = n /\ d.input \in Nat
      BY <1>1 DEF DirectParentConnections
    <3>2. d.input # c.input
      BY <3>1 DEF SingleConnections
    <3>3. NumberOfInputs(n) \in Nat \ {0} /\ d.input < NumberOfInputs(n)
      BY <3>1, NumberOfInputsType
    <3> HIDE DEF n
    <3> QED BY <1>1, <3>1, <3>2, <3>3
  <2>7. \A d \in into, i \in DOMAIN x.waiting[n] :
           HasData(x.waiting[n][i], d.input + 1) => Got(d, Busy(y, cur), more)
    BY <2>1, <2>5 DEF Once, WithAll
  <2>8. Got(c, Busy(y, cur), more)
    BY DEF Got
  <2>9. \/ /\ \E item \in ItemsOf(Nodes, A) :
                 item.node = n /\ y.stack = <<item>> \o x.stack
           /\ DOMAIN y.waiting[n] = {}
           /\ \A j \in 1..NumberOfInputs(n) \ {c.input + 1} :
                 \E i \in DOMAIN x.waiting[n] : HasData(x.waiting[n][i], j)
        \/ /\ y.stack = x.stack /\ NumberOfInputs(n) > 1
           /\ One(DOMAIN y.waiting[n])
           /\ \A k \in DOMAIN y.waiting[n] :
                 /\ Awaits(n, y.waiting[n][k])
                 /\ \A j : j # c.input + 1 /\ HasData(y.waiting[n][k], j) =>
                       \E i \in DOMAIN x.waiting[n] : HasData(x.waiting[n][i], j)
    <3>1. AddsOnce(x, y, A, c.to, c.input + 1)
      BY <2>4, AddNodeTo
    <3> QED BY <3>1 DEF AddsOnce
  <2> HIDE DEF n, into, more
  <2>10. ASSUME NEW item \in ItemsOf(Nodes, A), item.node = n, y.stack = <<item>> \o x.stack,
                DOMAIN y.waiting[n] = {},
                \A j \in 1..NumberOfInputs(n) \ {c.input + 1} :
                   \E i \in DOMAIN x.waiting[n] : HasData(x.waiting[n][i], j)
         PROVE  Once(n, y, cur, ran, more)
    <3>1. Queued(n, x.stack) = {} /\ n \notin cur \cup ran
      BY <2>3 DEF Released
    <3>2. Queued(n, y.stack) # {} /\ One(Queued(n, y.stack))
      <4> DEFINE st == x.stack
                 new == y.stack
      <4>1. st \in Seq(ItemsOf(Nodes, A)) /\ new = <<item>> \o st /\ Queued(n, st) = {}
        BY <1>3, <2>10, <3>1
      <4> HIDE DEF st, new
      <4>2. /\ Queued(item.node, new) # {}
            /\ Queued(item.node, st) = {} => One(Queued(item.node, new))
        BY <4>1, QueuedPushed
      <4> QED BY <2>10, <4>1, <4>2 DEF new
    <3>3. AtMostOnce(n, y, cur, ran)
      BY <2>10, <3>1, <3>2 DEF AtMostOnce
    <3>4. ASSUME NEW d \in into PROVE Got(d, Busy(y, cur), more)
      <4>1. CASE d = c
        BY <2>8, <4>1
      <4>2. CASE d # c
        <5>1. d.input + 1 \in 1..NumberOfInputs(n) \ {c.input + 1}
          BY <2>6, <4>2
        <5> QED BY <2>7, <2>10, <5>1
      <4> QED BY <4>1, <4>2
    <3> QED BY <2>10, <3>3, <3>4 DEF Once, WithAll, into
  <2>11. ASSUME y.stack = x.stack, NumberOfInputs(n) > 1, One(DOMAIN y.waiting[n]),
                \A k \in DOMAIN y.waiting[n] :
                   /\ Awaits(n, y.waiting[n][k])
                   /\ \A j : j # c.input + 1 /\ HasData(y.waiting[n][k], j) =>
                         \E i \in DOMAIN x.waiting[n] : HasData(x.waiting[n][i], j)
         PROVE  Once(n, y, cur, ran, more)
    <3>1. ~Released(n, y, cur, ran)
      BY <2>3, <2>11 DEF Released
    <3>2. AtMostOnce(n, y, cur, ran)
      BY <2>1, <2>11, <3>1 DEF AtMostOnce, Once, Released
    <3>3. ASSUME NEW k \in DOMAIN y.waiting[n], NEW d \in into,
                 HasData(y.waiting[n][k], d.input + 1)
          PROVE  Got(d, Busy(y, cur), more)
      <4>1. CASE d = c
        BY <2>8, <4>1
      <4>2. CASE d # c
        <5> DEFINE j == d.input + 1
        <5>1. j \in 1..NumberOfInputs(n) \ {c.input + 1} /\ HasData(y.waiting[n][k], j)
          BY <2>6, <3>3, <4>2
        <5> HIDE DEF j
        <5>2. PICK i \in DOMAIN x.waiting[n] : HasData(x.waiting[n][i], j)
          BY <2>11, <5>1
        <5> QED BY <2>7, <5>2 DEF j
      <4> QED BY <4>1, <4>2
    <3> QED BY <2>11, <3>1, <3>2, <3>3 DEF Once, WithAll, into
  <2>12. Once(n, y, cur, ran, more)
    BY <2>9, <2>10, <2>11
  <2> QED BY <2>12 DEF n, more
<1> QED BY <1>7, <1>8

\* The states that following an order goes through, one connection at a time.
FollowsIn(order, run, G, it) ==
    /\ it \in [0..Len(order) -> G]
    /\ it[0] = [stack |-> stack, waiting |-> waiting, overwritten |-> overwritten]
    /\ \A k \in 1..Len(order) : it[k] = AddNodeToBeExecuted(it[k - 1], order[k], run)
    /\ Follow(order, run) = it[Len(order)]

\* Connections are followed one after the other.
LEMMA FollowSteps ==
    ASSUME NEW N, GraphOver(N, graph), NEW A, A \subseteq N,
           [stack |-> stack, waiting |-> waiting, overwritten |-> overwritten] \in States(N, A),
           {None, Hole} \cap RealData(N) = {}, None \notin N,
           NEW order \in Seq(graph.connections), \A i \in 1..Len(order) : order[i].to \in A,
           NEW run \in Nat
    PROVE  \E it : FollowsIn(order, run, States(N, A), it)
<1> DEFINE x == [stack |-> stack, waiting |-> waiting, overwritten |-> overwritten]
           n == Len(order)
           G == States(N, A)
           After(f) == f = [k \in 0..n |-> IF k = 0 THEN x
                                           ELSE AddNodeToBeExecuted(f[k - 1], order[k], run)]
           it == CHOOSE f : After(f)
           step == [p \in Nat \X G |-> IF p[1] \in 1..n
                                       THEN AddNodeToBeExecuted(p[2], order[p[1]], run) ELSE p[2]]
<1>1. n \in Nat /\ \A i \in 1..n : order[i] \in graph.connections
  BY LenProperties, ElementOfSeq
<1>2. Follow(order, run) = it[n]
  BY DEF Follow
<1> HIDE DEF x, n, G
<1>3. ASSUME NEW z \in G, NEW k \in 1..n
      PROVE  AddNodeToBeExecuted(z, order[k], run) \in G
  <2>1. order[k] \in graph.connections /\ order[k].to \in A
    BY <1>1 DEF n
  <2> QED BY <2>1, AddNodeMoves DEF G
<1>4. step \in [Nat \X G -> G]
  <2>1. ASSUME NEW p \in Nat \X G PROVE step[p] \in G
    <3>1. p[2] \in G
      OBVIOUS
    <3>2. CASE p[1] \in 1..n
      <4>1. AddNodeToBeExecuted(p[2], order[p[1]], run) \in G
        BY <1>3, <3>1, <3>2
      <4> QED BY <3>2, <4>1
    <3>3. CASE p[1] \notin 1..n
      BY <3>1, <3>3
    <3> QED BY <3>2, <3>3
  <2> HIDE DEF step
  <2>2. step = [p \in Nat \X G |-> step[p]]
    BY DEF step
  <2> QED BY <2>1, <2>2
<1>A. x \in G
  BY DEF x, G
<1>5. \E f : After(f)
  <2> HIDE DEF step
  <2>2. PICK f \in [0..n -> G] : Recurs(f, n, x, step)
    BY <1>1, <1>4, <1>A, Recursion
  <2>3. \A k \in 0..n : k # 0 =>
           step[<<k, f[k - 1]>>] = AddNodeToBeExecuted(f[k - 1], order[k], run)
    <3> TAKE k \in 0..n
    <3> HAVE k # 0
    <3>1. k - 1 \in 0..n /\ k \in Nat /\ k \in 1..n
      BY <1>1
    <3>2. <<k, f[k - 1]>> \in Nat \X G
      BY <3>1
    <3> QED BY <3>1, <3>2 DEF step
  <2>4. After(f)
    BY <2>2, <2>3 DEF Recurs
  <2> QED BY <2>4
<1>6. After(it)
  BY <1>5, Zenon
<1> HIDE DEF it
<1>7. /\ it[0] = x
      /\ \A k \in 1..n : it[k] = AddNodeToBeExecuted(it[k - 1], order[k], run)
  <2>1. \A k \in 0..n : it[k] = IF k = 0 THEN x
                                ELSE AddNodeToBeExecuted(it[k - 1], order[k], run)
    BY <1>6
  <2>2. 0 \in 0..n /\ \A k \in 1..n : k \in 0..n /\ k # 0
    BY <1>1
  <2> QED BY <2>1, <2>2
<1>8. it = [k \in 0..n |-> it[k]]
  BY <1>6
<1> HIDE DEF After, step
<1>9. \A k \in 0..n : it[k] \in G
  <2> DEFINE bad == {k \in 0..n : it[k] \notin G}
  <2> SUFFICES ASSUME bad # {} PROVE FALSE
    OBVIOUS
  <2>1. bad \subseteq Nat
    BY <1>1
  <2>2. PICK k \in bad : \A j \in bad : k <= j
    BY <2>1, LeastNumber
  <2>3. k \in 1..n
    BY <2>2, <1>1, <1>7, <1>A
  <2>4. k - 1 \in 0..n /\ ~(k <= k - 1)
    BY <2>3, <1>1
  <2>5. it[k - 1] \in G
    BY <2>2, <2>4
  <2> QED BY <1>3, <1>7, <2>2, <2>3, <2>5
<1>10. it \in [0..n -> G]
  BY <1>8, <1>9
<1>11. FollowsIn(order, run, G, it)
  BY <1>2, <1>7, <1>10 DEF FollowsIn, n, x
<1> QED BY <1>11 DEF G

\* Following the connections of a node that runs for the first time.
LEMMA FollowedOnce ==
    ASSUME GraphOver(Nodes, graph), SingleConnections,
           {None, Hole} \cap RealData(Nodes) = {}, None \notin Nodes, None # Hole,
           NEW A, A \subseteq Nodes,
           [stack |-> stack, waiting |-> waiting, overwritten |-> overwritten]
              \in States(Nodes, A),
           NEW order \in Seq(graph.connections),
           \A i, j \in 1..Len(order) : order[i] = order[j] => i = j,
           NEW cur,
           \A i \in 1..Len(order) : order[i].to \in A /\ order[i].from \in cur,
           NEW run \in Nat, NEW ran, NEW fed, NEW P, P \subseteq Nodes,
           \A n \in P : Once(n, [stack |-> stack, waiting |-> waiting,
                                 overwritten |-> overwritten], cur, ran, fed),
           \A i \in 1..Len(order) : order[i].to \in P => order[i] \notin fed
    PROVE  \A n \in P : Once(n, Follow(order, run), cur, ran,
                             fed \cup {order[i] : i \in 1..Len(order)})
<1> DEFINE n == Len(order)
           G == States(Nodes, A)
           Now(k) == fed \cup {order[i] : i \in 1..k}
           x == [stack |-> stack, waiting |-> waiting, overwritten |-> overwritten]
<1>1. n \in Nat /\ \A i \in 1..n : order[i] \in graph.connections
  BY LenProperties, ElementOfSeq
<1>2. PICK it : FollowsIn(order, run, G, it)
  BY FollowSteps
<1> HIDE DEF x
<1>3. /\ it \in [0..n -> G] /\ it[0] = x /\ Follow(order, run) = it[n]
      /\ \A k \in 1..n : it[k] = AddNodeToBeExecuted(it[k - 1], order[k], run)
  BY <1>2 DEF FollowsIn, x
<1> HIDE DEF n, G
<1> DEFINE Good(k) == \A m \in P : Once(m, it[k], cur, ran, Now(k))
           bad == {k \in 0..n : ~Good(k)}
<1>4. Good(0)
  <2>1. Now(0) = fed
    OBVIOUS
  <2> HIDE DEF Now
  <2> QED BY <1>3, <2>1 DEF x
<1>5. ASSUME NEW k \in 1..n, Good(k - 1) PROVE Good(k)
  <2> DEFINE c == order[k]
             z == it[k - 1]
             y == it[k]
             before == Now(k - 1)
  <2>1. /\ k - 1 \in 0..n /\ z \in G /\ c \in graph.connections
        /\ c.to \in A /\ c.from \in cur /\ y = AddNodeToBeExecuted(z, c, run)
    BY <1>1, <1>3 DEF n
  <2>2. Now(k) = before \cup {c}
    <3>1. \A i : i \in 1..k <=> i \in 1..(k - 1) \/ i = k
      BY <1>1
    <3> QED BY <3>1
  <2>3. c.to \in P => c \notin before
    <3> SUFFICES ASSUME c.to \in P, NEW i \in 1..(k - 1), c = order[i] PROVE FALSE
      BY <1>1 DEF n
    <3>1. i \in 1..n /\ i # k
      BY <1>1
    <3> QED BY <3>1 DEF n
  <2>4. \A m \in P : Once(m, z, cur, ran, before)
    BY <1>5
  <2> HIDE DEF c, z, y, before, Now
  <2>5. \A m \in P : Once(m, y, cur, ran, before \cup {c})
    BY <2>1, <2>3, <2>4, AddNodeOnce DEF G
  <2> QED BY <2>2, <2>5 DEF y
<1>6. bad = {}
  <2> HIDE DEF Good
  <2> SUFFICES ASSUME bad # {} PROVE FALSE
    OBVIOUS
  <2>1. bad \subseteq Nat
    BY <1>1
  <2>2. PICK k \in bad : \A j \in bad : k <= j
    BY <2>1, LeastNumber
  <2>3. k \in 1..n
    BY <2>2, <1>1, <1>4
  <2>4. k - 1 \in 0..n /\ ~(k <= k - 1)
    BY <2>3, <1>1
  <2>5. Good(k - 1)
    BY <2>2, <2>4
  <2> QED BY <1>5, <2>2, <2>3, <2>5
<1>7. Good(n)
  <2> HIDE DEF Good
  <2>1. n \in 0..n
    BY <1>1
  <2> QED BY <1>6, <2>1
<1> QED BY <1>3, <1>7 DEF n

\* Nothing leads to the parents of a node when neither the node, in a graph
\* without cycles, nor any node above it is busy.
LEMMA AllIdleAbove ==
    ASSUME Closed(graph), NEW busy, NEW n, n \notin Children(graph, n),
           Parents(graph, n) \cap busy = {}
    PROVE  \A c \in DirectParentConnections(graph, n) : Idle(c.from, busy)
<1> SUFFICES ASSUME NEW c \in graph.connections, c.to = n, NEW b \in busy,
                    c.from = b \/ c.from \in Children(graph, b)
             PROVE  FALSE
  BY DEF DirectParentConnections, Idle
<1>1. n \in Children(graph, b)
  BY ChildrenClosed
<1>2. b # n
  BY <1>1
<1>3. b \in graph.nodes
  <2> SUFFICES ASSUME b \notin graph.nodes PROVE FALSE
    OBVIOUS
  <2>1. \A d \in graph.connections : d.from # b
    BY DEF Closed
  <2>2. Children(graph, b) \subseteq {}
    BY <2>1, ChildrenClosed
  <2> QED BY <1>1, <2>2
<1> QED BY <1>1, <1>2, <1>3 DEF Parents

\* A waiting node that is put on the stack was not released before, and has
\* all that it will ever get: nothing else is busy but waiting nodes, and none
\* of them is above it.
LEMMA RunWaitingOnce ==
    ASSUME GraphOver(Nodes, graph), NEW A, A \subseteq Nodes,
           NEW x \in States(Nodes, A), RunWaiting(x), NEW ran, NEW fed,
           NEW P, P \subseteq Nodes, P # {} => Acyclic,
           \A n \in P : Once(n, x, {}, ran, fed),
           NEW y, y.stack = stack', y.waiting = waiting'
    PROVE  /\ \A n \in P : Once(n, y, {}, ran, fed)
           /\ Busy(y, {}) \subseteq Busy(x, {})
<1>1. /\ x.stack \in Seq(ItemsOf(Nodes, A)) /\ x.waiting \in [Nodes -> EntryArrays(Nodes)]
      /\ Closed(graph)
  BY DEF States, WaitingOf, GraphOver
<1>2. CASE y.stack = x.stack /\ y.waiting = x.waiting
  <2>1. Busy(y, {}) = Busy(x, {})
    BY <1>2 DEF Busy
  <2>2. ASSUME NEW n \in P PROVE Once(n, y, {}, ran, fed)
    <3>1. Once(n, x, {}, ran, fed)
      OBVIOUS
    <3> QED BY <1>2, <2>1, <3>1 DEF Once, AtMostOnce, WithAll, Released
  <2> QED BY <2>1, <2>2
<1>3. ASSUME x.stack = <<>>, NEW n \in Nodes, MayRun(n, x.waiting),
             stack' = <<[node |-> n, resumed |-> FALSE,
                         inputs |-> x.waiting[n][Min(DOMAIN x.waiting[n])]]>>,
             waiting' = [x.waiting EXCEPT ![n] =
                            [i \in DOMAIN x.waiting[n] \ {Min(DOMAIN x.waiting[n])} |->
                                x.waiting[n][i]]]
      PROVE  /\ \A m \in P : Once(m, y, {}, ran, fed)
             /\ Busy(y, {}) \subseteq Busy(x, {})
  <2> DEFINE e == x.waiting[n]
             index == Min(DOMAIN e)
             out == [i \in DOMAIN e \ {index} |-> e[i]]
             item == [node |-> n, resumed |-> FALSE, inputs |-> e[index]]
  <2>1. DOMAIN e # {} /\ Parents(graph, n) \cap WaitingNodes(x.waiting) = {}
    BY <1>3 DEF MayRun, WaitingNodes
  <2>2. /\ y.stack = <<item>> /\ y.waiting[n] = out
        /\ \A m \in Nodes \ {n} : y.waiting[m] = x.waiting[m]
    BY <1>1, <1>3
  <2>3. index \in DOMAIN e
    <3>1. e \in EntryArrays(Nodes)
      BY <1>1
    <3> HIDE DEF e
    <3>2. DOMAIN e \subseteq Nat
      BY <3>1 DEF EntryArrays
    <3> QED BY <2>1, <3>2, MinProperties
  <2>4. DOMAIN out = DOMAIN e \ {index} /\ item.node = n
    OBVIOUS
  <2> HIDE DEF e, index, out, item
  <2>5. /\ \A m : Queued(m, x.stack) = {}
        /\ \A m : m # n => Queued(m, y.stack) = {}
        /\ Queued(n, y.stack) = {1}
    <3>1. DOMAIN y.stack = {1} /\ y.stack[1] = item /\ DOMAIN x.stack = {}
      BY <1>3, <2>2
    <3> QED BY <2>4, <3>1 DEF Queued
  <2>6. Busy(x, {}) = WaitingNodes(x.waiting) /\ n \in Busy(x, {})
    BY <2>1, <2>5 DEF Busy, WaitingNodes, e
  <2>7. Busy(y, {}) \subseteq Busy(x, {})
    BY <2>2, <2>5, <2>6 DEF Busy
  <2>8. \A m : Idle(m, Busy(x, {})) => Idle(m, Busy(y, {}))
    BY <2>7 DEF Idle
  <2>9. One({}) /\ One({1})
    BY DEF One
  <2>10. ASSUME NEW m \in P, m # n PROVE Once(m, y, {}, ran, fed)
    <3>1. y.waiting[m] = x.waiting[m] /\ Once(m, x, {}, ran, fed)
      BY <2>2, <2>10
    <3>2. Queued(m, y.stack) = {} /\ Queued(m, x.stack) = {}
      BY <2>5, <2>10
    <3> QED BY <2>8, <2>9, <3>1, <3>2, OnceKept
  <2>11. ASSUME n \in P PROVE Once(n, y, {}, ran, fed)
    <3>1. Once(n, x, {}, ran, fed)
      BY <2>11
    <3>2. n \notin ran /\ One(DOMAIN e)
      BY <2>1, <3>1 DEF Once, AtMostOnce, Released, e
    <3>3. DOMAIN out = {}
      BY <2>3, <2>4, <3>2 DEF One
    <3>4. AtMostOnce(n, y, {}, ran)
      BY <2>2, <2>5, <2>9, <3>2, <3>3 DEF AtMostOnce
    <3>5. \A c \in DirectParentConnections(graph, n) : Idle(c.from, Busy(x, {}))
      <4>1. n \notin Children(graph, n)
        BY <2>11 DEF Acyclic
      <4> QED BY <1>1, <2>1, <2>6, <4>1, AllIdleAbove
    <3>6. \A c \in DirectParentConnections(graph, n) : Got(c, Busy(y, {}), fed)
      BY <2>8, <3>5 DEF Got
    <3>7. WithAll(n, y, {}, ran, fed)
      BY <2>2, <3>3, <3>6 DEF WithAll
    <3> QED BY <3>4, <3>7 DEF Once
  <2> QED BY <2>7, <2>10, <2>11
<1> QED BY <1>2, <1>3 DEF RunWaiting

\* What nothing leads to stays so when the data of a connection from a busy
\* node is added.
LEMMA AddNodeIdle ==
    ASSUME GraphOver(Nodes, graph), {None, Hole} \cap RealData(Nodes) = {}, None \notin Nodes,
           NEW A, A \subseteq Nodes, NEW x \in States(Nodes, A), NEW c \in graph.connections,
           c.to \in A, NEW run \in Nat, NEW y, y = AddNodeToBeExecuted(x, c, run),
           NEW cur, c.from \in cur
    PROVE  \A m : Idle(m, Busy(x, cur)) => Idle(m, Busy(y, cur))
<1>1. c.from \in Nodes /\ Closed(graph) /\ x.stack \in Seq(ItemsOf(Nodes, A))
  BY DEF GraphOver, Connections, States
<1>2. c.from \in Busy(x, cur)
  BY <1>1 DEF Busy
<1>3. OnlyAdds(x, y, A, c.to)
  BY AddNodeElse
<1>4. \A n \in Nodes \ {c.to} : Queued(n, y.stack) = {} <=> Queued(n, x.stack) = {}
  <2>1. CASE y.stack = x.stack
    BY <2>1
  <2>2. ASSUME NEW item \in ItemsOf(Nodes, A), item.node = c.to, y.stack = <<item>> \o x.stack
        PROVE  \A n \in Nodes \ {c.to} : Queued(n, y.stack) = {} <=> Queued(n, x.stack) = {}
    <3> DEFINE st == x.stack
               new == y.stack
    <3>1. st \in Seq(ItemsOf(Nodes, A)) /\ new = <<item>> \o st
      BY <1>1, <2>2
    <3> HIDE DEF st, new
    <3>2. \A n : n # item.node => SameQueued(n, st, new)
      BY <3>1, QueuedPushed
    <3> QED BY <2>2, <3>2 DEF st, new, SameQueued
  <2> QED BY <1>3, <2>1, <2>2 DEF OnlyAdds
<1>5. Busy(y, cur) \subseteq Busy(x, cur) \cup {c.to}
  BY <1>3, <1>4 DEF Busy, OnlyAdds
<1> QED BY <1>1, <1>2, <1>5, IdleKept

\* So it does when all connections of a busy node are followed.
LEMMA FollowedIdle ==
    ASSUME GraphOver(Nodes, graph), {None, Hole} \cap RealData(Nodes) = {}, None \notin Nodes,
           NEW A, A \subseteq Nodes,
           [stack |-> stack, waiting |-> waiting, overwritten |-> overwritten]
              \in States(Nodes, A),
           NEW order \in Seq(graph.connections), NEW cur,
           \A i \in 1..Len(order) : order[i].to \in A /\ order[i].from \in cur,
           NEW run \in Nat
    PROVE  /\ Follow(order, run) \in States(Nodes, A)
           /\ \A m : Idle(m, Busy([stack |-> stack, waiting |-> waiting,
                                   overwritten |-> overwritten], cur))
                        => Idle(m, Busy(Follow(order, run), cur))
<1> DEFINE n == Len(order)
           G == States(Nodes, A)
           x == [stack |-> stack, waiting |-> waiting, overwritten |-> overwritten]
<1>1. n \in Nat /\ \A i \in 1..n : order[i] \in graph.connections
  BY LenProperties, ElementOfSeq
<1>2. PICK it : FollowsIn(order, run, G, it)
  BY FollowSteps
<1> HIDE DEF x
<1>3. /\ it \in [0..n -> G] /\ it[0] = x /\ Follow(order, run) = it[n]
      /\ \A k \in 1..n : it[k] = AddNodeToBeExecuted(it[k - 1], order[k], run)
  BY <1>2 DEF FollowsIn, x
<1> HIDE DEF n, G
<1> DEFINE Good(k) == \A m : Idle(m, Busy(x, cur)) => Idle(m, Busy(it[k], cur))
           bad == {k \in 0..n : ~Good(k)}
<1>4. Good(0)
  BY <1>3
<1>5. ASSUME NEW k \in 1..n, Good(k - 1) PROVE Good(k)
  <2> DEFINE c == order[k]
             z == it[k - 1]
             y == it[k]
  <2>1. /\ k - 1 \in 0..n /\ z \in G /\ c \in graph.connections
        /\ c.to \in A /\ c.from \in cur /\ y = AddNodeToBeExecuted(z, c, run)
    BY <1>1, <1>3 DEF n
  <2> HIDE DEF c, z, y
  <2>2. \A m : Idle(m, Busy(z, cur)) => Idle(m, Busy(y, cur))
    BY <2>1, AddNodeIdle DEF G
  <2> QED BY <1>5, <2>2 DEF z, y
<1>6. bad = {}
  <2> HIDE DEF Good
  <2> SUFFICES ASSUME bad # {} PROVE FALSE
    OBVIOUS
  <2>1. bad \subseteq Nat
    BY <1>1
  <2>2. PICK k \in bad : \A j \in bad : k <= j
    BY <2>1, LeastNumber
  <2>3. k \in 1..n
    BY <2>2, <1>1, <1>4
  <2>4. k - 1 \in 0..n /\ ~(k <= k - 1)
    BY <2>3, <1>1
  <2>5. Good(k - 1)
    BY <2>2, <2>4
  <2> QED BY <1>5, <2>2, <2>3, <2>5
<1>7. Good(n) /\ it[n] \in G
  <2> HIDE DEF Good
  <2>1. n \in 0..n
    BY <1>1
  <2> QED BY <1>3, <1>6, <2>1
<1> QED BY <1>3, <1>7 DEF n, G, x

\* A node of which a step releases nothing new.
LEMMA OnceMoved ==
    ASSUME NEW n, NEW x, NEW y, NEW cur, NEW now, NEW ran, NEW made, NEW fed, NEW more,
           Once(n, x, cur, ran, fed), fed \subseteq more,
           \A m : Idle(m, Busy(x, cur)) => Idle(m, Busy(y, now)),
           DOMAIN y.waiting[n] = DOMAIN x.waiting[n],
           \A i \in DOMAIN x.waiting[n] :
              /\ Awaits(n, x.waiting[n][i]) => Awaits(n, y.waiting[n][i])
              /\ \A j : HasData(y.waiting[n][i], j) => HasData(x.waiting[n][i], j),
           One(Queued(n, y.stack)),
           Queued(n, y.stack) # {} => n \notin now \cup made,
           n \notin now \cap made,
           Released(n, y, now, made) => Released(n, x, cur, ran)
    PROVE  Once(n, y, now, made, more)
<1>1. \A c : Got(c, Busy(x, cur), fed) => Got(c, Busy(y, now), more)
  BY GotKept
<1>2. AtMostOnce(n, y, now, made)
  BY DEF Once, AtMostOnce
<1>3. WithAll(n, y, now, made, more)
  BY <1>1 DEF Once, WithAll
<1> QED BY <1>2, <1>3 DEF Once

\* The node that is being run, the successful runs of a node in this execution,
\* the nodes that have one, and the connections from these.
Cur == IF current = None THEN {} ELSE {current.node}
RunsMade(n) == {k \in DOMAIN runData[n] : k > kept[n] /\ runData[n][k].status = "success"}
Ran == {n \in Nodes : RunsMade(n) # {}}
Fed == {c \in graph.connections : c.from \in Ran}

\* What is not repeated.
Plain == {n \in Nodes : ~\E m \in Repeated : n = m \/ n \in Children(graph, m)}

\* A plain node runs successfully at most once, with all it will ever get.
PlainOnce ==
    Acyclic /\ SingleConnections =>
        \A n \in Plain : Once(n, State, Cur, Ran, Fed) /\ One(RunsMade(n))

\* A run that failed or was put to wait is the last one, of a node that went
\* back to the head of the stack.
RunsEnd ==
    \A n \in Nodes : \A k \in DOMAIN runData[n] :
        k > kept[n] /\ runData[n][k].status # "success" =>
            /\ status # "running" /\ current = None /\ stack # <<>>
            /\ n = Head(stack).node /\ k = Len(runData[n])

\* Nothing leads to a node whose runs were kept.
KeptIdle ==
    \A n \in Nodes : kept[n] > 0 => Idle(n, Busy(State, Cur)) /\ Len(runData[n]) = kept[n]

RInv == DInv /\ PlainOnce /\ RunsEnd /\ KeptIdle

\* Two runs of a node would be two successful ones, or a successful one of a
\* node that is on the stack.
LEMMA RInvImplies == RInv => RunsOnce
<1> SUFFICES ASSUME RInv, Acyclic, SingleConnections, NEW n \in Plain
             PROVE  Len(runData[n]) <= IF kept[n] = 0 THEN 1 ELSE kept[n]
  BY DEF RunsOnce, Plain
<1>1. n \in Nodes /\ kept[n] \in Nat /\ runData[n] \in Seq(RunsOf(Nodes))
  BY DataFacts DEF RInv, DInv, Plain
<1>2. CASE kept[n] # 0
  <2>1. Len(runData[n]) = kept[n]
    BY <1>1, <1>2 DEF RInv, KeptIdle
  <2> QED BY <1>1, <1>2, <2>1
<1>3. CASE kept[n] = 0
  <2> SUFFICES ASSUME ~(Len(runData[n]) <= 1) PROVE FALSE
    BY <1>3
  <2>1. Len(runData[n]) \in Nat /\ DOMAIN runData[n] = 1..Len(runData[n])
    BY <1>1
  <2>2. 1 \in DOMAIN runData[n] /\ 2 \in DOMAIN runData[n] /\ 1 # Len(runData[n])
    <3> DEFINE L == Len(runData[n])
    <3>1. L \in Nat /\ ~(L <= 1) /\ DOMAIN runData[n] = 1..L
      BY <2>1
    <3> HIDE DEF L
    <3>2. 1 \in 1..L /\ 2 \in 1..L /\ 1 # L
      BY <3>1
    <3> QED BY <3>1, <3>2 DEF L
  <2>3. Once(n, State, Cur, Ran, Fed) /\ One(RunsMade(n))
    BY DEF RInv, PlainOnce
  <2>4. runData[n][1].status = "success"
    BY <1>1, <1>3, <2>2 DEF RInv, RunsEnd
  <2>5. 1 \in RunsMade(n) /\ n \in Ran
    BY <1>1, <1>3, <2>2, <2>4 DEF RunsMade, Ran
  <2>6. runData[n][2].status # "success"
    <3> SUFFICES ASSUME runData[n][2].status = "success" PROVE FALSE
      OBVIOUS
    <3>1. 2 \in RunsMade(n)
      BY <1>3, <2>2 DEF RunsMade
    <3> QED BY <2>3, <2>5, <3>1 DEF One
  <2>7. stack # <<>> /\ n = Head(stack).node
    BY <1>1, <1>3, <2>2, <2>6 DEF RInv, RunsEnd
  <2>8. Queued(n, State.stack) # {}
    <3>1. stack \in Seq(ItemsOf(Nodes, Active))
      BY DataFacts DEF RInv
    <3>2. 1 \in DOMAIN stack /\ stack[1] = Head(stack)
      BY <2>7, <3>1, EmptySeq, LenProperties
    <3> QED BY <2>7, <3>2 DEF Queued, State
  <2> QED BY <2>3, <2>5, <2>8 DEF Once, AtMostOnce
<1> QED BY <1>2, <1>3

\* Within an execution the graph is the same, and so is what is repeated.
LEMMA SamePlain ==
    ASSUME UNCHANGED <<workflow, execVars, executions>>
    PROVE  /\ Nodes' = Nodes /\ Plain' = Plain
           /\ Acyclic' <=> Acyclic
           /\ SingleConnections' <=> SingleConnections
           /\ \A n : NumberOfInputs(n)' = NumberOfInputs(n)
           /\ Busy(State, Cur)' = Busy(State', Cur')
           /\ \A n : Idle(n, Busy(State, Cur))' <=> Idle(n, Busy(State', Cur'))
           /\ \A n : Once(n, State, Cur, Ran, Fed)' <=> Once(n, State', Cur', Ran', Fed')
<1>1. /\ Nodes' = Nodes /\ GivenTwice' = GivenTwice
      /\ UNCHANGED <<workflow, graph, started>>
  BY SameExecution
<1>2. \A n : NumberOfInputs(n)' = NumberOfInputs(n)
  BY <1>1 DEF NumberOfInputs
<1>3. Repeated' = Repeated
  BY <1>1, <1>2 DEF Repeated
<1>4. Plain' = Plain
  BY <1>1, <1>3 DEF Plain
<1>5. Acyclic' <=> Acyclic
  BY <1>1 DEF Acyclic
<1>6. SingleConnections' <=> SingleConnections
  BY <1>1 DEF SingleConnections
<1>7. Busy(State, Cur)' = Busy(State', Cur')
  BY <1>1 DEF Busy, Queued
<1>8. \A n : Idle(n, Busy(State, Cur))' <=> Idle(n, Busy(State', Cur'))
  BY <1>1, <1>7 DEF Idle
<1>9. \A n : AtMostOnce(n, State, Cur, Ran)' <=> AtMostOnce(n, State', Cur', Ran')
  BY <1>1, <1>2 DEF AtMostOnce, Released, Queued, One
<1>10. ASSUME NEW n
       PROVE  WithAll(n, State, Cur, Ran, Fed)' <=> WithAll(n, State', Cur', Ran', Fed')
  <2>1. \A e : Awaits(n, e)' <=> Awaits(n, e)
    BY <1>2 DEF Awaits, IsData, Range
  <2>2. \A i : Awaits(n, State.waiting[n][i])' <=> Awaits(n, State'.waiting[n][i])
    BY <1>2 DEF Awaits, IsData, Range
  <2>3. \A c : Got(c, Busy(State, Cur), Fed)' <=> Got(c, Busy(State', Cur'), Fed')
    BY <1>8 DEF Got
  <2>4. \A i, j : HasData(State.waiting[n][i], j)' <=> HasData(State'.waiting[n][i], j)
    BY DEF HasData, IsData
  <2>5. Released(n, State, Cur, Ran)' <=> Released(n, State', Cur', Ran')
    BY DEF Released, Queued
  <2>6. DirectParentConnections(graph, n)' = DirectParentConnections(graph, n)
    BY <1>1
  <2> QED BY <2>2, <2>3, <2>4, <2>5, <2>6 DEF WithAll
<1>11. \A n : Once(n, State, Cur, Ran, Fed)' <=> Once(n, State', Cur', Ran', Fed')
  BY <1>9, <1>10 DEF Once
<1> QED BY <1>1, <1>2, <1>4, <1>5, <1>6, <1>7, <1>8, <1>11

\* A step of an execution in which nothing becomes busy that was not, and no
\* successful run is made.
LEMMA SmallStep ==
    ASSUME RInv, UNCHANGED <<workflow, execVars, executions>>,
           \A n \in Nodes : RunsMade(n)' = RunsMade(n),
           Busy(State', Cur') \subseteq Busy(State, Cur),
           \A n \in Nodes : n \notin Busy(State, Cur) => runData'[n] = runData[n],
           \A n \in Nodes : Once(n, State, Cur, Ran, Fed) => Once(n, State', Cur', Ran, Fed)
    PROVE  PlainOnce' /\ KeptIdle'
<1>1. /\ Nodes' = Nodes /\ Plain' = Plain
      /\ Acyclic' <=> Acyclic
      /\ SingleConnections' <=> SingleConnections
      /\ \A n : Idle(n, Busy(State, Cur))' <=> Idle(n, Busy(State', Cur'))
      /\ \A n : Once(n, State, Cur, Ran, Fed)' <=> Once(n, State', Cur', Ran', Fed')
  BY SamePlain
<1>2. UNCHANGED <<graph, kept>> /\ Plain \subseteq Nodes
  BY DEF execVars, Plain
<1>3. Ran' = Ran
  BY <1>1 DEF Ran
<1>4. Fed' = Fed
  BY <1>2, <1>3 DEF Fed
<1>5. PlainOnce'
  <2> SUFFICES ASSUME Acyclic, SingleConnections, NEW n \in Plain
               PROVE  Once(n, State', Cur', Ran', Fed') /\ One(RunsMade(n)')
    BY <1>1 DEF PlainOnce
  <2>1. Once(n, State, Cur, Ran, Fed) /\ One(RunsMade(n)) /\ n \in Nodes
    BY <1>2 DEF RInv, PlainOnce
  <2> QED BY <1>3, <1>4, <2>1
<1>6. KeptIdle'
  <2> SUFFICES ASSUME NEW n \in Nodes, kept[n] > 0
               PROVE  Idle(n, Busy(State', Cur')) /\ Len(runData'[n]) = kept[n]
    BY <1>1, <1>2 DEF KeptIdle
  <2>1. Idle(n, Busy(State, Cur)) /\ Len(runData[n]) = kept[n]
    BY DEF RInv, KeptIdle
  <2>2. n \notin Busy(State, Cur)
    BY <2>1 DEF Idle
  <2> QED BY <2>1, <2>2 DEF Idle
<1> QED BY <1>5, <1>6

\* The indices of a node after the head of the stack was taken.
LEMMA QueuedTaken ==
    ASSUME NEW T, NEW st \in Seq(T), st # <<>>, NEW new, new = Tail(st)
    PROVE  \A n : /\ Queued(n, new) # {} => Queued(n, st) # {}
                  /\ One(Queued(n, st)) => One(Queued(n, new))
                  /\ n = Head(st).node =>
                        /\ Queued(n, st) # {}
                        /\ One(Queued(n, st)) => Queued(n, new) = {}
<1> TAKE n
<1>1. /\ Len(st) \in Nat \ {0} /\ DOMAIN st = 1..Len(st) /\ DOMAIN new = 1..(Len(st) - 1)
      /\ st[1] = Head(st) /\ \A i \in 1..(Len(st) - 1) : new[i] = st[i + 1]
  <2>1. Len(st) \in Nat \ {0} /\ DOMAIN st = 1..Len(st)
    BY EmptySeq, LenProperties
  <2>2. /\ new \in Seq(T) /\ Len(new) = Len(st) - 1
        /\ \A i \in 1..Len(new) : new[i] = st[i + 1]
    BY HeadTailProperties
  <2>3. DOMAIN new = 1..Len(new)
    BY <2>2, LenProperties
  <2> QED BY <2>1, <2>2, <2>3
<1>2. \A i \in Queued(n, new) : i \in Nat \ {0} /\ i + 1 \in Queued(n, st)
  BY <1>1 DEF Queued
<1>3. One(Queued(n, st)) => One(Queued(n, new))
  <2> SUFFICES ASSUME One(Queued(n, st)), NEW i \in Queued(n, new), NEW j \in Queued(n, new)
               PROVE  i = j
    BY DEF One
  <2>1. i + 1 = j + 1 /\ i \in Nat /\ j \in Nat
    BY <1>2 DEF One
  <2> QED BY <2>1
<1>4. ASSUME n = Head(st).node
      PROVE  Queued(n, st) # {} /\ (One(Queued(n, st)) => Queued(n, new) = {})
  <2>1. 1 \in Queued(n, st)
    BY <1>1, <1>4 DEF Queued
  <2>2. ASSUME One(Queued(n, st)), NEW i \in Queued(n, new) PROVE FALSE
    <3>1. i + 1 = 1 /\ i \in Nat \ {0}
      BY <1>2, <2>1, <2>2 DEF One
    <3> QED BY <3>1
  <2> QED BY <2>1, <2>2
<1> QED BY <1>2, <1>3, <1>4

\* A node taken from the stack is being run, or skipped.
LEMMA TakeNodeOnce ==
    ASSUME RInv, TakeNode
    PROVE  (PlainOnce /\ RunsEnd /\ KeptIdle)'
<1> DEFINE n0 == Head(stack).node
           st == stack
           new == stack'
<1>1. /\ status = "running" /\ current = None /\ stack # <<>> /\ stack' = Tail(stack)
      /\ current' = Head(stack) \/ current' = None
      /\ UNCHANGED <<workflow, execVars, waiting, runData, status, counters, overwritten>>
  BY DEF TakeNode
<1>2. UNCHANGED <<workflow, execVars, executions>> /\ Nodes' = Nodes
      /\ UNCHANGED <<kept, runData, waiting, status>>
  <2>1. UNCHANGED <<workflow, execVars, executions>>
    BY <1>1 DEF counters
  <2> QED BY <1>1, <2>1, SameExecution
<1>3. stack \in Seq(ItemsOf(Nodes, Active)) /\ None \notin ItemsOf(Nodes, Active)
      /\ Active \subseteq Nodes
  BY DataFacts DEF RInv
<1>4. Head(stack) \in ItemsOf(Nodes, Active)
  BY <1>1, <1>3
<1>5. n0 \in Nodes
  BY <1>3, <1>4 DEF ItemsOf
<1>6. Cur = {} /\ Cur' \subseteq {n0}
  BY <1>1 DEF Cur
<1>7. State.stack = st /\ State'.stack = new /\ State'.waiting = State.waiting
  BY <1>2 DEF State
<1>8. \A n : /\ Queued(n, new) # {} => Queued(n, st) # {}
             /\ One(Queued(n, st)) => One(Queued(n, new))
             /\ n = n0 => /\ Queued(n, st) # {}
                          /\ One(Queued(n, st)) => Queued(n, new) = {}
  <2>1. new = Tail(st) /\ st # <<>> /\ st \in Seq(ItemsOf(Nodes, Active))
    BY <1>1, <1>3
  <2> HIDE DEF new
  <2> QED BY <2>1, QueuedTaken
<1> HIDE DEF st, new, n0
<1>9. Busy(State', Cur') \subseteq Busy(State, Cur)
  BY <1>6, <1>7, <1>8 DEF Busy
<1>10. ASSUME NEW n \in Nodes, Once(n, State, Cur, Ran, Fed)
       PROVE  Once(n, State', Cur', Ran, Fed)
  <2>1. /\ One(Queued(n, State.stack))
        /\ Queued(n, State.stack) # {} => n \notin Ran
    BY <1>10 DEF Once, AtMostOnce
  <2>2. /\ One(Queued(n, State'.stack))
        /\ Queued(n, State'.stack) # {} => n \notin Cur' \cup Ran
        /\ n \notin Cur' \cap Ran
        /\ Released(n, State', Cur', Ran) => Released(n, State, Cur, Ran)
    BY <1>6, <1>7, <1>8, <2>1 DEF Released
  <2>3. \A m : Idle(m, Busy(State, Cur)) => Idle(m, Busy(State', Cur'))
    BY <1>9 DEF Idle
  <2>4. State'.waiting[n] = State.waiting[n]
    BY <1>7
  <2> QED BY <1>10, <2>2, <2>3, <2>4, OnceMoved
<1>11. \A n \in Nodes : RunsMade(n)' = RunsMade(n)
  BY <1>2 DEF RunsMade
<1>12. PlainOnce' /\ KeptIdle'
  BY <1>2, <1>9, <1>10, <1>11, SmallStep
<1>13. RunsEnd'
  BY <1>1, <1>2 DEF RInv, RunsEnd
<1> QED BY <1>12, <1>13

\* A node that returns nothing is done with.
LEMMA ReturnNothingOnce ==
    ASSUME RInv, ReturnNothing
    PROVE  (PlainOnce /\ RunsEnd /\ KeptIdle)'
<1>1. /\ current # None /\ current' = None
      /\ UNCHANGED <<workflow, execVars, stack, waiting, runData, status, counters, overwritten>>
  BY DEF ReturnNothing
<1>2. UNCHANGED <<workflow, execVars, executions>> /\ Nodes' = Nodes
      /\ UNCHANGED <<kept, runData, waiting, status, State>>
  <2>1. UNCHANGED <<workflow, execVars, executions>> /\ State' = State
    BY <1>1 DEF counters, State
  <2> QED BY <1>1, <2>1, SameExecution
<1>3. Cur' = {}
  BY <1>1 DEF Cur
<1>4. Busy(State', Cur') \subseteq Busy(State, Cur)
  BY <1>2, <1>3 DEF Busy
<1>5. ASSUME NEW n \in Nodes, Once(n, State, Cur, Ran, Fed)
      PROVE  Once(n, State', Cur', Ran, Fed)
  <2>1. \A m : Idle(m, Busy(State, Cur)) => Idle(m, Busy(State', Cur'))
    BY <1>4 DEF Idle
  <2>2. /\ One(Queued(n, State'.stack))
        /\ Queued(n, State'.stack) # {} => n \notin Cur' \cup Ran
        /\ n \notin Cur' \cap Ran
        /\ Released(n, State', Cur', Ran) => Released(n, State, Cur, Ran)
    BY <1>2, <1>3, <1>5 DEF Once, AtMostOnce, Released
  <2> QED BY <1>2, <1>5, <2>1, <2>2, OnceMoved
<1>6. \A n \in Nodes : RunsMade(n)' = RunsMade(n)
  BY <1>2 DEF RunsMade
<1>7. PlainOnce' /\ KeptIdle'
  BY <1>2, <1>4, <1>5, <1>6, SmallStep
<1>8. RunsEnd'
  BY <1>1, <1>2 DEF RInv, RunsEnd
<1> QED BY <1>7, <1>8

\* A node that fails or waits goes from running to the stack.
LEMMA StopOnce ==
    ASSUME RInv, NEW newStatus \in {"error", "waiting"}, current # None, Stop(newStatus),
           UNCHANGED executions
    PROVE  (PlainOnce /\ RunsEnd /\ KeptIdle)'
<1> DEFINE n0 == current.node
           r == [inputs |-> current.inputs, out |-> {}, status |-> newStatus]
           st == stack
           new == stack'
<1>1. /\ current' = None /\ stack' = <<current>> \o stack
      /\ runData' = [runData EXCEPT ![n0] = Append(@, r)]
      /\ status' = IF status = "running" THEN newStatus ELSE status
      /\ UNCHANGED <<workflow, execVars, waiting, executions, spent, overwritten>>
  BY DEF Stop
<1>2. UNCHANGED <<workflow, execVars, executions>> /\ Nodes' = Nodes
      /\ UNCHANGED <<kept, waiting>>
  <2>1. UNCHANGED <<workflow, execVars, executions>>
    BY <1>1
  <2> QED BY <1>1, <2>1, SameExecution
<1>3. current \in ItemsOf(Nodes, Active) /\ n0 \in Nodes /\ r \in RunsOf(Nodes)
      /\ r.status = newStatus /\ r.status # "success"
      /\ stack \in Seq(ItemsOf(Nodes, Active))
  <2>1. current \in ItemsOf(Nodes, Active) /\ n0 \in Nodes /\ current.inputs \in Arrays(Nodes)
        /\ stack \in Seq(ItemsOf(Nodes, Active))
    BY DataFacts DEF ItemsOf, RInv
  <2> QED BY <2>1 DEF RunsOf
<1> HIDE DEF r
<1>4. /\ runData \in [Nodes -> Seq(RunsOf(Nodes))] /\ runData[n0] \in Seq(RunsOf(Nodes))
      /\ runData'[n0] = Append(runData[n0], r)
      /\ \A m \in Nodes : m # n0 => runData'[m] = runData[m]
  BY <1>1, <1>3, DataFacts DEF RInv
<1>5. /\ DOMAIN runData'[n0] = DOMAIN runData[n0] \cup {Len(runData[n0]) + 1}
      /\ Len(runData[n0]) + 1 \notin DOMAIN runData[n0]
      /\ Len(runData'[n0]) = Len(runData[n0]) + 1
      /\ \A k \in DOMAIN runData[n0] : runData'[n0][k] = runData[n0][k]
      /\ runData'[n0][Len(runData[n0]) + 1] = r
  <2>1. Len(runData'[n0]) = Len(runData[n0]) + 1
    BY <1>3, <1>4
  <2> QED BY <1>3, <1>4, <2>1, RunAppended
<1>6. Cur = {n0} /\ Cur' = {}
  BY <1>1 DEF Cur
<1>7. State.stack = st /\ State'.stack = new /\ State'.waiting = State.waiting
  BY <1>2 DEF State
<1>8. /\ \A n : n # n0 => SameQueued(n, st, new)
      /\ Queued(n0, new) # {}
      /\ Queued(n0, st) = {} => One(Queued(n0, new))
      /\ stack' # <<>> /\ Head(stack') = current
  <2>1. new = <<current>> \o st /\ st \in Seq(ItemsOf(Nodes, Active))
        /\ current \in ItemsOf(Nodes, Active)
    BY <1>1, <1>3
  <2>2. new # <<>> /\ Head(new) = current
    BY <2>1
  <2> HIDE DEF new, st
  <2>3. /\ \A n : n # current.node => SameQueued(n, st, new)
        /\ Queued(current.node, new) # {}
        /\ Queued(current.node, st) = {} => One(Queued(current.node, new))
    BY <2>1, QueuedPushed
  <2> QED BY <2>2, <2>3 DEF new
<1> HIDE DEF st, new, n0
<1>9. Busy(State', Cur') \subseteq Busy(State, Cur)
  BY <1>6, <1>7, <1>8 DEF Busy, SameQueued
<1>10. ASSUME NEW n \in Nodes, Once(n, State, Cur, Ran, Fed)
       PROVE  Once(n, State', Cur', Ran, Fed)
  <2>1. /\ One(Queued(n, State.stack))
        /\ Queued(n, State.stack) # {} => n \notin Cur \cup Ran
        /\ n \notin Cur \cap Ran
    BY <1>10 DEF Once, AtMostOnce
  <2>2. /\ One(Queued(n, State'.stack))
        /\ Queued(n, State'.stack) # {} => n \notin Cur' \cup Ran
        /\ n \notin Cur' \cap Ran
        /\ Released(n, State', Cur', Ran) => Released(n, State, Cur, Ran)
    <3>1. CASE n = n0
      BY <1>6, <1>7, <1>8, <2>1, <3>1 DEF Released
    <3>2. CASE n # n0
      BY <1>6, <1>7, <1>8, <2>1, <3>2 DEF Released, SameQueued
    <3> QED BY <3>1, <3>2
  <2>3. \A m : Idle(m, Busy(State, Cur)) => Idle(m, Busy(State', Cur'))
    BY <1>9 DEF Idle
  <2>4. State'.waiting[n] = State.waiting[n]
    BY <1>7
  <2> QED BY <1>10, <2>2, <2>3, <2>4, OnceMoved
<1>11. \A n \in Nodes : RunsMade(n)' = RunsMade(n)
  <2> SUFFICES ASSUME NEW n \in Nodes
               PROVE  {k \in DOMAIN runData'[n] : k > kept[n] /\ runData'[n][k].status = "success"}
                         = RunsMade(n)
    BY <1>2 DEF RunsMade
  <2>1. CASE n = n0
    BY <1>3, <1>5, <2>1 DEF RunsMade
  <2>2. CASE n # n0
    BY <1>4, <2>2 DEF RunsMade
  <2> QED BY <2>1, <2>2
<1>12. \A n \in Nodes : n \notin Busy(State, Cur) => runData'[n] = runData[n]
  BY <1>4, <1>6 DEF Busy
<1>13. PlainOnce' /\ KeptIdle'
  BY <1>2, <1>9, <1>10, <1>11, <1>12, SmallStep
<1>14. RunsEnd'
  <2> SUFFICES ASSUME NEW n \in Nodes, NEW k \in DOMAIN runData'[n], k > kept[n],
                      runData'[n][k].status # "success"
               PROVE  /\ status' # "running" /\ current' = None /\ stack' # <<>>
                      /\ n = Head(stack').node /\ k = Len(runData'[n])
    BY <1>2 DEF RunsEnd
  <2>1. n = n0 /\ k = Len(runData[n0]) + 1
    <3> SUFFICES ASSUME n # n0 \/ k # Len(runData[n0]) + 1 PROVE FALSE
      OBVIOUS
    <3>1. k \in DOMAIN runData[n] /\ runData'[n][k] = runData[n][k]
      BY <1>4, <1>5
    <3> QED BY <3>1 DEF RInv, RunsEnd
  <2> QED BY <1>1, <1>5, <1>8, <2>1 DEF n0
<1> QED BY <1>13, <1>14

\* An entry that is saved still awaits what it lacks.
LEMMA SavedAwaits ==
    ASSUME None # Hole, NEW N, NEW n, NEW array \in Arrays(N), NEW saved, saved = Saved(array)
    PROVE  /\ Awaits(n, array) => Awaits(n, saved)
           /\ \A j : HasData(saved, j) => HasData(array, j)
<1>1. Len(array) \in Nat /\ DOMAIN array = 1..Len(array)
  BY LenProperties DEF Arrays
<1>2. /\ DOMAIN saved = DOMAIN array /\ Len(saved) = Len(array)
      /\ \A i \in DOMAIN array : saved[i] = IF array[i] = Hole THEN None ELSE array[i]
  <2>1. saved = [i \in 1..Len(array) |-> IF array[i] = Hole THEN None ELSE array[i]]
    BY <1>1 DEF Saved
  <2>2. Len(saved) = Len(array)
    BY <1>1, <2>1
  <2> QED BY <1>1, <2>1, <2>2
<1>3. \A i \in DOMAIN array : IsData(saved[i]) <=> IsData(array[i])
  BY <1>2 DEF IsData
<1>4. Hole \notin Range(saved)
  BY <1>2 DEF Range
<1>5. \A j : HasData(saved, j) => HasData(array, j)
  BY <1>2, <1>3 DEF HasData
<1>6. Awaits(n, array) => Awaits(n, saved)
  <2> SUFFICES ASSUME Awaits(n, array) PROVE Awaits(n, saved)
    OBVIOUS
  <2>1. \E i \in DOMAIN saved : IsData(saved[i])
    BY <1>2, <1>3 DEF Awaits
  <2> QED BY <1>2, <1>4, <2>1 DEF Awaits
<1> QED BY <1>5, <1>6

\* A resumed execution has the nodes on the stack and in wait that were saved,
\* without the run that was put to wait.
LEMMA ResumeOnce ==
    ASSUME RInv, Resume
    PROVE  (PlainOnce /\ RunsEnd /\ KeptIdle)'
<1> DEFINE n0 == Head(stack).node
           Item(i) == [stack[i] EXCEPT !.resumed = @ \/ stack[i].node = n0, !.inputs = Saved(@)]
<1>1. /\ status = "waiting" /\ status' = "running"
      /\ stack' = [i \in DOMAIN stack |-> Item(i)]
      /\ waiting' = [m \in Nodes |-> [i \in DOMAIN waiting[m] |-> Saved(waiting[m][i])]]
      /\ runData' = [runData EXCEPT ![n0] = Front(@)]
      /\ UNCHANGED <<workflow, execVars, current, counters, spent, overwritten>>
  BY DEF Resume
<1>2. UNCHANGED <<workflow, execVars, executions>> /\ Nodes' = Nodes /\ kept' = kept
  <2>1. UNCHANGED <<workflow, execVars, executions>>
    BY <1>1 DEF counters
  <2> QED BY <2>1, SameExecution
<1>3. /\ current = None /\ stack # <<>>
      /\ runData[n0] # <<>> /\ Last(runData[n0]).status = "waiting"
  BY <1>1 DEF RInv, DInv, DataTypes
<1>4. /\ stack \in Seq(ItemsOf(Nodes, Active)) /\ waiting \in WaitingOf(Nodes, Active)
      /\ runData \in [Nodes -> Seq(RunsOf(Nodes))] /\ Active \subseteq Nodes
  BY DataFacts DEF RInv
<1>5. Len(stack) \in Nat /\ DOMAIN stack = 1..Len(stack)
      /\ \A i \in DOMAIN stack : stack[i] \in ItemsOf(Nodes, Active)
  BY <1>4, LenProperties, ElementOfSeq
<1>6. n0 \in Nodes /\ runData[n0] \in Seq(RunsOf(Nodes)) /\ Head(stack) = stack[1]
      /\ 1 \in DOMAIN stack
  <2>1. Head(stack) \in ItemsOf(Nodes, Active) /\ Head(stack) = stack[1] /\ 1 \in DOMAIN stack
    BY <1>3, <1>4, HeadIndices
  <2> QED BY <1>4, <2>1 DEF ItemsOf
<1>7. ASSUME NEW i \in DOMAIN stack PROVE Item(i).node = stack[i].node
  <2> DEFINE old == stack[i]
             flag == old.resumed \/ old.node = n0
             array == Saved(old.inputs)
  <2>1. Item(i) = [old EXCEPT !.resumed = flag, !.inputs = array]
    BY Zenon
  <2>2. old = [node |-> old.node, resumed |-> old.resumed, inputs |-> old.inputs]
    BY <1>5 DEF ItemsOf
  <2> HIDE DEF Item, flag, array, old
  <2> QED BY <2>1, <2>2 DEF old
<1> HIDE DEF Item
<1>8. DOMAIN stack' = DOMAIN stack /\ \A i \in DOMAIN stack : stack'[i].node = stack[i].node
  BY <1>1, <1>7
<1>9. ASSUME NEW m \in Nodes
      PROVE  /\ DOMAIN waiting'[m] = DOMAIN waiting[m]
             /\ \A i \in DOMAIN waiting[m] :
                   waiting'[m][i] = Saved(waiting[m][i]) /\ waiting[m][i] \in Arrays(Nodes)
  <2>1. waiting'[m] = [i \in DOMAIN waiting[m] |-> Saved(waiting[m][i])]
    BY <1>1
  <2>2. waiting[m] \in EntryArrays(Nodes)
    BY <1>4 DEF WaitingOf
  <2>3. \A i \in DOMAIN waiting[m] : waiting[m][i] \in Arrays(Nodes)
    BY <2>2 DEF EntryArrays
  <2> QED BY <2>1, <2>3
<1>10. \A n : Queued(n, State'.stack) = Queued(n, State.stack)
  BY <1>8 DEF Queued, State
<1>11. State'.waiting = waiting' /\ State.waiting = waiting /\ Cur = {} /\ Cur' = {}
  BY <1>1, <1>3 DEF State, Cur
<1>12. Busy(State', Cur') \subseteq Busy(State, Cur)
  BY <1>9, <1>10, <1>11 DEF Busy
<1>13. ASSUME NEW n \in Nodes, Once(n, State, Cur, Ran, Fed)
       PROVE  Once(n, State', Cur', Ran, Fed)
  <2> DEFINE z == State'
  <2>1. /\ One(Queued(n, z.stack))
        /\ Queued(n, z.stack) # {} => n \notin Cur' \cup Ran
        /\ n \notin Cur' \cap Ran
        /\ Released(n, z, Cur', Ran) => Released(n, State, Cur, Ran)
    BY <1>10, <1>11, <1>13 DEF Once, AtMostOnce, Released
  <2>2. \A m : Idle(m, Busy(State, Cur)) => Idle(m, Busy(z, Cur'))
    BY <1>12 DEF Idle
  <2>3. ASSUME NEW i \in DOMAIN State.waiting[n]
        PROVE  /\ Awaits(n, State.waiting[n][i]) => Awaits(n, z.waiting[n][i])
               /\ \A j : HasData(z.waiting[n][i], j) => HasData(State.waiting[n][i], j)
    <3>1. z.waiting[n][i] = Saved(State.waiting[n][i]) /\ State.waiting[n][i] \in Arrays(Nodes)
      BY <1>9, <1>11
    <3>2. None # Hole
      BY NoneAssumption
    <3> HIDE DEF z
    <3> QED BY <3>1, <3>2, SavedAwaits
  <2>4. DOMAIN z.waiting[n] = DOMAIN State.waiting[n]
    BY <1>9, <1>11
  <2> HIDE DEF z
  <2>5. Once(n, z, Cur', Ran, Fed)
    BY <1>13, <2>1, <2>2, <2>3, <2>4, OnceMoved
  <2> QED BY <2>5 DEF z
<1>14. /\ runData'[n0] = Front(runData[n0])
       /\ \A m \in Nodes : m # n0 => runData'[m] = runData[m]
       /\ DOMAIN runData'[n0] = DOMAIN runData[n0] \ {Len(runData[n0])}
       /\ \A k \in DOMAIN runData'[n0] : runData'[n0][k] = runData[n0][k]
       /\ runData[n0][Len(runData[n0])].status # "success"
  <2>1. runData'[n0] = Front(runData[n0]) /\ \A m \in Nodes : m # n0 => runData'[m] = runData[m]
    BY <1>1, <1>4, <1>6
  <2>2. /\ DOMAIN runData'[n0] = DOMAIN runData[n0] \ {Len(runData[n0])}
        /\ \A k \in DOMAIN runData'[n0] : runData'[n0][k] = runData[n0][k]
        /\ runData[n0][Len(runData[n0])].status # "success"
    <3> DEFINE runs == runData[n0]
    <3>1. runs \in Seq(RunsOf(Nodes)) /\ runs # <<>> /\ Last(runs).status = "waiting"
          /\ runData'[n0] = Front(runs)
      BY <1>3, <1>6, <2>1
    <3> HIDE DEF runs
    <3>2. /\ DOMAIN Front(runs) = DOMAIN runs \ {Len(runs)}
          /\ \A k \in DOMAIN Front(runs) : Front(runs)[k] = runs[k]
          /\ runs[Len(runs)].status # "success"
      BY <3>1, RunTakenBack
    <3> QED BY <3>1, <3>2 DEF runs
  <2> QED BY <2>1, <2>2
<1>15. \A n \in Nodes : RunsMade(n)' = RunsMade(n)
  <2> SUFFICES ASSUME NEW n \in Nodes
               PROVE  {k \in DOMAIN runData'[n] : k > kept[n] /\ runData'[n][k].status = "success"}
                         = RunsMade(n)
    BY <1>2 DEF RunsMade
  <2>1. CASE n = n0
    BY <1>14, <2>1 DEF RunsMade
  <2>2. CASE n # n0
    BY <1>14, <2>2 DEF RunsMade
  <2> QED BY <2>1, <2>2
<1>16. \A n \in Nodes : n \notin Busy(State, Cur) => runData'[n] = runData[n]
  <2>1. n0 \in Busy(State, Cur)
    BY <1>6 DEF Busy, Queued, State
  <2> QED BY <1>14, <2>1
<1>17. PlainOnce' /\ KeptIdle'
  BY <1>2, <1>12, <1>13, <1>15, <1>16, SmallStep
<1>18. RunsEnd'
  <2> SUFFICES ASSUME NEW n \in Nodes, NEW k \in DOMAIN runData'[n], k > kept[n],
                      runData'[n][k].status # "success"
               PROVE  FALSE
    BY <1>2 DEF RunsEnd
  <2>1. k \in DOMAIN runData[n] /\ runData[n][k].status # "success"
    BY <1>14
  <2>2. n = n0 /\ k = Len(runData[n])
    BY <2>1 DEF RInv, RunsEnd
  <2> QED BY <1>14, <2>2
<1> QED BY <1>17, <1>18

\* Steps that change the status only.
LEMMA StatusOnce ==
    ASSUME RInv, UNCHANGED <<workflow, execVars, executions, stack, waiting, overwritten, runData,
                             current>>,
           status = "running" \/ status' = status
    PROVE  (PlainOnce /\ RunsEnd /\ KeptIdle)'
<1>1. State' = State /\ Cur' = Cur /\ kept' = kept /\ Nodes' = Nodes
  BY SameExecution DEF State, Cur
<1>2. \A n \in Nodes : RunsMade(n)' = RunsMade(n)
  BY <1>1 DEF RunsMade
<1>3. PlainOnce' /\ KeptIdle'
  BY <1>1, <1>2, SmallStep
<1>4. RunsEnd'
  BY <1>1 DEF RInv, RunsEnd
<1> QED BY <1>3, <1>4

\* A node that leads to a plain one is plain.
LEMMA PlainAbove ==
    ASSUME Closed(graph), NEW c \in graph.connections, c.from \in Nodes, c.to \in Plain
    PROVE  c.from \in Plain
<1> SUFFICES ASSUME NEW m \in Repeated, c.from = m \/ c.from \in Children(graph, m)
             PROVE  FALSE
  BY DEF Plain
<1>1. c.to \in Children(graph, m)
  BY ChildrenClosed
<1> QED BY <1>1 DEF Plain

\* A plain node that is being run has not run before.
LEMMA PlainRunsFirst ==
    ASSUME RInv, Acyclic, SingleConnections, NEW n \in Plain, n \in Cur
    PROVE  n \notin Ran /\ RunsMade(n) = {}
<1>1. n \notin Ran
  BY DEF RInv, PlainOnce, Once, AtMostOnce
<1> QED BY <1>1 DEF Ran, Plain

\* A successful run: its node is done with, and what it gave is followed.
LEMMA RunFollowed ==
    ASSUME RInv, current # None, NEW n0, n0 = current.node, NEW out,
           NEW order \in ConnectionsToFollow(n0, out), NEW run \in Nat,
           RunWaiting(Follow(order, run)),
           NEW P, P \subseteq Plain, P # {} => Acyclic /\ SingleConnections,
           NEW more, Fed \cup {c \in graph.connections : c.from = n0} \subseteq more,
           NEW z, z.stack = stack', z.waiting = waiting'
    PROVE  /\ \A m : Idle(m, Busy(State, Cur)) => Idle(m, Busy(z, {}))
           /\ \A n \in P : Once(n, z, {}, Ran \cup {n0}, more)
<1> DEFINE y == Follow(order, run)
           fed == Fed \cup {order[i] : i \in 1..Len(order)}
<1>1. /\ DInv /\ Cur = {n0} /\ n0 \in Active /\ n0 \in Nodes /\ Active \subseteq Nodes
      /\ State \in States(Nodes, Active) /\ GraphOver(Nodes, graph) /\ Closed(graph)
      /\ {None, Hole} \cap RealData(Nodes) = {} /\ None \notin Nodes /\ None # Hole
      /\ P \subseteq Nodes
  BY DataFacts, NoneAssumption DEF ItemsOf, RInv, DInv, DataTypes, Cur, Plain, GraphOver
<1>2. /\ order \in Seq(graph.connections)
      /\ \A i, j \in 1..Len(order) : order[i] = order[j] => i = j
      /\ \A i \in 1..Len(order) : order[i].from = n0 /\ order[i].to \in Active
  BY <1>1, OrderFollowed
<1>3. \A i \in 1..Len(order) : order[i] \in graph.connections
  BY <1>2, ElementOfSeq
<1>4. \A i \in 1..Len(order) : order[i].to \in Active /\ order[i].from \in Cur
  BY <1>1, <1>2
<1>5. /\ y \in States(Nodes, Active)
      /\ \A m : Idle(m, Busy(State, Cur)) => Idle(m, Busy(y, Cur))
  BY <1>1, <1>2, <1>4, FollowedIdle DEF State
<1>6. \A n \in P : Once(n, y, Cur, Ran, fed)
  <2>1. \A n \in P : Once(n, State, Cur, Ran, Fed)
    BY DEF RInv, PlainOnce
  <2>2. \A i \in 1..Len(order) : order[i].to \in P => order[i] \notin Fed
    <3> SUFFICES ASSUME NEW i \in 1..Len(order), order[i].to \in P PROVE order[i] \notin Fed
      OBVIOUS
    <3>1. n0 \in Plain
      BY <1>1, <1>2, <1>3, PlainAbove
    <3>2. n0 \notin Ran
      BY <1>1, <3>1, PlainRunsFirst
    <3> QED BY <1>2, <3>2 DEF Fed
  <2>3. CASE P = {}
    BY <2>3
  <2>4. CASE P # {}
    <3>1. SingleConnections
      BY <2>4
    <3> QED BY <1>1, <1>2, <1>4, <2>1, <2>2, <3>1, FollowedOnce DEF State
  <2> QED BY <2>3, <2>4
<1> HIDE DEF y
<1>7. \A m : Idle(m, Busy(y, Cur)) => Idle(m, Busy(y, {}))
  BY DEF Idle, Busy
<1>8. ASSUME NEW n \in P PROVE Once(n, y, {}, Ran \cup {n0}, more)
  <2>1. Once(n, y, Cur, Ran, fed)
    BY <1>6
  <2>2. fed \subseteq more
    BY <1>2, <1>3
  <2>3. /\ One(Queued(n, y.stack))
        /\ Queued(n, y.stack) # {} => n \notin {} \cup (Ran \cup {n0})
        /\ Released(n, y, {}, Ran \cup {n0}) => Released(n, y, Cur, Ran)
    BY <1>1, <2>1 DEF Once, AtMostOnce, Released
  <2> HIDE DEF fed
  <2> QED BY <1>7, <2>1, <2>2, <2>3, OnceMoved
<1>9. /\ \A n \in P : Once(n, z, {}, Ran \cup {n0}, more)
      /\ Busy(z, {}) \subseteq Busy(y, {})
  <2>1. RunWaiting(y)
    BY DEF y
  <2>2. P # {} => Acyclic
    OBVIOUS
  <2> DEFINE ran == Ran \cup {n0}
  <2>3. \A n \in P : Once(n, y, {}, ran, more)
    BY <1>8
  <2> HIDE DEF ran
  <2>4. /\ \A n \in P : Once(n, z, {}, ran, more)
        /\ Busy(z, {}) \subseteq Busy(y, {})
    BY <1>1, <1>5, <2>1, <2>2, <2>3, RunWaitingOnce
  <2> QED BY <2>4 DEF ran
<1>10. \A m : Idle(m, Busy(y, {})) => Idle(m, Busy(z, {}))
  BY <1>9 DEF Idle
<1> QED BY <1>5, <1>7, <1>9, <1>10

\* A successful run, of a node that had none if it is plain.
LEMMA FinishNodeOnce ==
    ASSUME RInv, FinishNode
    PROVE  (PlainOnce /\ RunsEnd /\ KeptIdle)'
<1> DEFINE n0 == current.node
           run == Len(runData[n0])
           P == IF Acyclic /\ SingleConnections THEN Plain ELSE {}
           ran == Ran \cup {n0}
           fed == {c \in graph.connections : c.from \in ran}
<1>1. /\ current # None /\ current' = None
      /\ UNCHANGED <<workflow, execVars, status, counters, spent>>
  BY DEF FinishNode
<1>2. PICK out \in Results(current) :
         /\ runData' = [runData EXCEPT ![n0] =
               Append(@, [inputs |-> current.inputs, out |-> out, status |-> "success"])]
         /\ IF n0 = destination
            THEN UNCHANGED <<stack, waiting, overwritten>>
            ELSE \E order \in ConnectionsToFollow(n0, out) :
                    /\ RunWaiting(Follow(order, run))
                    /\ overwritten' = Follow(order, run).overwritten
  BY DEF FinishNode
<1> DEFINE r == [inputs |-> current.inputs, out |-> out, status |-> "success"]
<1>3. UNCHANGED <<workflow, execVars, executions>> /\ Nodes' = Nodes
      /\ UNCHANGED <<graph, kept, status, destination>>
  <2>1. UNCHANGED <<workflow, execVars, executions>>
    BY <1>1 DEF counters
  <2> QED BY <1>1, <2>1, SameExecution
<1>4. n0 \in Nodes /\ r \in RunsOf(Nodes) /\ r.status = "success"
  <2>1. current \in ItemsOf(Nodes, Active) /\ n0 \in Nodes /\ current.inputs \in Arrays(Nodes)
    BY <1>1, DataFacts DEF ItemsOf, RInv
  <2>2. \A c \in workflow.connections : c.output \in Nat
    BY WorkflowAssumption DEF RInv, DInv, IInv
  <2>3. Outputs(n0) \subseteq Nat
    BY <2>2 DEF Outputs, DirectChildConnections
  <2>4. out \in SUBSET Nat
    BY <1>2, <2>3 DEF Results
  <2> QED BY <2>1, <2>4 DEF RunsOf
<1>5. runData' = [runData EXCEPT ![n0] = Append(@, r)]
  BY <1>2
<1> HIDE DEF r
<1>6. /\ runData \in [Nodes -> Seq(RunsOf(Nodes))] /\ runData[n0] \in Seq(RunsOf(Nodes))
      /\ runData'[n0] = Append(runData[n0], r)
      /\ \A m \in Nodes : m # n0 => runData'[m] = runData[m]
  BY <1>4, <1>5, DataFacts DEF RInv
<1>7. /\ run \in Nat
      /\ DOMAIN runData'[n0] = DOMAIN runData[n0] \cup {run + 1}
      /\ run + 1 \notin DOMAIN runData[n0]
      /\ \A k \in DOMAIN runData[n0] : runData'[n0][k] = runData[n0][k]
      /\ runData'[n0][run + 1] = r
  BY <1>4, <1>6, RunAppended
<1>8. Cur = {n0} /\ Cur' = {}
  BY <1>1 DEF Cur
<1>9. kept[n0] = 0
  <2>1. n0 \in Busy(State, Cur)
    BY <1>4, <1>8 DEF Busy
  <2>2. ~Idle(n0, Busy(State, Cur))
    BY <2>1 DEF Idle
  <2>3. kept[n0] \in Nat /\ ~(kept[n0] > 0)
    BY <1>4, <2>2 DEF RInv, DInv, KeptIdle
  <2> QED BY <2>3
<1> HIDE DEF run
<1> DEFINE New(n) == {k \in DOMAIN runData'[n] :
                         k > kept[n] /\ runData'[n][k].status = "success"}
<1>10. /\ \A n : RunsMade(n)' = New(n)
       /\ \A n \in Nodes : n # n0 => New(n) = RunsMade(n)
       /\ New(n0) = RunsMade(n0) \cup {run + 1}
  <2>1. \A n : RunsMade(n)' = New(n)
    BY <1>3 DEF RunsMade
  <2>2. run + 1 > kept[n0]
    BY <1>7, <1>9
  <2>3. New(n0) = RunsMade(n0) \cup {run + 1}
    BY <1>4, <1>7, <2>2 DEF RunsMade
  <2>4. \A n \in Nodes : n # n0 => New(n) = RunsMade(n)
    BY <1>6 DEF RunsMade
  <2> QED BY <2>1, <2>3, <2>4
<1> HIDE DEF New
<1>11. /\ \A m : Idle(m, Busy(State, Cur)) => Idle(m, Busy(State', Cur'))
       /\ \A n \in P : Once(n, State', Cur', ran, fed)
  <2> DEFINE z == State'
  <2>1. Fed \cup {c \in graph.connections : c.from = n0} \subseteq fed
    BY DEF Fed
  <2>2. P \subseteq Plain /\ (P # {} => Acyclic /\ SingleConnections)
    OBVIOUS
  <2> HIDE DEF fed, P
  <2>3. CASE n0 = destination
    <3>1. z = State
      BY <1>2, <2>3 DEF State
    <3>2. Busy(z, Cur') \subseteq Busy(State, Cur)
      BY <1>8, <3>1 DEF Busy
    <3>3. \A m : Idle(m, Busy(State, Cur)) => Idle(m, Busy(z, Cur'))
      BY <3>2 DEF Idle
    <3>4. ASSUME NEW n \in P PROVE Once(n, z, Cur', ran, fed)
      <4>1. Once(n, State, Cur, Ran, Fed)
        BY <2>2 DEF RInv, PlainOnce
      <4>2. /\ One(Queued(n, z.stack))
            /\ Queued(n, z.stack) # {} => n \notin Cur' \cup ran
            /\ n \notin Cur' \cap ran
            /\ Released(n, z, Cur', ran) => Released(n, State, Cur, Ran)
        BY <1>8, <3>1, <4>1 DEF Once, AtMostOnce, Released
      <4> HIDE DEF z, ran
      <4> QED BY <2>1, <3>1, <3>3, <4>1, <4>2, OnceMoved
    <3> QED BY <3>3, <3>4
  <2>4. CASE n0 # destination
    <3>1. PICK order \in ConnectionsToFollow(n0, out) : RunWaiting(Follow(order, run))
      BY <1>2, <2>4
    <3>2. z.stack = stack' /\ z.waiting = waiting'
      BY DEF State
    <3> HIDE DEF z
    <3>3. /\ \A m : Idle(m, Busy(State, Cur)) => Idle(m, Busy(z, {}))
          /\ \A n \in P : Once(n, z, {}, Ran \cup {n0}, fed)
      BY <1>1, <1>7, <2>1, <2>2, <3>1, <3>2, RunFollowed
    <3> QED BY <1>8, <3>3 DEF z
  <2> QED BY <2>3, <2>4
<1>12. /\ Plain' = Plain /\ Plain \subseteq Nodes
       /\ Acyclic' <=> Acyclic
       /\ SingleConnections' <=> SingleConnections
       /\ \A n : Idle(n, Busy(State, Cur))' <=> Idle(n, Busy(State', Cur'))
       /\ \A n : Once(n, State, Cur, Ran, Fed)' <=> Once(n, State', Cur', Ran', Fed')
  BY <1>3, SamePlain DEF Plain
<1>13. Ran' = ran
  <2>1. Ran' = {n \in Nodes : RunsMade(n)' # {}}
    BY <1>3 DEF Ran
  <2>2. Ran' = {n \in Nodes : New(n) # {}}
    BY <1>10, <2>1
  <2> QED BY <1>4, <1>10, <2>2 DEF Ran
<1>14. Fed' = fed
  BY <1>3, <1>13 DEF Fed
<1>15. PlainOnce'
  <2> SUFFICES ASSUME Acyclic, SingleConnections, NEW n \in Plain
               PROVE  Once(n, State', Cur', Ran', Fed') /\ One(RunsMade(n)')
    BY <1>12 DEF PlainOnce
  <2>1. Once(n, State', Cur', ran, fed)
    BY <1>11
  <2>2. One(New(n))
    <3>1. CASE n = n0
      <4>1. RunsMade(n0) = {}
        BY <1>8, <3>1, PlainRunsFirst
      <4>2. New(n0) = {run + 1}
        BY <1>10, <4>1
      <4> QED BY <3>1, <4>2 DEF One
    <3>2. CASE n # n0
      BY <1>10, <1>12, <3>2 DEF RInv, PlainOnce
    <3> QED BY <3>1, <3>2
  <2> QED BY <1>10, <1>13, <1>14, <2>1, <2>2
<1>16. KeptIdle'
  <2> SUFFICES ASSUME NEW n \in Nodes, kept[n] > 0
               PROVE  Idle(n, Busy(State', Cur')) /\ Len(runData'[n]) = kept[n]
    BY <1>3, <1>12 DEF KeptIdle
  <2>1. Idle(n, Busy(State, Cur)) /\ Len(runData[n]) = kept[n]
    BY DEF RInv, KeptIdle
  <2>2. n # n0
    BY <1>9
  <2> QED BY <1>6, <1>11, <2>1, <2>2
<1>17. RunsEnd'
  <2> SUFFICES ASSUME NEW n \in Nodes, NEW k \in DOMAIN runData'[n], k > kept[n],
                      runData'[n][k].status # "success"
               PROVE  FALSE
    BY <1>3 DEF RunsEnd
  <2>1. k \in DOMAIN runData[n] /\ runData'[n][k] = runData[n][k]
    BY <1>4, <1>6, <1>7
  <2> QED BY <1>1, <2>1 DEF RInv, RunsEnd
<1> QED BY <1>15, <1>16, <1>17

\* At first the trigger is on the stack, and nothing that is busy leads to it.
LEMMA InitOnce ==
    ASSUME Init, DInv
    PROVE  PlainOnce /\ RunsEnd /\ KeptIdle
<1> DEFINE n0 == workflow.trigger
           item == [node |-> n0, resumed |-> FALSE, inputs |-> <<First>>]
<1>1. /\ stack = <<item>>
      /\ waiting = [n \in Nodes |-> NoEntries] /\ runData = [n \in Nodes |-> <<>>]
      /\ current = None /\ kept = [n \in Nodes |-> 0]
  BY DEF Init, Nodes
<1>2. RunsEnd /\ KeptIdle
  BY <1>1 DEF RunsEnd, KeptIdle
<1>3. \A n \in Nodes : RunsMade(n) = {}
  BY <1>1 DEF RunsMade
<1>4. Ran = {} /\ Cur = {}
  BY <1>1, <1>3 DEF Ran, Cur
<1>5. \A n : Queued(n, State.stack) = IF n = n0 THEN {1} ELSE {}
  <2>1. DOMAIN stack = {1} /\ stack[1].node = n0
    BY <1>1
  <2> HIDE DEF n0
  <2> QED BY <2>1 DEF Queued, State
<1>6. \A n \in Nodes : DOMAIN State.waiting[n] = {}
  BY <1>1 DEF State, NoEntries
<1>7. One({}) /\ One({1})
  BY DEF One
<1> HIDE DEF n0
<1>8. Busy(State, Cur) \subseteq {n0}
  BY <1>4, <1>5, <1>6 DEF Busy
<1>9. ASSUME Acyclic, SingleConnections, NEW n \in Plain
      PROVE  Once(n, State, Cur, Ran, Fed) /\ One(RunsMade(n))
  <2>1. n \in Nodes
    BY DEF Plain
  <2>2. AtMostOnce(n, State, Cur, Ran)
    BY <1>4, <1>5, <1>6, <1>7, <2>1 DEF AtMostOnce
  <2>3. ASSUME n = n0
        PROVE  \A c \in DirectParentConnections(graph, n) : Idle(c.from, Busy(State, Cur))
    <3>1. n \notin Children(graph, n) /\ Closed(graph)
      BY <1>9, <2>1 DEF Acyclic, DInv, IInv, GraphOver
    <3>2. Parents(graph, n) \cap Busy(State, Cur) = {}
      BY <1>8, <2>3 DEF Parents
    <3> QED BY <3>1, <3>2, AllIdleAbove
  <2>4. Released(n, State, Cur, Ran) => n = n0
    BY <1>4, <1>5 DEF Released
  <2>5. WithAll(n, State, Cur, Ran, Fed)
    BY <1>6, <2>1, <2>3, <2>4 DEF WithAll, Got
  <2> QED BY <1>3, <1>7, <2>1, <2>2, <2>5 DEF Once
<1>10. PlainOnce
  BY <1>9 DEF PlainOnce
<1> QED BY <1>2, <1>10

-----------------------------------------------------------------------------
(* A partial execution starts *)

\* The node has one more index, and the others stay.
QueuedMore(node, st, new) ==
    /\ \A n : n # node => Queued(n, new) = Queued(n, st)
    /\ Queued(node, new) = Queued(node, st) \cup {Len(st) + 1}

\* The indices of a node after an item was put at the end.
LEMMA QueuedAppended ==
    ASSUME NEW T, NEW st \in Seq(T), NEW item \in T, NEW new, new = Append(st, item)
    PROVE  QueuedMore(item.node, st, new)
<1>1. /\ Len(st) \in Nat /\ DOMAIN st = 1..Len(st) /\ DOMAIN new = 1..(Len(st) + 1)
      /\ new[Len(st) + 1] = item /\ \A i \in 1..Len(st) : new[i] = st[i]
  BY LenProperties
<1> DEFINE L == Len(st)
<1>2. /\ L \in Nat /\ DOMAIN st = 1..L /\ DOMAIN new = 1..(L + 1)
      /\ new[L + 1] = item /\ \A i \in 1..L : new[i] = st[i]
  BY <1>1
<1> HIDE DEF L
<1>3. DOMAIN new = DOMAIN st \cup {L + 1} /\ L + 1 \notin DOMAIN st
  BY <1>2
<1> QED BY <1>2, <1>3 DEF Queued, QueuedMore, L

\* What is started of a node; that of the others stays.
SameNode(n, x, y) == Queued(n, y.stack) = Queued(n, x.stack) /\ y.waiting[n] = x.waiting[n]

OthersSame(N, n, x, y) == \A m \in N \ {n} : SameNode(m, x, y)
OnePerInput(group) == \A c, d \in group : c.input = d.input => c = d

\* A group is queued, or waits in a new entry, or has no data; the other nodes
\* stay as they are.
GroupAdded(n, group, given, runs, x, y) ==
    \/ /\ group \subseteq given
       /\ Queued(n, y.stack) = Queued(n, x.stack) \cup {Len(x.stack) + 1}
       /\ y.waiting[n] = x.waiting[n]
    \/ ~(group \subseteq given) /\ WaitingEntry(group, runs) = <<>> /\ y = x
    \/ /\ ~(group \subseteq given) /\ WaitingEntry(group, runs) # <<>>
       /\ Queued(n, y.stack) = Queued(n, x.stack)
       /\ y.waiting[n] = [i \in DOMAIN x.waiting[n] \cup {Cardinality(DOMAIN x.waiting[n])} |->
                             IF i = Cardinality(DOMAIN x.waiting[n])
                             THEN WaitingEntry(group, runs) ELSE x.waiting[n][i]]

\* Adding a group concerns its node only.
LEMMA AddGroupNode ==
    ASSUME NEW N, NEW runs \in [N -> Seq(RunsOf(N))], NEW A, A \subseteq N, NEW n \in A,
           NEW pinned, NEW given, NEW group, IsFiniteSet(group),
           group \subseteq Connections(N, Nat, Nat),
           OnePerInput(group),
           NEW x \in StartStates(N, A, Giving(N, runs, pinned)),
           NEW y, y = AddGroup(x, n, group, given, runs, pinned)
    PROVE  /\ OthersSame(N, n, x, y)
           /\ GroupAdded(n, group, given, runs, x, y)
<1> DEFINE G == Giving(N, runs, pinned)
           item == StackItem(n, group, runs, pinned)
           e == x.waiting[n]
           next == Cardinality(DOMAIN e)
           entry == WaitingEntry(group, runs)
           in == [i \in DOMAIN e \cup {next} |-> IF i = next THEN entry ELSE e[i]]
<1>1. y = IF group \subseteq given THEN [x EXCEPT !.stack = Append(@, item)]
          ELSE IF entry = <<>> THEN x ELSE [x EXCEPT !.waiting[n] = in]
  BY DEF AddGroup
<1>2. item \in StartItems(N, A, G) /\ item.node = n
  <2>1. item \in StartItems(N, A, G)
    BY StackItemType DEF OnePerInput
  <2>2. item.node = n
    BY DEF StackItem
  <2> QED BY <2>1, <2>2
<1>3. /\ x.stack \in Seq(StartItems(N, A, G)) /\ x.waiting \in [N -> StartEntries(N, G)]
      /\ x = [stack |-> x.stack, waiting |-> x.waiting] /\ n \in N
  BY DEF StartStates, StartWaiting
<1> HIDE DEF item, G, in, entry
<1>4. CASE group \subseteq given
  <2>1. y.stack = Append(x.stack, item) /\ y.waiting = x.waiting
    <3>1. y = [stack |-> Append(x.stack, item), waiting |-> x.waiting]
      BY <1>1, <1>3, <1>4
    <3> QED BY <3>1
  <2>2. /\ \A m : m # n => Queued(m, y.stack) = Queued(m, x.stack)
        /\ Queued(n, y.stack) = Queued(n, x.stack) \cup {Len(x.stack) + 1}
    <3> DEFINE st == x.stack
               T == StartItems(N, A, G)
    <3>1. st \in Seq(T) /\ item \in T /\ y.stack = Append(st, item)
      BY <1>2, <1>3, <2>1
    <3> HIDE DEF st, T
    <3>2. QueuedMore(item.node, st, y.stack)
      BY <3>1, QueuedAppended
    <3> QED BY <1>2, <3>2 DEF st, QueuedMore
  <2> QED BY <1>4, <2>1, <2>2 DEF GroupAdded, SameNode, OthersSame
<1>5. CASE ~(group \subseteq given) /\ entry = <<>>
  <2>1. y = x
    BY <1>1, <1>5
  <2> QED BY <1>5, <2>1 DEF GroupAdded, SameNode, OthersSame, entry
<1>6. CASE ~(group \subseteq given) /\ entry # <<>>
  <2>1. y.stack = x.stack /\ y.waiting = [x.waiting EXCEPT ![n] = in]
    <3>1. y = [stack |-> x.stack, waiting |-> [x.waiting EXCEPT ![n] = in]]
      BY <1>1, <1>3, <1>6
    <3> QED BY <3>1
  <2>2. y.waiting[n] = in /\ \A m \in N \ {n} : y.waiting[m] = x.waiting[m]
    BY <1>3, <2>1
  <2>3. OthersSame(N, n, x, y)
    BY <2>1, <2>2 DEF SameNode, OthersSame
  <2>4. GroupAdded(n, group, given, runs, x, y)
    BY <1>6, <2>1, <2>2 DEF GroupAdded, in, entry
  <2> QED BY <2>3, <2>4
<1> QED BY <1>4, <1>5, <1>6

\* A node without connections into it is queued with what a trigger is run with.
StartsFirst(n, x, y) ==
    y = [x EXCEPT !.stack = Append(@, [node |-> n, resumed |-> FALSE, inputs |-> <<First>>])]
QueuedLast(n, x, y) ==
    /\ Queued(n, y.stack) = Queued(n, x.stack) \cup {Len(x.stack) + 1}
    /\ y.waiting[n] = x.waiting[n]

\* A node that starts so is queued, and the others stay.
LEMMA FirstAdded ==
    ASSUME NEW N, NEW A, A \subseteq N, NEW n \in A, NEW H, NEW x \in StartStates(N, A, H),
           NEW y, StartsFirst(n, x, y)
    PROVE  /\ OthersSame(N, n, x, y)
           /\ QueuedLast(n, x, y)
<1> DEFINE item == [node |-> n, resumed |-> FALSE, inputs |-> <<First>>]
           st == x.stack
           T == StartItems(N, A, H)
<1>1. y = [x EXCEPT !.stack = Append(@, item)] /\ item.node = n
  BY DEF StartsFirst
<1>2. item \in T
  <2>1. <<First>> \in Seq(StartData(N, H))
    BY DEF StartData
  <2> QED BY <2>1 DEF StartItems
<1> HIDE DEF item
<1>3. st \in Seq(T) /\ x = [stack |-> st, waiting |-> x.waiting]
  BY DEF StartStates
<1>4. y.stack = Append(st, item) /\ y.waiting = x.waiting
  <2>1. y = [stack |-> Append(st, item), waiting |-> x.waiting]
    BY <1>1, <1>3
  <2> QED BY <2>1
<1> HIDE DEF st, T
<1>5. QueuedMore(item.node, st, y.stack)
  BY <1>2, <1>3, <1>4, QueuedAppended
<1> QED BY <1>1, <1>4, <1>5 DEF SameNode, OthersSame, QueuedLast, QueuedMore, st

\* Adding a start node concerns that node only.
LEMMA AddStartNodeOthers ==
    ASSUME NEW N, NEW runs \in [N -> Seq(RunsOf(N))], NEW A, A \subseteq N, NEW n \in A,
           NEW pinned, NEW g, IsFiniteSet(g.connections),
           g.connections \subseteq Connections(N, Nat, Nat),
           NEW x \in StartStates(N, A, Giving(N, runs, pinned)),
           NEW all, all = DirectParentConnections(g, n),
           NEW given, given = GivenOf(all, runs, pinned),
           NEW y, y = AddStartNode(g, runs, pinned, x, n)
    PROVE  OthersSame(N, n, x, y)
<1> DEFINE H == Giving(N, runs, pinned)
           X == StartStates(N, A, H)
           D == Cardinality(all)
<1>1. D \in Nat /\ IsFiniteSet(all) /\ all \subseteq Connections(N, Nat, Nat)
  BY FS_Subset, FS_CardinalityType DEF DirectParentConnections
<1>2. CASE all = {}
  <2>1. StartsFirst(n, x, y)
    BY <1>2 DEF AddStartNode, StartsFirst
  <2> QED BY <2>1, FirstAdded
<1>3. CASE all # {}
  <2>1. GroupsTo(runs, pinned, n, all, given, x, StartStates(N, A, Giving(N, runs, pinned)),
                 AddStartNode(g, runs, pinned, x, n))
    BY <1>3, GroupSteps
  <2>2. PICK it : GroupsIn(runs, pinned, n, all, given, x, X, it) /\ y = it[D].start
    BY <2>1 DEF GroupsTo
  <2> HIDE DEF X, D
  <2>C. it \in [0..D -> [left : SUBSET all, start : X]] /\ it[0] = [left |-> all, start |-> x]
    BY <2>2 DEF GroupsIn, D, X, H
  <2> DEFINE bad == {k \in 0..D : ~OthersSame(N, n, x, it[k].start)}
  <2> SUFFICES ASSUME bad # {} PROVE FALSE
    <3>1. D \in 0..D
      BY <1>1
    <3> QED BY <2>2, <3>1
  <2>3. bad \subseteq Nat
    BY <1>1
  <2>4. PICK k \in bad : \A j \in bad : k <= j
    BY <2>3, LeastNumber
  <2>5. k # 0
    BY <2>C DEF SameNode, OthersSame
  <2>6. k - 1 \in 0..D /\ ~(k <= k - 1) /\ k \in 1..D
    BY <2>5, <1>1
  <2>7. OthersSame(N, n, x, it[k - 1].start)
    BY <2>4, <2>6
  <2> DEFINE before == it[k - 1]
             group == NextGroup(before.left, given)
             z == AddGroup(before.start, n, group, given, runs, pinned)
  <2>8. before.left \subseteq all /\ before.start \in X
    BY <2>C, <2>6
  <2>9. it[k] = IF before.left = {} THEN before ELSE [left |-> before.left \ group, start |-> z]
    BY <2>2, <2>6 DEF GroupsIn, D
  <2>10. OthersSame(N, n, before.start, z)
    <3>1. group \subseteq before.left /\ OnePerInput(group)
      BY NextGroupType DEF OnePerInput
    <3> DEFINE b == before.start
    <3> HIDE DEF before, group
    <3>2. IsFiniteSet(group) /\ group \subseteq Connections(N, Nat, Nat)
      BY <1>1, <2>8, <3>1, FS_Subset
    <3>3. b \in StartStates(N, A, Giving(N, runs, pinned))
      BY <2>8 DEF X, H
    <3> HIDE DEF z, b
    <3>4. z = AddGroup(b, n, group, given, runs, pinned)
      BY DEF z, b
    <3>5. /\ OthersSame(N, n, b, z)
          /\ GroupAdded(n, group, given, runs, b, z)
      BY <3>1, <3>2, <3>3, <3>4, AddGroupNode
    <3> QED BY <3>5 DEF b
  <2> HIDE DEF z, group
  <2>11. OthersSame(N, n, x, it[k].start)
    <3>1. CASE it[k] = before
      BY <2>7, <3>1
    <3>2. CASE it[k].start = z
      BY <2>7, <2>10, <3>2 DEF SameNode, OthersSame
    <3> QED BY <2>9, <3>1, <3>2
  <2> QED BY <2>11
<1> QED BY <1>2, <1>3

\* Connections into the first and the second input are one group.
LEMMA WholeGroup ==
    ASSUME NEW all, all # {}, \A c \in all : c.input \in {0, 1},
           OnePerInput(all), NEW given
    PROVE  NextGroup(all, given) = all
<1> DEFINE At(i) == {c \in all : c.input = i}
           Preferred(i) == IF At(i) \cap given # {} THEN CHOOSE c \in At(i) \cap given : TRUE
                           ELSE CHOOSE c \in At(i) : TRUE
           inputs == {c.input : c \in all}
           smallest == Min(inputs)
           some == {d \in all : \A i \in smallest..d.input : At(i) # {}}
<1>1. NextGroup(all, given) = {Preferred(c.input) : c \in some}
  BY DEF NextGroup
<1>2. smallest \in inputs /\ \A i \in inputs : smallest <= i
  <2>1. inputs \subseteq Nat /\ inputs # {}
    OBVIOUS
  <2> HIDE DEF inputs
  <2> QED BY <2>1, MinProperties
<1>3. \A c \in all : Preferred(c.input) = c
  <2> TAKE c \in all
  <2>1. \A d \in At(c.input) : d = c
    BY DEF OnePerInput
  <2>2. c \in At(c.input)
    OBVIOUS
  <2> HIDE DEF At
  <2> QED BY <2>1, <2>2
<1>4. \A i \in inputs : At(i) # {}
  OBVIOUS
<1>5. some = all
  <2> SUFFICES ASSUME NEW d \in all, NEW i \in smallest..d.input PROVE At(i) # {}
    OBVIOUS
  <2>1. smallest \in {0, 1} /\ d.input \in {0, 1} /\ d.input \in inputs
    BY <1>2
  <2> HIDE DEF smallest
  <2>2. i = smallest \/ i = d.input
    BY <2>1
  <2> QED BY <1>2, <1>4, <2>1, <2>2
<1> HIDE DEF some, Preferred
<1> QED BY <1>1, <1>3, <1>5

\* A start node with no more than two inputs is queued with all that its
\* connections give, or waits for the rest.
StartedAs(n, all, given, runs, y) ==
    /\ One(Queued(n, y.stack)) /\ One(DOMAIN y.waiting[n])
    /\ Queued(n, y.stack) # {} => all \subseteq given /\ DOMAIN y.waiting[n] = {}
    /\ \A i \in DOMAIN y.waiting[n] :
          /\ ~(all \subseteq given)
          /\ y.waiting[n][i] = WaitingEntry(all, runs) /\ WaitingEntry(all, runs) # <<>>

\* So it is with any start node with no more than two inputs.
LEMMA AddStartNodeSmall ==
    ASSUME NEW N, NEW runs \in [N -> Seq(RunsOf(N))], NEW A, A \subseteq N, NEW n \in A,
           NEW pinned, NEW g, IsFiniteSet(g.connections),
           g.connections \subseteq Connections(N, Nat, Nat),
           NEW x \in StartStates(N, A, Giving(N, runs, pinned)),
           Queued(n, x.stack) = {}, DOMAIN x.waiting[n] = {},
           NEW all, all = DirectParentConnections(g, n), \A c \in all : c.input \in {0, 1},
           OnePerInput(all),
           NEW given, given = GivenOf(all, runs, pinned),
           NEW y, y = AddStartNode(g, runs, pinned, x, n)
    PROVE  StartedAs(n, all, given, runs, y)
<1> DEFINE H == Giving(N, runs, pinned)
           X == StartStates(N, A, H)
           D == Cardinality(all)
<1>1. D \in Nat /\ IsFiniteSet(all) /\ all \subseteq Connections(N, Nat, Nat)
  BY FS_Subset, FS_CardinalityType DEF DirectParentConnections
<1>2. CASE all = {}
  <2>1. StartsFirst(n, x, y)
    BY <1>2 DEF AddStartNode, StartsFirst
  <2>2. OthersSame(N, n, x, y) /\ QueuedLast(n, x, y)
    BY <2>1, FirstAdded
  <2>3. Queued(n, y.stack) = {Len(x.stack) + 1} /\ DOMAIN y.waiting[n] = {}
    BY <2>2 DEF QueuedLast
  <2> QED BY <1>2, <2>3 DEF StartedAs, One
<1>3. CASE all # {}
  <2>A. GroupsTo(runs, pinned, n, all, given, x, StartStates(N, A, Giving(N, runs, pinned)),
                 AddStartNode(g, runs, pinned, x, n))
    BY <1>3, GroupSteps
  <2>1. PICK it : GroupsIn(runs, pinned, n, all, given, x, X, it) /\ y = it[D].start
    BY <2>A DEF GroupsTo
  <2> DEFINE z == AddGroup(x, n, all, given, runs, pinned)
             done == [left |-> {}, start |-> z]
  <2>2. D # 0 /\ 1 \in 1..D
    <3>1. D # 0
      BY <1>1, <1>3, FS_EmptySet
    <3> HIDE DEF D
    <3> QED BY <1>1, <3>1
  <2>3. it[1] = done
    <3>1. it[0] = [left |-> all, start |-> x]
      BY <2>1 DEF GroupsIn
    <3>2. NextGroup(all, given) = all
      BY <1>3, WholeGroup
    <3>3. \A k \in 1..D :
             it[k] = LET before == it[k - 1]
                         group == NextGroup(before.left, given)
                     IN  IF before.left = {} THEN before
                         ELSE [left |-> before.left \ group,
                               start |-> AddGroup(before.start, n, group, given, runs, pinned)]
      BY <2>1 DEF GroupsIn
    <3> DEFINE before == it[0]
               group == NextGroup(before.left, given)
    <3>4. it[1] = IF before.left = {} THEN before
                  ELSE [left |-> before.left \ group,
                        start |-> AddGroup(before.start, n, group, given, runs, pinned)]
      <4>1. 1 - 1 = 0
        OBVIOUS
      <4> HIDE DEF D
      <4> QED BY <2>2, <3>3, <4>1
    <3>5. before.left = all /\ before.start = x
      BY <3>1
    <3> HIDE DEF before
    <3>6. group = all
      BY <3>2, <3>5
    <3> HIDE DEF group
    <3> QED BY <1>3, <3>4, <3>5, <3>6
  <2>4. \A k \in 1..D : k # 1 /\ it[k - 1].left = {} => it[k] = it[k - 1]
    BY <2>1 DEF GroupsIn
  <2> HIDE DEF z, D
  <2>5. it[D] = done
    <3> DEFINE bad == {k \in 1..D : it[k] # done}
    <3> SUFFICES ASSUME bad # {} PROVE FALSE
      <4>1. D \in 1..D
        BY <1>1, <2>2
      <4> HIDE DEF done
      <4> QED BY <4>1
    <3>1. bad \subseteq Nat
      BY <1>1
    <3>2. PICK k \in bad : \A j \in bad : k <= j
      BY <3>1, LeastNumber
    <3>3. k # 1
      BY <2>3
    <3>4. k - 1 \in 1..D /\ ~(k <= k - 1)
      BY <1>1, <3>3
    <3>5. it[k - 1] = done
      BY <3>2, <3>4
    <3> QED BY <2>4, <3>3, <3>5
  <2>6. y = z
    BY <2>1, <2>5
  <2>7. GroupAdded(n, all, given, runs, x, y)
    BY <1>1, <2>6, AddGroupNode DEF z
  <2> QED BY <2>7 DEF GroupAdded, StartedAs, One
<1> QED BY <1>2, <1>3

\* A node of which connections lead into the first two inputs only, one each.
SmallNode(g, n) ==
    /\ \A c \in DirectParentConnections(g, n) : c.input \in {0, 1}
    /\ OnePerInput(DirectParentConnections(g, n))

\* The nodes started so far, and nothing of the others.
StartedSoFar(g, runs, pinned, done, x) ==
    \A n \in Nodes :
        IF n \in done
        THEN SmallNode(g, n) =>
                StartedAs(n, DirectParentConnections(g, n),
                          GivenOf(DirectParentConnections(g, n), runs, pinned), runs, x)
        ELSE Queued(n, x.stack) = {} /\ DOMAIN x.waiting[n] = {}

\* The next node is started.
LEMMA StartedNext ==
    ASSUME NEW runs \in [Nodes -> Seq(RunsOf(Nodes))], NEW A, A \subseteq Nodes, NEW n \in A,
           NEW pinned, NEW g, IsFiniteSet(g.connections),
           g.connections \subseteq Connections(Nodes, Nat, Nat),
           NEW x \in StartStates(Nodes, A, Giving(Nodes, runs, pinned)),
           NEW done, n \notin done, StartedSoFar(g, runs, pinned, done, x),
           NEW y, y = AddStartNode(g, runs, pinned, x, n)
    PROVE  StartedSoFar(g, runs, pinned, done \cup {n}, y)
<1> DEFINE all == DirectParentConnections(g, n)
           given == GivenOf(all, runs, pinned)
<1>1. all = DirectParentConnections(g, n) /\ given = GivenOf(all, runs, pinned)
  OBVIOUS
<1>2. Queued(n, x.stack) = {} /\ DOMAIN x.waiting[n] = {}
  BY DEF StartedSoFar
<1> HIDE DEF all, given
<1>3. OthersSame(Nodes, n, x, y)
  BY <1>1, AddStartNodeOthers
<1>4. ASSUME SmallNode(g, n) PROVE StartedAs(n, all, given, runs, y)
  <2>1. (\A c \in all : c.input \in {0, 1}) /\ OnePerInput(all)
    BY <1>1, <1>4 DEF SmallNode
  <2> QED BY <1>1, <1>2, <2>1, AddStartNodeSmall
<1>5. ASSUME NEW m \in Nodes, m # n
      PROVE  Queued(m, y.stack) = Queued(m, x.stack) /\ y.waiting[m] = x.waiting[m]
  BY <1>3, <1>5 DEF OthersSame, SameNode
<1>6. ASSUME NEW m \in done, m \in Nodes, SmallNode(g, m)
      PROVE  StartedAs(m, DirectParentConnections(g, m),
                       GivenOf(DirectParentConnections(g, m), runs, pinned), runs, y)
  <2>1. m # n
    OBVIOUS
  <2>2. StartedAs(m, DirectParentConnections(g, m),
                  GivenOf(DirectParentConnections(g, m), runs, pinned), runs, x)
    BY <1>6 DEF StartedSoFar
  <2>3. Queued(m, y.stack) = Queued(m, x.stack) /\ y.waiting[m] = x.waiting[m]
    BY <1>5, <1>6, <2>1
  <2> QED BY <2>2, <2>3 DEF StartedAs
<1>7. ASSUME NEW m \in Nodes, m \notin done, m # n
      PROVE  Queued(m, y.stack) = {} /\ DOMAIN y.waiting[m] = {}
  <2>1. Queued(m, x.stack) = {} /\ DOMAIN x.waiting[m] = {}
    BY <1>7 DEF StartedSoFar
  <2> QED BY <1>5, <1>7, <2>1
<1>8. SmallNode(g, n) => StartedAs(n, DirectParentConnections(g, n),
                                   GivenOf(DirectParentConnections(g, n), runs, pinned), runs, y)
  BY <1>4 DEF all, given
<1> QED BY <1>6, <1>7, <1>8 DEF StartedSoFar

\* All start nodes are started, and nothing else.
LEMMA StartedAll ==
    ASSUME NEW runs \in [Nodes -> Seq(RunsOf(Nodes))], NEW found, found \subseteq Nodes,
           IsFiniteSet(found), NEW pinned, NEW g, GraphOver(Nodes, g),
           NEW order \in SetToSeqs(found), NEW it,
           StartsIn(Nodes, g, runs, pinned, order,
                    StartStates(Nodes, found, Giving(Nodes, runs, pinned)), it)
    PROVE  StartedSoFar(g, runs, pinned, found, it[Len(order)])
<1> DEFINE X == StartStates(Nodes, found, Giving(Nodes, runs, pinned))
           D == Len(order)
           Done(k) == {order[i] : i \in 1..k}
           bad == {k \in 0..D : ~StartedSoFar(g, runs, pinned, Done(k), it[k])}
<1>1. /\ D \in Nat /\ \A k \in 1..D : order[k] \in found
      /\ \A i, j \in 1..D : order[i] = order[j] => i = j
      /\ \A n \in found : \E i \in 1..D : order[i] = n
  BY Enumerated
<1>2. /\ it \in [0..D -> X]
      /\ it[0] = [stack |-> <<>>, waiting |-> [n \in Nodes |-> NoEntries]]
      /\ \A k \in 1..D : it[k] = AddStartNode(g, runs, pinned, it[k - 1], order[k])
  BY DEF StartsIn
<1> HIDE DEF X, D
<1>3. bad = {}
  <2> SUFFICES ASSUME bad # {} PROVE FALSE
    OBVIOUS
  <2>1. bad \subseteq Nat
    BY <1>1
  <2> HIDE DEF Done
  <2>2. PICK k \in bad : \A j \in bad : k <= j
    BY <2>1, LeastNumber
  <2>3. k # 0
    <3>1. Done(0) = {}
      BY DEF Done
    <3>2. StartedSoFar(g, runs, pinned, {}, it[0])
      BY <1>2 DEF StartedSoFar, Queued, NoEntries
    <3> QED BY <2>2, <3>1, <3>2
  <2>4. k - 1 \in 0..D /\ ~(k <= k - 1) /\ k \in 1..D
    BY <2>3, <1>1
  <2>5. StartedSoFar(g, runs, pinned, Done(k - 1), it[k - 1])
    BY <2>2, <2>4
  <2>6. Done(k) = Done(k - 1) \cup {order[k]} /\ order[k] \notin Done(k - 1)
    <3>1. 1..k = (1..(k - 1)) \cup {k} /\ k \notin 1..(k - 1) /\ 1..k \subseteq 1..D
      BY <1>1, <2>4
    <3> QED BY <1>1, <2>4, <3>1 DEF Done
  <2> DEFINE n == order[k]
             x == it[k - 1]
             y == it[k]
             done == Done(k - 1)
  <2>7. n \in found /\ x \in X /\ y = AddStartNode(g, runs, pinned, x, n)
    BY <1>1, <1>2, <2>4
  <2> HIDE DEF n, x, y, done
  <2>8. x \in StartStates(Nodes, found, Giving(Nodes, runs, pinned))
    BY <2>7 DEF X
  <2>9. n \notin done /\ StartedSoFar(g, runs, pinned, done, x)
    BY <2>5, <2>6 DEF n, x, done
  <2>10. IsFiniteSet(g.connections) /\ g.connections \subseteq Connections(Nodes, Nat, Nat)
    BY DEF GraphOver
  <2>11. StartedSoFar(g, runs, pinned, done \cup {n}, y)
    BY <2>7, <2>8, <2>9, <2>10, StartedNext
  <2> QED BY <2>2, <2>6, <2>11 DEF n, y, done
<1>4. Done(D) = found
  BY <1>1
<1> HIDE DEF Done
<1>5. D \in 0..D
  BY <1>1
<1> QED BY <1>3, <1>4, <1>5 DEF D

\* Connections into the first two inputs, and an entry for one of two inputs.
FirstTwo(all) == (\A c \in all : c.input \in {0, 1}) /\ OnePerInput(all)
OneOfTwo(all, runs, entry) ==
    /\ Len(entry) <= 2
    /\ \E i \in DOMAIN entry : IsData(entry[i])
    /\ \E c \in all : c.input = 1
    /\ \A c \in all : HasData(entry, c.input + 1) => runs[c.from] # <<>>

\* The entry of a start node with no more than two inputs, of which one is
\* given and one is not.
LEMMA SmallEntry ==
    ASSUME NEW N, {None, Hole} \cap RealData(N) = {}, NEW runs \in [N -> Seq(RunsOf(N))],
           NEW pinned, NEW all, IsFiniteSet(all), all \subseteq Connections(N, Nat, Nat),
           FirstTwo(all), ~(all \subseteq GivenOf(all, runs, pinned)),
           NEW entry, entry = WaitingEntry(all, runs), entry # <<>>
    PROVE  OneOfTwo(all, runs, entry)
<1> DEFINE gave == {c \in all : RunsWithData(runs, c.from, c.output) # {}}
           At(i) == {c \in gave : c.input = i - 1}
           ends == {0} \cup {c.input + 1 : c \in gave}
           Element(i) == IF At(i) # {} THEN FirstRun(runs, CHOOSE c \in At(i) : TRUE) ELSE Hole
           m == Max(ends)
<1>A. (\A c \in all : c.input \in {0, 1}) /\ OnePerInput(all)
  BY DEF FirstTwo
<1>1. entry = [i \in 1..m |-> Element(i)]
  BY DEF WaitingEntry
<1>2. \A c \in gave : c \in all /\ runs[c.from] # <<>>
  BY DEF RunsWithData
<1>3. ASSUME NEW i, At(i) # {} PROVE Element(i) \in RealData(N)
  <2>1. PICK c \in gave : Element(i) = FirstRun(runs, c)
    BY <1>3
  <2>2. c \in Connections(N, Nat, Nat) /\ RunsWithData(runs, c.from, c.output) # {}
    OBVIOUS
  <2> HIDE DEF gave, At, Element
  <2> QED BY <2>1, <2>2, FirstRunType
<1>4. \A i : At(i) = {} => Element(i) = Hole
  OBVIOUS
<1>5. ends \subseteq {0, 1, 2} /\ 0 \in ends
  BY <1>A
<1>6. m \in ends /\ \A x \in ends : x <= m
  <2>1. IsFiniteSet({0, 1, 2})
    <3>1. 0 \in Int /\ 2 \in Int /\ 0..2 = {0, 1, 2}
      OBVIOUS
    <3> QED BY <3>1, FS_Interval
  <2>2. IsFiniteSet(ends) /\ ends \subseteq Nat /\ ends # {}
    <3> HIDE DEF ends
    <3>1. ends \in SUBSET {0, 1, 2}
      BY <1>5
    <3>2. IsFiniteSet(ends)
      BY <2>1, <3>1, FS_Subset
    <3> QED BY <1>5, <3>2
  <2> HIDE DEF ends
  <2> QED BY <2>2, MaxProperties
<1> HIDE DEF m, Element
<1>7. m # 0
  <2> SUFFICES ASSUME m = 0 PROVE FALSE
    OBVIOUS
  <2>1. entry = [i \in 1..0 |-> Element(i)]
    BY <1>1
  <2>2. entry = <<>>
    BY <2>1
  <2> QED BY <2>2
<1>8. m \in {1, 2} /\ At(m) # {}
  <2>1. PICK c \in gave : m = c.input + 1
    BY <1>6, <1>7
  <2>2. c.input \in {0, 1}
    BY <1>2, <1>A
  <2>3. m - 1 = c.input /\ m \in {1, 2}
    BY <2>1, <2>2
  <2> QED BY <2>3
<1>9. DOMAIN entry = 1..m /\ Len(entry) = m /\ \A i \in 1..m : entry[i] = Element(i)
  BY <1>1, <1>8
<1>10. \E i \in DOMAIN entry : IsData(entry[i])
  <2>1. m \in 1..m
    BY <1>8
  <2> HIDE DEF At, gave
  <2>A. Element(m) \in RealData(N)
    BY <1>3, <1>8
  <2>2. entry[m] \in RealData(N)
    BY <1>9, <2>1, <2>A
  <2> QED BY <1>9, <2>1, <2>2 DEF IsData
<1>11. \E c \in all : c.input = 1
  <2>1. PICK c \in gave : TRUE
    BY <1>8
  <2>2. PICK d \in all : d \notin GivenOf(all, runs, pinned)
    OBVIOUS
  <2>3. c # d /\ c \in all
    BY <1>2, <2>2 DEF GivenOf
  <2>4. c.input # d.input
    BY <1>A, <2>3 DEF OnePerInput
  <2> QED BY <1>A, <2>3, <2>4
<1>12. ASSUME NEW c \in all, HasData(entry, c.input + 1) PROVE runs[c.from] # <<>>
  <2>1. c.input + 1 \in 1..m /\ entry[c.input + 1] # Hole
    BY <1>9, <1>12 DEF HasData, IsData
  <2>2. At(c.input + 1) # {}
    BY <1>4, <1>9, <2>1
  <2> DEFINE k == c.input + 1
  <2>A. \A d \in At(k) : d \in gave /\ d.input = k - 1
    OBVIOUS
  <2>B. At(k) # {}
    BY <2>2
  <2> HIDE DEF At, gave
  <2>3. PICK d \in gave : d.input = k - 1
    BY <2>A, <2>B
  <2>4. c.input \in {0, 1} /\ d.input = c.input
    BY <1>A, <2>3
  <2>5. d = c
    BY <1>A, <1>2, <2>4 DEF OnePerInput
  <2> QED BY <1>2, <2>5
<1> QED BY <1>8, <1>9, <1>10, <1>11, <1>12 DEF OneOfTwo

\* A partial execution starts with the start nodes busy, nothing run, and
\* nothing leading to what has run data; a pinned node that is not run before
\* gives its data twice.
LEMMA RunPartialOnce ==
    ASSUME RInv, NEW target \in Nodes, NEW dirty, RunPartialWorkflow(target, dirty)
    PROVE  (PlainOnce /\ RunsEnd /\ KeptIdle)'
<1> DEFINE x == [stack |-> stack', waiting |-> waiting']
           B == {n \in Nodes : Queued(n, stack') # {} \/ DOMAIN waiting'[n] # {}}
           Away(m) == \A b \in B : m # b /\ m \notin Children(graph', b)
           Into(n) == DirectParentConnections(graph', n)
           Given(n) == GivenOf(Into(n), runData', workflow.pinned)
<1>1. DInv
  BY DEF RInv
<1>2. /\ UNCHANGED <<workflow, current>> /\ current = None
      /\ GraphOver(Nodes, graph') /\ started' \subseteq graph'.nodes
      /\ kept' = [n \in Nodes |-> Len(runData'[n])]
      /\ runData' \in [Nodes -> Seq(RunsOf(Nodes))]
      /\ \A s \in started', n \in Nodes :
            n = s \/ n \in Children(graph', s) => runData'[n] = <<>>
      /\ \E order \in SetToSeqs(started') : \E it :
            /\ StartsIn(Nodes, graph', runData', workflow.pinned, order,
                        StartStates(Nodes, started',
                                    Giving(Nodes, runData', workflow.pinned)), it)
            /\ [stack |-> stack', waiting |-> waiting'] = it[Len(order)]
  BY <1>1, PartialStart
<1>3. /\ {None, Hole} \cap RealData(Nodes) = {} /\ Nodes' = Nodes
      /\ started' \subseteq Nodes /\ IsFiniteSet(started')
  <2>1. {None, Hole} \cap RealData(Nodes) = {}
    BY <1>1, DataFacts
  <2>2. Nodes' = Nodes /\ IsFiniteSet(Nodes)
    BY <1>2, WorkflowAssumption, <1>1 DEF Nodes, DInv, IInv
  <2>3. started' \subseteq Nodes
    BY <1>2 DEF GraphOver
  <2> QED BY <2>1, <2>2, <2>3, FS_Subset
<1>4. StartedSoFar(graph', runData', workflow.pinned, started', x)
  <2>1. PICK order \in SetToSeqs(started') : \E it :
            /\ StartsIn(Nodes, graph', runData', workflow.pinned, order,
                        StartStates(Nodes, started',
                                    Giving(Nodes, runData', workflow.pinned)), it)
            /\ x = it[Len(order)]
    BY <1>2
  <2>2. PICK it :
            /\ StartsIn(Nodes, graph', runData', workflow.pinned, order,
                        StartStates(Nodes, started',
                                    Giving(Nodes, runData', workflow.pinned)), it)
            /\ x = it[Len(order)]
    BY <2>1
  <2> HIDE DEF x
  <2>3. StartedSoFar(graph', runData', workflow.pinned, started', it[Len(order)])
    BY <1>2, <1>3, <2>2, StartedAll
  <2> QED BY <2>2, <2>3
<1>5. B \subseteq started'
  <2> SUFFICES ASSUME NEW n \in B, n \notin started' PROVE FALSE
    OBVIOUS
  <2>1. Queued(n, x.stack) = {} /\ DOMAIN x.waiting[n] = {}
    BY <1>4 DEF StartedSoFar
  <2> QED BY <2>1
<1>6. /\ (Busy(State, Cur))' = B
      /\ \A n \in Nodes : (RunsMade(n))' = {}
      /\ Ran' = {} /\ Cur' = {} /\ RunsEnd'
  <2>1. Cur' = {}
    BY <1>2 DEF Cur
  <2>2. (Busy(State, Cur))' = B
    BY <1>3, <2>1 DEF Busy, State
  <2>3. \A n \in Nodes : \A k \in DOMAIN runData'[n] : ~(k > kept'[n])
    <3> TAKE n \in Nodes
    <3> DEFINE runs == runData'[n]
    <3>1. runs \in Seq(RunsOf(Nodes)) /\ kept'[n] = Len(runs)
      BY <1>2
    <3> HIDE DEF runs
    <3>2. Len(runs) \in Nat /\ DOMAIN runs = 1..Len(runs)
      BY <3>1
    <3> QED BY <3>1, <3>2 DEF runs
  <2>4. \A n \in Nodes : (RunsMade(n))' = {}
    BY <2>3 DEF RunsMade
  <2>5. Ran' = {}
    BY <1>3, <2>4 DEF Ran
  <2>6. RunsEnd'
    BY <1>3, <2>3 DEF RunsEnd
  <2> QED BY <2>1, <2>2, <2>4, <2>5, <2>6
<1> HIDE DEF B
<1>7. ASSUME NEW m \in Nodes, runData'[m] # <<>> PROVE Away(m)
  BY <1>2, <1>5, <1>7
<1>8. KeptIdle'
  <2>1. ASSUME NEW n \in Nodes, kept'[n] > 0
        PROVE  Away(n) /\ Len(runData'[n]) = kept'[n]
    <3>1. kept'[n] = Len(runData'[n])
      BY <1>2
    <3>2. runData'[n] # <<>>
      <4> SUFFICES ASSUME runData'[n] = <<>> PROVE FALSE
        OBVIOUS
      <4>1. kept'[n] = 0
        BY <3>1
      <4> QED BY <2>1, <4>1
    <3> QED BY <1>7, <3>1, <3>2
  <2>2. \A n \in Nodes' : kept'[n] > 0 =>
            (\A b \in (Busy(State, Cur))' : n # b /\ n \notin Children(graph', b))
            /\ Len(runData'[n]) = kept'[n]
    BY <1>3, <1>6, <2>1
  <2> QED BY <2>2 DEF KeptIdle, Idle
<1>9. ASSUME NEW n \in started', ~\E m \in Repeated' : n = m, NEW c \in Given(n)
      PROVE  Away(c.from)
  <2>1. /\ c \in graph'.connections /\ c.to = n /\ c.from \in Nodes
        /\ runData'[c.from] # <<>> \/ c.from \in workflow.pinned
    BY <1>2 DEF GivenOf, DirectParentConnections, GraphOver, Connections
  <2> SUFFICES ASSUME NEW b \in B, c.from = b \/ c.from \in Children(graph', b) PROVE FALSE
    OBVIOUS
  <2>2. runData'[c.from] = <<>> /\ b \in started' /\ b \in graph'.nodes
    BY <1>2, <1>5, <2>1
  <2>3. b = c.from \/ b \in Parents(graph', c.from)
    BY <2>2 DEF Parents
  <2>4. c \in GivenTwice'
    BY <1>2, <2>1, <2>2, <2>3 DEF GivenTwice
  <2>5. c.to \in Repeated'
    BY <2>4 DEF Repeated
  <2> QED BY <1>9, <2>1, <2>5
<1>10. ASSUME SingleConnections', NEW n \in started', ~\E m \in Repeated' : n = m
       PROVE  /\ InputCount(graph', n) \in {1, 2}
              /\ StartedAs(n, Into(n), Given(n), runData', x)
              /\ IsFiniteSet(Into(n)) /\ Into(n) \subseteq Connections(Nodes, Nat, Nat)
              /\ \A c \in Into(n) : c.input \in {0, 1} /\ c.input < InputCount(graph', n)
              /\ OnePerInput(Into(n))
  <2> DEFINE count == InputCount(graph', n)
  <2>1. count \in Nat \ {0} /\ \A c \in graph'.connections : c.to = n => c.input < count
    BY <1>2, InputCountType
  <2>2. ~(count > 2)
    <3>1. (NumberOfInputs(n))' = count
      BY DEF NumberOfInputs, InputCount
    <3>2. ~((NumberOfInputs(n))' > 2)
      BY <1>10 DEF Repeated
    <3> QED BY <3>1, <3>2
  <2> HIDE DEF count
  <2>3. count \in {1, 2}
    BY <2>1, <2>2
  <2>4. /\ Into(n) \subseteq graph'.connections /\ IsFiniteSet(graph'.connections)
        /\ graph'.connections \subseteq Connections(Nodes, Nat, Nat)
    BY <1>2 DEF DirectParentConnections, GraphOver
  <2>5. IsFiniteSet(Into(n)) /\ Into(n) \subseteq Connections(Nodes, Nat, Nat)
    <3> HIDE DEF Into
    <3> QED BY <2>4, FS_Subset
  <2>6. \A c \in Into(n) : c.input \in {0, 1} /\ c.input < count
    <3> TAKE c \in Into(n)
    <3>1. c \in graph'.connections /\ c.to = n /\ c.input \in Nat
      BY <2>5 DEF DirectParentConnections, Connections
    <3> QED BY <2>1, <2>3, <3>1
  <2>7. OnePerInput(Into(n))
    BY <1>10 DEF OnePerInput, SingleConnections, DirectParentConnections
  <2>8. SmallNode(graph', n)
    BY <2>6, <2>7 DEF SmallNode
  <2>9. StartedAs(n, Into(n), Given(n), runData', x)
    BY <1>3, <1>4, <2>8 DEF StartedSoFar
  <2> QED BY <2>3, <2>5, <2>6, <2>7, <2>9 DEF count
<1> HIDE DEF Away
<1>11. ASSUME SingleConnections', NEW n \in started', ~\E m \in Repeated' : n = m
       PROVE  /\ One(Queued(n, stack')) /\ One(DOMAIN waiting'[n])
              /\ Queued(n, stack') # {} => DOMAIN waiting'[n] = {}
              /\ Queued(n, stack') # {} => \A c \in Into(n) : Away(c.from)
              /\ \A i \in DOMAIN waiting'[n] :
                    /\ Len(waiting'[n][i]) <= 2 /\ InputCount(graph', n) = 2
                    /\ \E j \in DOMAIN waiting'[n][i] : IsData(waiting'[n][i][j])
                    /\ \A c \in Into(n) :
                          HasData(waiting'[n][i], c.input + 1) => Away(c.from)
  <2>1. /\ InputCount(graph', n) \in {1, 2}
        /\ StartedAs(n, Into(n), Given(n), runData', x)
        /\ IsFiniteSet(Into(n)) /\ Into(n) \subseteq Connections(Nodes, Nat, Nat)
        /\ \A c \in Into(n) : c.input \in {0, 1} /\ c.input < InputCount(graph', n)
        /\ OnePerInput(Into(n))
    BY <1>10, <1>11
  <2> DEFINE all == Into(n)
             given == Given(n)
             count == InputCount(graph', n)
  <2>2. given = GivenOf(all, runData', workflow.pinned)
    OBVIOUS
  <2>3. \A c \in given : Away(c.from)
    BY <1>9, <1>11
  <2>4. /\ One(Queued(n, stack')) /\ One(DOMAIN waiting'[n])
        /\ Queued(n, stack') # {} => all \subseteq given /\ DOMAIN waiting'[n] = {}
        /\ \A i \in DOMAIN waiting'[n] :
              /\ ~(all \subseteq given)
              /\ waiting'[n][i] = WaitingEntry(all, runData')
              /\ WaitingEntry(all, runData') # <<>>
    BY <2>1 DEF StartedAs
  <2>5. ASSUME NEW i \in DOMAIN waiting'[n]
        PROVE  /\ Len(waiting'[n][i]) <= 2 /\ count = 2
               /\ \E j \in DOMAIN waiting'[n][i] : IsData(waiting'[n][i][j])
               /\ \A c \in all : HasData(waiting'[n][i], c.input + 1) => Away(c.from)
    <3> DEFINE entry == waiting'[n][i]
    <3>1. entry = WaitingEntry(all, runData') /\ entry # <<>> /\ ~(all \subseteq given)
      BY <2>4
    <3>2. /\ IsFiniteSet(all) /\ all \subseteq Connections(Nodes, Nat, Nat)
          /\ \A c \in all : c.input \in {0, 1}
          /\ OnePerInput(all) /\ count \in {1, 2} /\ \A c \in all : c.input < count
      BY <2>1
    <3> DEFINE runs == runData'
               pinned == workflow.pinned
    <3>A. /\ runs \in [Nodes -> Seq(RunsOf(Nodes))] /\ ~(all \subseteq GivenOf(all, runs, pinned))
          /\ entry = WaitingEntry(all, runs)
      BY <1>2, <2>2, <3>1
    <3> HIDE DEF entry, all, given, count, runs, pinned
    <3>B. OneOfTwo(all, runs, entry)
      <4>1. FirstTwo(all)
        BY <3>2 DEF FirstTwo
      <4> QED BY <1>3, <3>1, <3>2, <3>A, <4>1, SmallEntry
    <3>3. /\ Len(entry) <= 2
          /\ \E j \in DOMAIN entry : IsData(entry[j])
          /\ \E c \in all : c.input = 1
          /\ \A c \in all : HasData(entry, c.input + 1) => runData'[c.from] # <<>>
      BY <3>B DEF OneOfTwo, runs
    <3>4. count = 2
      BY <3>2, <3>3
    <3>5. \A c \in all : HasData(entry, c.input + 1) => Away(c.from)
      BY <1>7, <3>2, <3>3 DEF Connections
    <3> QED BY <3>3, <3>4, <3>5 DEF entry
  <2> QED BY <2>3, <2>4, <2>5
<1> HIDE DEF Into
<1>12. ASSUME Acyclic', SingleConnections', NEW n \in Plain'
       PROVE  (Once(n, State, Cur, Ran, Fed))' /\ (One(RunsMade(n)))'
  <2>1. n \in Nodes /\ ~\E m \in Repeated' : n = m
    BY <1>3 DEF Plain
  <2>2. (One(RunsMade(n)))'
    BY <1>6, <2>1 DEF One
  <2>3. State'.stack = stack' /\ State'.waiting = waiting' /\ Cur' = {} /\ Ran' = {}
    BY <1>6 DEF State
  <2>4. (NumberOfInputs(n))' = InputCount(graph', n)
    BY DEF NumberOfInputs, InputCount
  <2>5. (DirectParentConnections(graph, n))' = Into(n)
    BY DEF Into
  <2>6. \A m : Away(m) <=> \A b \in (Busy(State, Cur))' : m # b /\ m \notin Children(graph', b)
    BY <1>6 DEF Away
  <2>7. CASE n \notin started'
    <3>1. Queued(n, stack') = {} /\ DOMAIN waiting'[n] = {}
      BY <1>5, <2>1, <2>7 DEF B
    <3>2. (AtMostOnce(n, State, Cur, Ran))'
      BY <2>3, <3>1 DEF AtMostOnce, One
    <3>3. (WithAll(n, State, Cur, Ran, Fed))'
      BY <2>3, <3>1 DEF WithAll, Released
    <3> QED BY <2>2, <3>2, <3>3 DEF Once
  <2>8. CASE n \in started'
    <3>1. /\ One(Queued(n, stack')) /\ One(DOMAIN waiting'[n])
          /\ Queued(n, stack') # {} => DOMAIN waiting'[n] = {}
          /\ Queued(n, stack') # {} => \A c \in Into(n) : Away(c.from)
          /\ \A i \in DOMAIN waiting'[n] :
                /\ Len(waiting'[n][i]) <= 2 /\ InputCount(graph', n) = 2
                /\ \E j \in DOMAIN waiting'[n][i] : IsData(waiting'[n][i][j])
                /\ \A c \in Into(n) :
                      HasData(waiting'[n][i], c.input + 1) => Away(c.from)
      BY <1>11, <1>12, <2>1, <2>8
    <3>2. (AtMostOnce(n, State, Cur, Ran))'
      BY <2>3, <2>4, <3>1 DEF AtMostOnce, Released
    <3>3. \A c : Away(c.from) => (Got(c, Busy(State, Cur), Fed))'
      BY <2>6 DEF Got, Idle
    <3>4. (Released(n, State, Cur, Ran))' => Queued(n, stack') # {}
      BY <2>3 DEF Released
    <3>5. \A i \in DOMAIN waiting'[n] : (Awaits(n, waiting[n][i]))'
      BY <2>4, <3>1 DEF Awaits
    <3>6. (WithAll(n, State, Cur, Ran, Fed))'
      BY <2>3, <2>5, <3>1, <3>3, <3>4, <3>5 DEF WithAll
    <3> QED BY <2>2, <3>2, <3>6 DEF Once
  <2> QED BY <2>7, <2>8
<1>13. PlainOnce'
  BY <1>12 DEF PlainOnce
<1> QED BY <1>6, <1>8, <1>13

\* The start establishes RInv.
LEMMA InitRInv == Init => RInv
BY InitDInv, InitOnce DEF RInv

\* Every step keeps RInv.
LEMMA NextRInv == RInv /\ [Next]_vars => RInv'
<1> SUFFICES ASSUME RInv, [Next]_vars PROVE RInv'
  OBVIOUS
<1>1. DInv'
  BY NextDInv DEF RInv
<1>2. ASSUME (PlainOnce /\ RunsEnd /\ KeptIdle)' PROVE RInv'
  BY <1>1, <1>2 DEF RInv
<1>3. ASSUME NEW target \in Nodes \ workflow.disabled, NEW dirty \in workflow.edited,
             RunPartialWorkflow(target, dirty)
      PROVE  RInv'
  BY <1>2, <1>3, RunPartialOnce
<1>4. CASE TakeNode
  BY <1>2, <1>4, TakeNodeOnce
<1>5. CASE FinishNode
  BY <1>2, <1>5, FinishNodeOnce
<1>6. CASE ReturnNothing
  BY <1>2, <1>6, ReturnNothingOnce
<1>7. ASSUME NEW newStatus \in {"error", "waiting"}, current # None, Stop(newStatus)
      PROVE  RInv'
  <2>1. UNCHANGED executions
    BY <1>7 DEF Stop
  <2> QED BY <1>2, <1>7, <2>1, StopOnce
<1>8. CASE FailNode
  BY <1>7, <1>8 DEF FailNode
<1>9. CASE PutToWait
  BY <1>7, <1>9 DEF PutToWait
<1>10. CASE Resume
  BY <1>2, <1>10, ResumeOnce
<1>11. CASE Cancel \/ Finish \/ UNCHANGED vars
  <2>1. UNCHANGED <<workflow, execVars, executions, stack, waiting, overwritten, runData, current>>
        /\ (status = "running" \/ status' = status)
    BY <1>11 DEF Cancel, Finish, vars, counters
  <2> QED BY <1>2, <2>1, StatusOnce
<1> QED BY <1>3, <1>4, <1>5, <1>6, <1>8, <1>9, <1>10, <1>11 DEF Next

\* In a workflow without cycles and with one connection per input, no node runs
\* a second time in an execution, and none whose runs were kept, but for what is
\* below a start node that gets its data twice or has more than two inputs.
THEOREM NodesRunOnce == Spec => []RunsOnce
<1>1. Spec => []RInv
  BY InitRInv, NextRInv, PTL DEF Spec
<1> QED BY <1>1, RInvImplies, PTL

=============================================================================
