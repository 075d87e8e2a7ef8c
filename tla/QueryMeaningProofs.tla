-------------------------- MODULE QueryMeaningProofs --------------------------
(***************************************************************************)
(* What merging constraints guarantees, for all of them, what a list of    *)
(* constraints stands for, for all lists, and what expressions mean, for   *)
(* all of them.                                                            *)
(***************************************************************************)
EXTENDS QueryMeaning, WellFoundedInduction, TLAPS

(* n titles do not exceed limit l; a negative limit is none.               *)
Within(n, l) == l = None \/ l < 0 \/ n <= l

(* A merged constraint is a constraint.                                    *)
LEMMA MergeType ==
  ASSUME NEW a \in Constraints, NEW b \in Constraints
  PROVE  Merge(a, b) \in Constraints
<1>1. MergeNs(a.ns, b.ns) \in {None} \cup SUBSET Namespaces
  BY DEF MergeNs, Constraints
<1>2. MergeLimit(a.limit, b.limit) \in {None} \cup Int
  BY NoneIsNoValue DEF MergeLimit, Constraints
<1> QED
  BY <1>1, <1>2 DEF Merge, Constraints

(* Merging filters is filtering twice: a title passes the merged filter    *)
(* (merge_constraints) exactly if it passes both.                          *)
THEOREM FiltersConjoin ==
  ASSUME NEW a \in Constraints, NEW b \in Constraints, NEW t
  PROVE  Passes(t, Merge(a, b)) <=> Passes(t, a) /\ Passes(t, b)
<1>1. Merge(a, b).ns = MergeNs(a.ns, b.ns)
  BY DEF Merge
<1>2. a.ns \in {None} \cup SUBSET Namespaces /\ b.ns \in {None} \cup SUBSET Namespaces
  BY DEF Constraints
<1>3. CASE a.ns = None \/ b.ns = None
  BY <1>1, <1>3 DEF MergeNs, Passes
<1>4. CASE a.ns # None /\ b.ns # None
  <2>1. a.ns \cap b.ns # None
    BY <1>2, <1>4, NoneIsNoValue
  <2> QED
    BY <1>1, <1>4, <2>1 DEF MergeNs, Passes
<1> QED
  BY <1>3, <1>4

(* Merging limits keeps the stricter one, whichever comes first: a number  *)
(* of titles is within the merged limit exactly if it is within both.      *)
THEOREM LimitsConjoin ==
  ASSUME NEW a \in {None} \cup Int, NEW b \in {None} \cup Int, NEW n \in Nat
  PROVE  Within(n, MergeLimit(a, b)) <=> Within(n, a) /\ Within(n, b)
  BY NoneIsNoValue DEF MergeLimit, Within

(* In one list that holds for limits that are no less than zero only: a    *)
(* negative limit that comes last removes the limit before it              *)
(* (construct_constraints_from_vec).                                       *)
THEOREM LimitsInListConjoin ==
  ASSUME NEW a \in Int, NEW b \in Int, NEW n \in Nat
  PROVE  /\ b >= 0 => (Within(n, LimitInList(a, b)) <=> Within(n, a) /\ Within(n, b))
         /\ a >= 0 /\ b < 0 => Within(n, LimitInList(a, b))
  BY NoneIsNoValue DEF LimitInList, Within

(* What two constraints of a kind give agrees.                             *)
Agree(k, v, w) == v = None \/ w = None \/ v = w \/ (k = "depth" /\ DepthsAgree(v, w))

(* The kinds that are not combined but must agree.                         *)
Agreeing == {"depth", "redir", "directlink", "resolveredir"}

LEMMA CompatibleMeansAgree ==
  ASSUME NEW a \in Constraints, NEW b \in Constraints
  PROVE  Compatible(a, b) <=> \A k \in Agreeing : Agree(k, a[k], b[k])
  BY DEF Compatible, Agree, Agreeing

(* Agreement with what was kept of two values that agree is agreement with *)
(* both.                                                                   *)
LEMMA AgreeWithFirst ==
  ASSUME NEW k, NEW u, NEW v, NEW w,
         k = "depth" => {u, v, w} \subseteq {None} \cup Int,
         Agree(k, u, v)
  PROVE  Agree(k, IF u = None THEN v ELSE u, w) <=> Agree(k, u, w) /\ Agree(k, v, w)
  BY NoneIsNoValue DEF Agree, DepthsAgree

(* Conflicts are found in whatever order nested constraints are merged: a  *)
(* constraint fits a merged one exactly if it fits both parts.  So the     *)
(* conversion, which merges from the innermost list outwards, rejects the  *)
(* same queries as a reading from outside in.                              *)
THEOREM ConflictsHaveNoOrder ==
  ASSUME NEW a \in Constraints, NEW b \in Constraints, NEW c \in Constraints,
         Compatible(a, b)
  PROVE  Compatible(Merge(a, b), c) <=> Compatible(a, c) /\ Compatible(b, c)
<1>1. \A k \in Agreeing : Merge(a, b)[k] = IF a[k] = None THEN b[k] ELSE a[k]
  BY DEF Merge, Agreeing
<1>2. \A k \in Agreeing : Agree(k, a[k], b[k])
  BY CompatibleMeansAgree
<1>3. \A k \in Agreeing :
        Agree(k, Merge(a, b)[k], c[k]) <=> Agree(k, a[k], c[k]) /\ Agree(k, b[k], c[k])
  <2>1. TAKE k \in Agreeing
  <2>2. k = "depth" => {a[k], b[k], c[k]} \subseteq {None} \cup Int
    BY DEF Constraints
  <2> QED
    BY <1>1, <1>2, <2>2, AgreeWithFirst
<1> QED
  BY <1>3, MergeType, CompatibleMeansAgree

-----------------------------------------------------------------------------
(* Induction and recursion over numbers.                                   *)

LEMMA LeastElement ==
  ASSUME NEW I \in SUBSET Nat, I # {}
  PROVE  \E m \in I : \A i \in I : m <= i
<1> DEFINE R == {p \in Nat \X Nat : p[1] < p[2]}
<1>1. OpToRel(<, Nat) = R
  BY Zenon DEF OpToRel
<1>2. IsWellFoundedOn(R, Nat)
  BY <1>1, NatLessThanWellFounded, Zenon
<1>3. \A i, j \in Nat : i < j => <<i, j>> \in R
  OBVIOUS
<1> HIDE DEF R
<1>4. PICK m \in I : \A i \in I : ~ (<<i, m>> \in R)
  BY <1>2, WFMin, Zenon
<1>5. \A i \in I : m <= i
  <2>1. ASSUME NEW i \in I PROVE m <= i
    <3>1. m \in Nat /\ i \in Nat
      OBVIOUS
    <3>2. ~ (i < m)
      BY <1>3, <1>4, <3>1
    <3> QED
      BY <3>1, <3>2
  <2> QED
    BY <2>1
<1> QED
  BY <1>4, <1>5

(* A set of numbers that has n if it has all smaller ones has them all.    *)
LEMMA Induction ==
  ASSUME NEW S, NEW N \in Nat,
         \A n \in 0 .. N : (\A m \in 0 .. n - 1 : m \in S) => n \in S
  PROVE  \A n \in 0 .. N : n \in S
<1> DEFINE I == {n \in 0 .. N : n \notin S}
<1> SUFFICES ASSUME I # {} PROVE FALSE
  OBVIOUS
<1>1. I \in SUBSET Nat
  OBVIOUS
<1>2. PICK m \in I : \A i \in I : m <= i
  BY <1>1, LeastElement
<1>3. m \in 0 .. N /\ m \notin S
  OBVIOUS
<1>4. \A k \in 0 .. m - 1 : k \in S
  BY <1>2, <1>3
<1> QED
  BY <1>3, <1>4

LEMMA InductionDown ==
  ASSUME NEW S, NEW N \in Nat,
         \A n \in 1 .. N : (\A m \in n + 1 .. N : m \in S) => n \in S
  PROVE  \A n \in 1 .. N : n \in S
<1> DEFINE T == {k \in 0 .. N : k < N => N - k \in S}
<1>1. ASSUME NEW n \in 0 .. N, \A m \in 0 .. n - 1 : m \in T
      PROVE  n \in T
  <2>1. SUFFICES ASSUME n < N PROVE N - n \in S
    OBVIOUS
  <2>2. ASSUME NEW m \in N - n + 1 .. N PROVE m \in S
    <3>1. N - m \in 0 .. n - 1 /\ N - m < N /\ N - (N - m) = m
      BY <2>1
    <3> QED
      BY <1>1, <3>1
  <2>3. N - n \in 1 .. N
    BY <2>1
  <2> QED
    BY <2>2, <2>3
<1> HIDE DEF T
<1>2. \A n \in 0 .. N : n \in T
  BY <1>1, Induction
<1>3. ASSUME NEW n \in 1 .. N PROVE n \in S
  <2>1. N - n \in 0 .. N /\ N - n < N /\ N - (N - n) = n
    OBVIOUS
  <2> QED
    BY <1>2, <2>1 DEF T
<1> QED
  BY <1>3

(* F gives a function on 1 .. N with values in V its value at each number, *)
(* which depends on its values at smaller numbers, or larger ones, only.   *)
Steps(N, V) == [(1 .. N) \X [1 .. N -> V] -> V]

Upwards(F, N, V) ==
  \A i \in 1 .. N : \A f, g \in [1 .. N -> V] :
    (\A j \in 1 .. i - 1 : f[j] = g[j]) => F[<<i, f>>] = F[<<i, g>>]

Downwards(F, N, V) ==
  \A i \in 1 .. N : \A f, g \in [1 .. N -> V] :
    (\A j \in i + 1 .. N : f[j] = g[j]) => F[<<i, f>>] = F[<<i, g>>]

Follows(f, F, N) == \A i \in 1 .. N : f[i] = F[<<i, f>>]

(* Then there is a function with these values.                             *)
LEMMA Recursion ==
  ASSUME NEW N \in Nat, NEW V, V # {}, NEW F, F \in Steps(N, V), Upwards(F, N, V)
  PROVE  \E f \in [1 .. N -> V] : Follows(f, F, N)
<1>0. /\ F \in [(1 .. N) \X [1 .. N -> V] -> V]
      /\ \A i \in 1 .. N : \A f, g \in [1 .. N -> V] :
           (\A j \in 1 .. i - 1 : f[j] = g[j]) => F[<<i, f>>] = F[<<i, g>>]
  BY DEF Steps, Upwards
<1> DEFINE S == {n \in 0 .. N : \E f \in [1 .. N -> V] :
                                     \A i \in 1 .. n : f[i] = F[<<i, f>>]}
<1>1. ASSUME NEW n \in 0 .. N, \A m \in 0 .. n - 1 : m \in S
      PROVE  n \in S
  <2>1. CASE n = 0
    <3>1. PICK v \in V : TRUE
      OBVIOUS
    <3>2. [i \in 1 .. N |-> v] \in [1 .. N -> V]
      OBVIOUS
    <3>3. \E f \in [1 .. N -> V] : \A i \in 1 .. 0 : f[i] = F[<<i, f>>]
      <4> DEFINE h == [i \in 1 .. N |-> v]
      <4> HIDE DEF h
      <4>1. h \in [1 .. N -> V] /\ 1 .. 0 = {}
        BY <3>2 DEF h
      <4> QED
        BY <4>1
    <3> QED
      BY <2>1, <3>3
  <2>2. CASE n > 0
    <3>1. n - 1 \in S
      <4>1. n - 1 \in 0 .. n - 1
        BY <2>2
      <4> QED
        BY <1>1, <4>1
    <3>2. PICK f \in [1 .. N -> V] : \A i \in 1 .. n - 1 : f[i] = F[<<i, f>>]
      BY <3>1
    <3> DEFINE g == [f EXCEPT ![n] = F[<<n, f>>]]
    <3>3. F[<<n, f>>] \in V
      BY <1>0, <2>2
    <3>4. g \in [1 .. N -> V]
      BY <3>3
    <3>5. \A j \in 1 .. n - 1 : g[j] = f[j]
      BY <2>2
    <3>6. g[n] = F[<<n, f>>]
      BY <2>2
    <3>7. ASSUME NEW i \in 1 .. n PROVE F[<<i, g>>] = F[<<i, f>>]
      <4>1. i \in 1 .. N /\ \A j \in 1 .. i - 1 : g[j] = f[j]
        BY <3>5
      <4> HIDE DEF g
      <4> QED
        BY <1>0, <3>4, <4>1
    <3> HIDE DEF g
    <3>8. ASSUME NEW i \in 1 .. n PROVE g[i] = F[<<i, g>>]
      <4>1. CASE i = n
        BY <3>6, <3>7, <4>1
      <4>2. CASE i \in 1 .. n - 1
        BY <3>2, <3>5, <3>7, <4>2
      <4> QED
        BY <4>1, <4>2
    <3>9. \E h \in [1 .. N -> V] : \A i \in 1 .. n : h[i] = F[<<i, h>>]
      BY <3>4, <3>8
    <3> QED
      BY <3>9, Zenon
  <2>3. n = 0 \/ n > 0
    OBVIOUS
  <2> QED
    BY <2>1, <2>2, <2>3, Zenon
<1>2. N \in S
  <2> HIDE DEF S
  <2>1. \A n \in 0 .. N : n \in S
    BY <1>1, Induction
  <2> QED
    BY <2>1
<1> QED
  BY <1>2 DEF Follows

LEMMA RecursionDown ==
  ASSUME NEW N \in Nat, NEW V, V # {}, NEW F, F \in Steps(N, V), Downwards(F, N, V)
  PROVE  \E f \in [1 .. N -> V] : Follows(f, F, N)
<1>0. /\ F \in [(1 .. N) \X [1 .. N -> V] -> V]
      /\ \A i \in 1 .. N : \A f, g \in [1 .. N -> V] :
           (\A j \in i + 1 .. N : f[j] = g[j]) => F[<<i, f>>] = F[<<i, g>>]
  BY DEF Steps, Downwards
<1> DEFINE Turn(f) == [i \in 1 .. N |-> f[N + 1 - i]]
           G == [p \in (1 .. N) \X [1 .. N -> V] |-> F[<<N + 1 - p[1], Turn(p[2])>>]]
<1>1. \A f \in [1 .. N -> V] : Turn(f) \in [1 .. N -> V]
  OBVIOUS
<1>2. G \in Steps(N, V)
  <2>1. ASSUME NEW p \in (1 .. N) \X [1 .. N -> V]
        PROVE  F[<<N + 1 - p[1], Turn(p[2])>>] \in V
    <3>1. N + 1 - p[1] \in 1 .. N /\ Turn(p[2]) \in [1 .. N -> V]
      OBVIOUS
    <3> HIDE DEF Turn
    <3> QED
      BY <1>0, <3>1
  <2> HIDE DEF Turn
  <2> QED
    BY <2>1 DEF Steps
<1>3. Upwards(G, N, V)
  <2>0. SUFFICES ASSUME NEW i \in 1 .. N, NEW f \in [1 .. N -> V], NEW g \in [1 .. N -> V],
                      \A j \in 1 .. i - 1 : f[j] = g[j]
               PROVE  G[<<i, f>>] = G[<<i, g>>]
    BY DEF Upwards
  <2>1. ASSUME NEW j \in N + 1 - i + 1 .. N PROVE Turn(f)[j] = Turn(g)[j]
    <3>1. N + 1 - j \in 1 .. i - 1 /\ j \in 1 .. N
      OBVIOUS
    <3> QED
      BY <2>0, <3>1
  <2>2. N + 1 - i \in 1 .. N
    OBVIOUS
  <2>3. F[<<N + 1 - i, Turn(f)>>] = F[<<N + 1 - i, Turn(g)>>]
    BY <1>0, <1>1, <2>1, <2>2
  <2> QED
    BY <2>3
<1>4. PICK g \in [1 .. N -> V] : Follows(g, G, N)
  <2> HIDE DEF G
  <2> QED
    BY <1>2, <1>3, Recursion, Zenon
<1>5. ASSUME NEW i \in 1 .. N
      PROVE  Turn(g)[i] = F[<<i, Turn(g)>>]
  <2>1. N + 1 - i \in 1 .. N /\ N + 1 - (N + 1 - i) = i
    OBVIOUS
  <2>2. G[<<N + 1 - i, g>>] = F[<<i, Turn(g)>>]
    BY <2>1
  <2>3. g[N + 1 - i] = G[<<N + 1 - i, g>>]
    BY <1>4, <2>1 DEF Follows
  <2> QED
    BY <2>2, <2>3
<1> HIDE DEF Turn
<1>6. Follows(Turn(g), F, N)
  BY <1>5 DEF Follows
<1> QED
  BY <1>1, <1>6

-----------------------------------------------------------------------------
(* Lists of constraints.                                                   *)

(* A list with one more element.                                           *)
Added(a, c) == [Merge(a, Only(c)) EXCEPT !.limit =
                  IF c.kind = "limit" THEN LimitInList(a.limit, c.value) ELSE a.limit]

LEMMA AddedType ==
  ASSUME NEW a \in Constraints, NEW c \in Elements
  PROVE  Added(a, c) \in Constraints
<1>1. Only(c) \in Constraints
  BY DEF Only, NoConstraint, Elements, Constraints
<1>2. Merge(a, Only(c)) \in Constraints
  BY <1>1, MergeType
<1>3. c.kind = "limit" => LimitInList(a.limit, c.value) \in {None} \cup Int
  BY DEF LimitInList, Elements, Constraints
<1> QED
  BY <1>2, <1>3 DEF Added, Constraints

LEMMA NoConstraintType == NoConstraint \in Constraints
  BY DEF NoConstraint, Constraints

(* The constraints of the prefixes of a list.                              *)
LEMMA Prefixes ==
  ASSUME NEW list \in Seq(Elements)
  PROVE  \E upto \in [0 .. Len(list) -> Constraints] :
           /\ upto[0] = NoConstraint
           /\ \A n \in 1 .. Len(list) : upto[n] = Added(upto[n - 1], list[n])
           /\ FromList(list) = upto[Len(list)]
<1> DEFINE N == Len(list)
           Before(f, i) == IF i = 1 THEN NoConstraint ELSE f[i - 1]
           F == [p \in (1 .. N) \X [1 .. N -> Constraints] |->
                   Added(Before(p[2], p[1]), list[p[1]])]
           D(f) == [n \in 0 .. N |-> IF n = 0 THEN NoConstraint ELSE Added(f[n - 1], list[n])]
<1>1. N \in Nat /\ \A i \in 1 .. N : list[i] \in Elements
  OBVIOUS
<1>2. \A i \in 1 .. N : \A f \in [1 .. N -> Constraints] : Before(f, i) \in Constraints
  BY NoConstraintType
<1>3. F \in Steps(N, Constraints)
  BY <1>1, <1>2, AddedType DEF Steps
<1>4. Upwards(F, N, Constraints)
  BY <1>1 DEF Upwards
<1>5. PICK g \in [1 .. N -> Constraints] : Follows(g, F, N)
  <2>1. Constraints # {}
    BY NoConstraintType
  <2> HIDE DEF F, N
  <2> QED
    BY <1>1, <1>3, <1>4, <2>1, Recursion, Zenon
<1> DEFINE u == [n \in 0 .. N |-> IF n = 0 THEN NoConstraint ELSE g[n]]
<1>6. u \in [0 .. N -> Constraints]
  BY <1>1, NoConstraintType
<1>7. \A n \in 1 .. N : u[n] = Added(u[n - 1], list[n])
  <2>1. ASSUME NEW n \in 1 .. N PROVE u[n] = Added(u[n - 1], list[n])
    <3>1. g[n] = Added(Before(g, n), list[n])
      BY <1>5 DEF Follows
    <3>2. u[n] = g[n] /\ u[n - 1] = Before(g, n)
      BY <1>1
    <3> HIDE DEF u, F, Before
    <3> QED
      BY <3>1, <3>2
  <2> QED
    BY <2>1
<1>8. u = D(u)
  BY <1>1, <1>6, <1>7
<1>9. \E f : f = D(f)
  BY <1>8
<1> DEFINE f == CHOOSE h : h = D(h)
<1>10. f = D(f)
  BY <1>9
<1>11. FromList(list) = f[N]
  BY DEF FromList, Added
<1>12. f[0] = NoConstraint /\ \A n \in 1 .. N : f[n] = Added(f[n - 1], list[n])
  <2> HIDE DEF f
  <2> QED
    BY <1>1, <1>10
<1>13. \A n \in 0 .. N : f[n] = u[n]
  <2> DEFINE S == {n \in 0 .. N : f[n] = u[n]}
  <2> HIDE DEF f, u
  <2>1. u[0] = NoConstraint
    BY <1>1 DEF u
  <2>2. ASSUME NEW n \in 0 .. N, \A m \in 0 .. n - 1 : m \in S
        PROVE  n \in S
    <3>1. CASE n = 0
      BY <1>12, <2>1, <3>1
    <3>2. CASE n > 0
      <4>1. n - 1 \in S /\ n \in 1 .. N
        BY <1>1, <2>2, <3>2
      <4> QED
        BY <1>7, <1>12, <4>1
    <3> QED
      BY <1>1, <3>1, <3>2
  <2>3. \A n \in 0 .. N : n \in S
    BY <1>1, <2>2, Induction
  <2> QED
    BY <2>3
<1>14. u[0] = NoConstraint /\ f[N] = u[N]
  BY <1>1, <1>13
<1> HIDE DEF u, f, F, D, Before
<1> QED
  BY <1>6, <1>7, <1>11, <1>14

LEMMA FromListType ==
  ASSUME NEW list \in Seq(Elements)
  PROVE  FromList(list) \in Constraints
  BY Prefixes

-----------------------------------------------------------------------------
(* Expressions.                                                            *)

LEMMA NodesTyped ==
  ASSUME NEW e, IsExpression(e), NEW j \in DOMAIN e
  PROVE  /\ e[j].kind \in {"page", "unary", "binary", "constrained"}
         /\ e[j].kind = "page" => e[j].titles \in SUBSET Titles /\ e[j].args = <<>>
         /\ e[j].kind = "unary" => e[j].op \in Unaries
         /\ e[j].kind = "binary" => e[j].op \in Binaries
         /\ e[j].kind = "constrained" => e[j].list \in Seq(Elements)
         /\ e[j].kind \in {"unary", "constrained"} => j - 1 \in DOMAIN e /\ e[j].args = <<j - 1>>
         /\ e[j].kind = "binary" =>
              \E i \in DOMAIN e : i < j - 1 /\ j - 1 \in DOMAIN e /\ e[j].args = <<i, j - 1>>
<1>1. e \in Seq(Nodes) /\ DOMAIN e = 1 .. Len(e) /\ Len(e) \in Nat
  BY DEF IsExpression
<1>2. e[j] \in Nodes
  BY <1>1
<1>3. e[j].kind \in {"unary", "constrained"} => j - 1 \in DOMAIN e /\ e[j].args = <<j - 1>>
  BY <1>1 DEF IsExpression
<1>4. ASSUME e[j].kind = "binary"
      PROVE  \E i \in DOMAIN e : i < j - 1 /\ j - 1 \in DOMAIN e /\ e[j].args = <<i, j - 1>>
  <2>1. PICK i \in 1 .. j - 2 : e[j].args = <<i, j - 1>>
    BY <1>4 DEF IsExpression
  <2>2. i \in DOMAIN e /\ i < j - 1 /\ j - 1 \in DOMAIN e
    BY <1>1
  <2> QED
    BY <2>1, <2>2
<1>5. /\ e[j].kind \in {"page", "unary", "binary", "constrained"}
      /\ e[j].kind = "page" => e[j].titles \in SUBSET Titles /\ e[j].args = <<>>
      /\ e[j].kind = "unary" => e[j].op \in Unaries
      /\ e[j].kind = "binary" => e[j].op \in Binaries
      /\ e[j].kind = "constrained" => e[j].list \in Seq(Elements)
  BY <1>2 DEF Nodes
<1> QED
  BY <1>3, <1>4, <1>5

LEMMA Pairs ==
  ASSUME NEW S, NEW a \in S, NEW b \in S
  PROVE  /\ <<a>> \in Seq(S) /\ Len(<<a>>) = 1 /\ DOMAIN <<a>> = {1} /\ <<a>>[1] = a
         /\ <<a, b>> \in Seq(S) /\ Len(<<a, b>>) = 2 /\ DOMAIN <<a, b>> = {1, 2}
         /\ <<a, b>>[1] = a /\ <<a, b>>[2] = b
  OBVIOUS

(* Operands come before what they are operands of, which are one.          *)
LEMMA OperandsOfNodes ==
  ASSUME NEW e, IsExpression(e), NEW j \in DOMAIN e
  PROVE  /\ e[j].args \in Seq(Nat)
         /\ e[j].kind = "page" => Len(e[j].args) = 0
         /\ e[j].kind = "binary" => Len(e[j].args) = 2
         /\ e[j].kind \in {"unary", "constrained"} => Len(e[j].args) = 1
         /\ \A k \in DOMAIN e[j].args : e[j].args[k] \in DOMAIN e /\ e[j].args[k] < j
         /\ \A k, l \in DOMAIN e[j].args : e[j].args[k] = e[j].args[l] => k = l
<1>1. DOMAIN e = 1 .. Len(e) /\ Len(e) \in Nat
  BY DEF IsExpression
<1>2. CASE e[j].kind = "page"
  <2>1. <<>> \in Seq(Nat) /\ Len(<<>>) = 0 /\ DOMAIN <<>> = {}
    OBVIOUS
  <2>2. e[j].args = <<>>
    BY <1>2, NodesTyped
  <2>3. e[j].args \in Seq(Nat) /\ Len(e[j].args) = 0 /\ DOMAIN e[j].args = {}
    BY <2>1, <2>2
  <2> QED
    BY <1>2, <2>3
<1>3. CASE e[j].kind \in {"unary", "constrained"}
  <2>1. j - 1 \in DOMAIN e /\ e[j].args = <<j - 1>> /\ j - 1 < j /\ j - 1 \in Nat
    BY <1>1, <1>3, NodesTyped
  <2>2. /\ e[j].args \in Seq(Nat) /\ Len(e[j].args) = 1 /\ DOMAIN e[j].args = {1}
        /\ e[j].args[1] = j - 1
    BY <2>1, Pairs
  <2> QED
    BY <1>3, <2>1, <2>2
<1>4. CASE e[j].kind = "binary"
  <2>1. PICK i \in DOMAIN e : i < j - 1 /\ j - 1 \in DOMAIN e /\ e[j].args = <<i, j - 1>>
    BY <1>4, NodesTyped
  <2>2. i \in Nat /\ j - 1 \in Nat /\ i < j /\ j - 1 < j /\ i # j - 1
    BY <1>1, <2>1
  <2>3. /\ e[j].args \in Seq(Nat) /\ Len(e[j].args) = 2 /\ DOMAIN e[j].args = {1, 2}
        /\ e[j].args[1] = i /\ e[j].args[2] = j - 1
    BY <2>1, <2>2, Pairs
  <2> QED
    BY <1>4, <2>1, <2>2, <2>3
<1> QED
  BY <1>2, <1>3, <1>4, NodesTyped

LEMMA OneParent ==
  ASSUME NEW e, IsExpression(e), NEW i, NEW j \in DOMAIN e, NEW k \in DOMAIN e,
         OperandOf(e, i, j), OperandOf(e, i, k)
  PROVE  j = k
<1>1. i \in DOMAIN e
  BY OperandsOfNodes DEF OperandOf
<1> QED
  BY <1>1 DEF IsExpression

-----------------------------------------------------------------------------
(* Which lists of constraints apply to a node.                             *)

(* The lists that apply to the operands of node j, over being those that   *)
(* apply to j.                                                             *)
Inherited(e, over, j) ==
  IF Asks(e[j]) THEN {} ELSE over[j] \cup (IF e[j].kind = "constrained" THEN {j} ELSE {})

LEMMA ApplyingIs ==
  ASSUME NEW e, IsExpression(e)
  PROVE  /\ Applying(e)[Len(e)] = {}
         /\ \A i, j \in DOMAIN e :
              OperandOf(e, i, j) => Applying(e)[i] = Inherited(e, Applying(e), j)
         /\ \A i \in DOMAIN e : \A j \in Applying(e)[i] :
              j \in DOMAIN e /\ i < j /\ e[j].kind = "constrained"
<1> DEFINE N == Len(e)
           V == SUBSET (1 .. N)
           Parent(i) == CHOOSE p \in DOMAIN e : OperandOf(e, i, p)
           Over(f, i) == IF i = Len(e) THEN {}
                         ELSE IF Asks(e[Parent(i)]) THEN {}
                              ELSE f[Parent(i)] \cup
                                     (IF e[Parent(i)].kind = "constrained" THEN {Parent(i)} ELSE {})
           F == [p \in (1 .. N) \X [1 .. N -> V] |-> Over(p[2], p[1])]
           D(f) == [i \in DOMAIN e |-> Over(f, i)]
<1>1. N \in Nat /\ DOMAIN e = 1 .. N /\ N \in 1 .. N
  BY DEF IsExpression
<1>2. \A i, j \in DOMAIN e : OperandOf(e, i, j) => i < j
  BY OperandsOfNodes DEF OperandOf
<1>3. ASSUME NEW i \in DOMAIN e, i # N
      PROVE  Parent(i) \in DOMAIN e /\ OperandOf(e, i, Parent(i)) /\ i < Parent(i)
  <2>1. \E p \in DOMAIN e : OperandOf(e, i, p)
    BY <1>3 DEF IsExpression
  <2>2. Parent(i) \in DOMAIN e /\ OperandOf(e, i, Parent(i))
    BY <2>1
  <2> QED
    BY <1>2, <2>2
<1> HIDE DEF Parent
<1>4. F \in Steps(N, V)
  <2>1. ASSUME NEW i \in 1 .. N, NEW f \in [1 .. N -> V] PROVE Over(f, i) \in V
    BY <1>1, <1>3
  <2> HIDE DEF Over, V
  <2> QED
    BY <2>1 DEF Steps
<1>5. Downwards(F, N, V)
  <2>1. ASSUME NEW i \in 1 .. N, NEW f \in [1 .. N -> V], NEW g \in [1 .. N -> V],
               \A j \in i + 1 .. N : f[j] = g[j]
        PROVE  F[<<i, f>>] = F[<<i, g>>]
    <3>1. F[<<i, f>>] = Over(f, i) /\ F[<<i, g>>] = Over(g, i)
      OBVIOUS
    <3>2. CASE i = N
      BY <3>1, <3>2
    <3>3. CASE i # N
      <4>0. i \in DOMAIN e
        BY <1>1
      <4>1. Parent(i) \in DOMAIN e /\ i < Parent(i)
        BY <1>3, <3>3, <4>0, Zenon
      <4>2. Parent(i) \in i + 1 .. N
        BY <1>1, <4>1
      <4>3. f[Parent(i)] = g[Parent(i)]
        BY <2>1, <4>2
      <4> QED
        BY <3>1, <4>3
    <3> QED
      BY <3>2, <3>3
  <2> HIDE DEF F, V
  <2> QED
    BY <2>1 DEF Downwards
<1>6. PICK g \in [1 .. N -> V] : Follows(g, F, N)
  <2> HIDE DEF F
  <2> QED
    BY <1>1, <1>4, <1>5, RecursionDown, Zenon
<1>7. g = D(g)
  BY <1>1, <1>6 DEF Follows
<1>8. \E f : f = D(f)
  BY <1>7
<1> DEFINE f == CHOOSE h : h = D(h)
<1>9. f = D(f)
  BY <1>8
<1>10. f = Applying(e)
  BY Zenon DEF Applying, Parent
<1> HIDE DEF f
<1>11. \A i \in DOMAIN e : f[i] = Over(f, i)
  BY <1>9
<1>12. \A i, j \in DOMAIN e : OperandOf(e, i, j) => f[i] = Inherited(e, f, j)
  <2>1. SUFFICES ASSUME NEW i \in DOMAIN e, NEW j \in DOMAIN e, OperandOf(e, i, j)
                 PROVE  f[i] = Inherited(e, f, j)
    OBVIOUS
  <2>2. i # N
    BY <1>1, <1>2, <2>1
  <2>3. Parent(i) = j
    BY <1>3, <2>1, <2>2, OneParent
  <2> QED
    BY <1>11, <2>1, <2>2, <2>3 DEF Inherited
<1> DEFINE S == {i \in 1 .. N : \A j \in f[i] :
                                   j \in DOMAIN e /\ i < j /\ e[j].kind = "constrained"}
<1>13. ASSUME NEW n \in 1 .. N, \A m \in n + 1 .. N : m \in S
       PROVE  n \in S
  <2>1. CASE n = N
    BY <1>1, <1>11, <2>1
  <2>2. CASE n # N
    <3>0. n \in DOMAIN e
      BY <1>1
    <3>1. Parent(n) \in DOMAIN e /\ n < Parent(n)
      BY <1>3, <2>2, <3>0, Zenon
    <3>2. Parent(n) \in n + 1 .. N
      BY <1>1, <3>1
    <3>3. Parent(n) \in S
      BY <1>13, <3>2
    <3>4. \A j \in f[n] : j \in f[Parent(n)] \/ (j = Parent(n) /\ e[j].kind = "constrained")
      BY <1>1, <1>11, <2>2
    <3> QED
      BY <1>1, <3>1, <3>3, <3>4
  <2> QED
    BY <2>1, <2>2
<1>14. \A n \in 1 .. N : n \in S
  <2> HIDE DEF S
  <2> QED
    BY <1>1, <1>13, InductionDown
<1>15. f[Len(e)] = {}
  BY <1>1, <1>11
<1> QED
  BY <1>1, <1>10, <1>12, <1>14, <1>15

(* The titles in the namespaces of con.                                    *)
Keeps(con) == {t \in Titles : Passes(t, con)}

(* For each node j, the titles that the list at j keeps of an operand of   *)
(* node p, kept being what it keeps of the node itself.                    *)
Behind(e, kept, p) ==
  [j \in DOMAIN e |-> IF e[p].kind = "constrained" /\ j = p THEN Keeps(ConstraintAt(e, j))
                      ELSE IF e[p].kind = "unary"
                           THEN {t \in Titles : TalkPage(t) \in kept[p][j]}
                      ELSE kept[p][j]]

(* For nodes i and j, the titles that the list at j, if it applies to i,   *)
(* keeps of the answer of i.                                               *)
KeptBy(e) ==
  LET kept[i \in DOMAIN e] ==
        IF i = Len(e) THEN [j \in DOMAIN e |-> Titles]
        ELSE Behind(e, kept, CHOOSE p \in DOMAIN e : OperandOf(e, i, p))
  IN kept

LEMMA KeptByIs ==
  ASSUME NEW e, IsExpression(e), NEW i \in DOMAIN e, NEW p \in DOMAIN e, OperandOf(e, i, p)
  PROVE  KeptBy(e)[i] = Behind(e, KeptBy(e), p)
<1> DEFINE N == Len(e)
           V == [DOMAIN e -> SUBSET Titles]
           Parent(k) == CHOOSE q \in DOMAIN e : OperandOf(e, k, q)
           Over(f, k) == IF k = Len(e) THEN [j \in DOMAIN e |-> Titles]
                         ELSE Behind(e, f, Parent(k))
           F == [q \in (1 .. N) \X [1 .. N -> V] |-> Over(q[2], q[1])]
           D(f) == [k \in DOMAIN e |-> Over(f, k)]
<1>1. N \in Nat /\ DOMAIN e = 1 .. N /\ N \in 1 .. N
  BY DEF IsExpression
<1>2. \A k, j \in DOMAIN e : OperandOf(e, k, j) => k < j
  BY OperandsOfNodes DEF OperandOf
<1>3. ASSUME NEW k \in DOMAIN e, k # N
      PROVE  Parent(k) \in DOMAIN e /\ OperandOf(e, k, Parent(k)) /\ k < Parent(k)
  <2>1. \E q \in DOMAIN e : OperandOf(e, k, q)
    BY <1>3 DEF IsExpression
  <2>2. Parent(k) \in DOMAIN e /\ OperandOf(e, k, Parent(k))
    BY <2>1
  <2> QED
    BY <1>2, <2>2
<1> HIDE DEF Parent
<1>4. ASSUME NEW f \in [1 .. N -> V], NEW q \in DOMAIN e PROVE Behind(e, f, q) \in V
  <2>1. f[q] \in V
    BY <1>1, <1>4
  <2>2. \A j \in DOMAIN e : f[q][j] \in SUBSET Titles
    BY <2>1
  <2>3. \A j : Keeps(ConstraintAt(e, j)) \in SUBSET Titles
    BY DEF Keeps
  <2>4. \A j \in DOMAIN e : {t \in Titles : TalkPage(t) \in f[q][j]} \in SUBSET Titles
    OBVIOUS
  <2> QED
    BY <2>2, <2>3, <2>4 DEF Behind
<1>5. F \in Steps(N, V)
  <2>1. ASSUME NEW k \in 1 .. N, NEW f \in [1 .. N -> V] PROVE Over(f, k) \in V
    <3>1. [j \in DOMAIN e |-> Titles] \in V
      OBVIOUS
    <3>2. k \in DOMAIN e
      BY <1>1
    <3>3. k # N => Behind(e, f, Parent(k)) \in V
      <4> HIDE DEF V
      <4> QED
        BY <1>3, <1>4, <3>2, Zenon
    <3> HIDE DEF V
    <3> QED
      BY <3>1, <3>3, Zenon
  <2> HIDE DEF Over, V
  <2> QED
    BY <2>1 DEF Steps
<1>6. Downwards(F, N, V)
  <2>1. ASSUME NEW k \in 1 .. N, NEW f \in [1 .. N -> V], NEW g \in [1 .. N -> V],
               \A j \in k + 1 .. N : f[j] = g[j]
        PROVE  F[<<k, f>>] = F[<<k, g>>]
    <3>1. F[<<k, f>>] = Over(f, k) /\ F[<<k, g>>] = Over(g, k)
      OBVIOUS
    <3>2. CASE k = N
      BY <3>1, <3>2
    <3>3. CASE k # N
      <4>0. k \in DOMAIN e
        BY <1>1
      <4>1. Parent(k) \in DOMAIN e /\ k < Parent(k)
        BY <1>3, <3>3, <4>0, Zenon
      <4>2. Parent(k) \in k + 1 .. N
        BY <1>1, <4>1
      <4>3. f[Parent(k)] = g[Parent(k)]
        BY <2>1, <4>2
      <4>4. Behind(e, f, Parent(k)) = Behind(e, g, Parent(k))
        BY <4>3, Zenon DEF Behind
      <4> QED
        BY <3>1, <3>3, <4>4
    <3> QED
      BY <3>2, <3>3
  <2> HIDE DEF F, V
  <2> QED
    BY <2>1 DEF Downwards
<1>7. PICK g \in [1 .. N -> V] : Follows(g, F, N)
  <2>1. V # {}
    <3>1. [j \in DOMAIN e |-> Titles] \in V
      OBVIOUS
    <3> QED
      BY <3>1
  <2> HIDE DEF F, V
  <2> QED
    BY <1>1, <1>5, <1>6, <2>1, RecursionDown, Zenon
<1>8. g = D(g)
  <2>1. \A k \in 1 .. N : g[k] = Over(g, k)
    <3> HIDE DEF Over, V
    <3> QED
      BY <1>7 DEF Follows
  <2> HIDE DEF Over, V
  <2> QED
    BY <1>1, <2>1
<1>9. \E f : f = D(f)
  BY <1>8, Zenon
<1> DEFINE f == CHOOSE h : h = D(h)
<1>10. f = D(f)
  BY <1>9, Zenon
<1>11. f = KeptBy(e)
  BY Zenon DEF KeptBy, Parent
<1> HIDE DEF f
<1>12. \A k \in DOMAIN e : f[k] = Over(f, k)
  <2> HIDE DEF Over
  <2> QED
    BY <1>10
<1>13. i # N
  BY <1>1, <1>2
<1>14. Parent(i) = p
  BY <1>3, <1>13, OneParent
<1> QED
  BY <1>11, <1>12, <1>13, <1>14, Zenon

(* What the lists at the nodes js keep of node n.                          *)
Kept(e, n, js) == {t \in Titles : \A j \in js : t \in KeptBy(e)[n][j]}

(* What all lists that apply to node n keep of it.                         *)
Remaining(e, n) == Kept(e, n, Applying(e)[n])

(* What remains of an operand of node p.                                   *)
LEMMA RemainingOfOperands ==
  ASSUME NEW e, IsExpression(e), NEW c \in DOMAIN e, NEW p \in DOMAIN e, OperandOf(e, c, p)
  PROVE  /\ Asks(e[p]) => Remaining(e, c) = Titles
         /\ e[p].kind = "unary" /\ ~Asks(e[p]) =>
              Remaining(e, c) = {t \in Titles : TalkPage(t) \in Remaining(e, p)}
         /\ e[p].kind = "binary" => Remaining(e, c) = Remaining(e, p)
         /\ e[p].kind = "constrained" =>
              Remaining(e, c) = Keeps(ConstraintAt(e, p)) \cap Remaining(e, p)
<1> DEFINE app == Applying(e)
           kept == KeptBy(e)
<1>1. app[c] = Inherited(e, app, p) /\ kept[c] = Behind(e, kept, p)
  BY ApplyingIs, KeptByIs
<1>2. \A j \in app[p] : j \in DOMAIN e /\ j # p
  <2>1. DOMAIN e \subseteq Nat
    BY DEF IsExpression
  <2> QED
    BY <2>1, ApplyingIs
<1>3. \A n : Remaining(e, n) = {t \in Titles : \A j \in app[n] : t \in kept[n][j]}
  BY DEF Remaining, Kept
<1> HIDE DEF app, kept
<1>4. ASSUME Asks(e[p]) PROVE Remaining(e, c) = Titles
  <2>1. app[c] = {}
    BY <1>1, <1>4 DEF Inherited
  <2> QED
    BY <1>3, <2>1
<1>5. ASSUME e[p].kind = "unary", ~Asks(e[p])
      PROVE  Remaining(e, c) = {t \in Titles : TalkPage(t) \in Remaining(e, p)}
  <2>1. app[c] = app[p]
    BY <1>1, <1>5 DEF Inherited
  <2>2. \A j \in app[p] : kept[c][j] = {t \in Titles : TalkPage(t) \in kept[p][j]}
    BY <1>1, <1>2, <1>5 DEF Behind
  <2>3. \A t \in Titles : TalkPage(t) \in Titles
    BY EverythingHasTalk
  <2> QED
    BY <1>3, <2>1, <2>2, <2>3
<1>6. ASSUME e[p].kind = "binary" PROVE Remaining(e, c) = Remaining(e, p)
  <2>1. app[c] = app[p]
    BY <1>1, <1>6 DEF Inherited, Asks
  <2>2. \A j \in app[p] : kept[c][j] = kept[p][j]
    BY <1>1, <1>2, <1>6 DEF Behind
  <2> QED
    BY <1>3, <2>1, <2>2
<1>7. ASSUME e[p].kind = "constrained"
      PROVE  Remaining(e, c) = Keeps(ConstraintAt(e, p)) \cap Remaining(e, p)
  <2>1. app[c] = app[p] \cup {p}
    BY <1>1, <1>7 DEF Inherited, Asks
  <2>2. \A j \in app[p] : kept[c][j] = kept[p][j]
    BY <1>1, <1>2, <1>7 DEF Behind
  <2>3. kept[c][p] = Keeps(ConstraintAt(e, p))
    BY <1>1, <1>7 DEF Behind
  <2>4. Keeps(ConstraintAt(e, p)) \subseteq Titles
    BY DEF Keeps
  <2> QED
    BY <1>3, <2>1, <2>2, <2>3, <2>4
<1> QED
  BY <1>4, <1>5, <1>6, <1>7

-----------------------------------------------------------------------------
(* Answers.                                                                *)

(* The answers of node i, given those of its operands.                     *)
AnswersOf(e, of, i) ==
  LET node == e[i]
      Of(k) == of[node.args[k]]
  IN CASE node.kind = "page" -> {node.titles}
       [] node.kind = "unary" /\ ~Asks(node) ->
            {{TalkPage(t) : t \in a} : a \in Of(1)}
       [] Asks(node) ->
            {Listed(node.op, a, Agreed(e, Applying(e)[i])) :
               a \in {b \in Of(1) : MayAsk(node.op, b)}}
       [] node.kind = "binary" ->
            {Combined(node.op, p[1], p[2]) : p \in Of(1) \X Of(2)}
       [] node.kind = "constrained" ->
            {{t \in a : Passes(t, ConstraintAt(e, i))} : a \in Of(1)}

Pairwise(op, as, bs) == {Combined(op, p[1], p[2]) : p \in as \X bs}

LEMMA PairwiseIs ==
  ASSUME NEW op, NEW as, NEW bs
  PROVE  /\ \A c \in Pairwise(op, as, bs) : \E a \in as, b \in bs : c = Combined(op, a, b)
         /\ Pairwise(op, as, bs) # {} => as # {} /\ bs # {}
         /\ \A a, b : as = {a} /\ bs = {b} => Pairwise(op, as, bs) = {Combined(op, a, b)}
<1>1. \A c : c \in Pairwise(op, as, bs) <=> \E a \in as, b \in bs : c = Combined(op, a, b)
  <2>1. ASSUME NEW c \in Pairwise(op, as, bs) PROVE \E a \in as, b \in bs : c = Combined(op, a, b)
    <3>1. PICK p \in as \X bs : c = Combined(op, p[1], p[2])
      BY <2>1 DEF Pairwise
    <3>2. p[1] \in as /\ p[2] \in bs
      OBVIOUS
    <3> QED
      BY <3>1, <3>2
  <2>2. ASSUME NEW a \in as, NEW b \in bs PROVE Combined(op, a, b) \in Pairwise(op, as, bs)
    <3>1. <<a, b>> \in as \X bs /\ <<a, b>>[1] = a /\ <<a, b>>[2] = b
      OBVIOUS
    <3> QED
      BY <3>1, Zenon DEF Pairwise
  <2> QED
    BY <2>1, <2>2
<1>2. ASSUME NEW a, NEW b, as = {a}, bs = {b} PROVE Pairwise(op, as, bs) = {Combined(op, a, b)}
  <2>1. \A c : c \in Pairwise(op, as, bs) <=> c = Combined(op, a, b)
    BY <1>1, <1>2
  <2> QED
    BY <2>1
<1> QED
  BY <1>1, <1>2

(* The cases one by one.                                                   *)
LEMMA AnswersOfKinds ==
  ASSUME NEW e, IsExpression(e), NEW i \in DOMAIN e, NEW of
  PROVE  /\ e[i].kind = "page" => AnswersOf(e, of, i) = {e[i].titles}
         /\ e[i].kind = "unary" /\ ~Asks(e[i]) =>
              AnswersOf(e, of, i) = {{TalkPage(t) : t \in a} : a \in of[i - 1]}
         /\ Asks(e[i]) =>
              AnswersOf(e, of, i) = {Listed(e[i].op, a, Agreed(e, Applying(e)[i])) :
                                       a \in {b \in of[i - 1] : MayAsk(e[i].op, b)}}
         /\ e[i].kind = "binary" =>
              AnswersOf(e, of, i) = Pairwise(e[i].op, of[e[i].args[1]], of[e[i].args[2]])
         /\ e[i].kind = "constrained" =>
              AnswersOf(e, of, i) = {{t \in a : Passes(t, ConstraintAt(e, i))} : a \in of[i - 1]}
<1> DEFINE Of(k) == of[e[i].args[k]]
           page == {e[i].titles}
           toggle == {{TalkPage(t) : t \in a} : a \in Of(1)}
           request == {Listed(e[i].op, a, Agreed(e, Applying(e)[i])) :
                         a \in {b \in Of(1) : MayAsk(e[i].op, b)}}
           binary == Pairwise(e[i].op, Of(1), Of(2))
           filter == {{t \in a : Passes(t, ConstraintAt(e, i))} : a \in Of(1)}
<1>1. AnswersOf(e, of, i) = CASE e[i].kind = "page" -> page
                              [] e[i].kind = "unary" /\ ~Asks(e[i]) -> toggle
                              [] Asks(e[i]) -> request
                              [] e[i].kind = "binary" -> binary
                              [] e[i].kind = "constrained" -> filter
  BY DEF AnswersOf, Pairwise
<1>2. e[i].kind \in {"unary", "constrained"} => e[i].args[1] = i - 1
  <2>1. SUFFICES ASSUME e[i].kind \in {"unary", "constrained"} PROVE e[i].args[1] = i - 1
    OBVIOUS
  <2>2. e[i].args = <<i - 1>>
    BY <2>1, NodesTyped
  <2> QED
    BY <2>2
<1>3. Asks(e[i]) => e[i].kind = "unary"
  BY DEF Asks
<1> HIDE DEF page, toggle, request, binary, filter
<1>4. e[i].kind = "page" => AnswersOf(e, of, i) = page
  BY <1>1, <1>3
<1>5. e[i].kind = "unary" /\ ~Asks(e[i]) => AnswersOf(e, of, i) = toggle
  BY <1>1, <1>3
<1>6. Asks(e[i]) => AnswersOf(e, of, i) = request
  BY <1>1, <1>3
<1>7. e[i].kind = "binary" => AnswersOf(e, of, i) = binary
  BY <1>1, <1>3
<1>8. e[i].kind = "constrained" => AnswersOf(e, of, i) = filter
  BY <1>1, <1>3
<1> QED
  BY <1>2, <1>3, <1>4, <1>5, <1>6, <1>7, <1>8 DEF page, toggle, request, binary, filter

LEMMA CombinedType ==
  ASSUME NEW op \in Binaries, NEW a \in SUBSET Titles, NEW b \in SUBSET Titles
  PROVE  Combined(op, a, b) \in SUBSET Titles
  BY DEF Combined, Binaries

LEMMA ListedType == ASSUME NEW op, NEW a, NEW con PROVE Listed(op, a, con) \in SUBSET Titles
  BY DEF Listed

(* The answers of a node depend on those of its operands only.             *)
LEMMA AnswersOfType ==
  ASSUME NEW e, IsExpression(e), NEW i \in DOMAIN e, NEW of,
         \A j \in 1 .. i - 1 : of[j] \in SUBSET SUBSET Titles
  PROVE  AnswersOf(e, of, i) \in SUBSET SUBSET Titles
<1>0. DOMAIN e = 1 .. Len(e) /\ Len(e) \in Nat
  BY DEF IsExpression
<1>1. e[i].kind \in {"unary", "constrained"} => of[i - 1] \in SUBSET SUBSET Titles
  <2>1. e[i].kind \in {"unary", "constrained"} => i - 1 \in DOMAIN e
    BY NodesTyped
  <2> QED
    BY <1>0, <2>1
<1>2. CASE e[i].kind = "page"
  <2>1. e[i].titles \in SUBSET Titles
    BY <1>2, NodesTyped
  <2>2. AnswersOf(e, of, i) = {e[i].titles}
    BY <1>2, AnswersOfKinds
  <2> QED
    BY <2>1, <2>2
<1>3. CASE e[i].kind = "unary" /\ ~Asks(e[i])
  <2>1. AnswersOf(e, of, i) = {{TalkPage(t) : t \in a} : a \in of[i - 1]}
    BY <1>3, AnswersOfKinds
  <2>2. \A a \in SUBSET Titles : {TalkPage(t) : t \in a} \in SUBSET Titles
    BY EverythingHasTalk
  <2> QED
    BY <1>1, <1>3, <2>1, <2>2
<1>4. CASE Asks(e[i])
  BY <1>4, AnswersOfKinds, ListedType
<1>5. CASE e[i].kind = "binary"
  <2>1. AnswersOf(e, of, i) = Pairwise(e[i].op, of[e[i].args[1]], of[e[i].args[2]])
    BY <1>5, AnswersOfKinds
  <2>2. PICK j \in DOMAIN e : j < i - 1 /\ i - 1 \in DOMAIN e /\ e[i].args = <<j, i - 1>>
    BY <1>5, NodesTyped
  <2>3. e[i].args[1] \in 1 .. i - 1 /\ e[i].args[2] \in 1 .. i - 1
    BY <1>0, <2>2
  <2>4. e[i].op \in Binaries
    BY <1>5, NodesTyped
  <2>5. of[e[i].args[1]] \in SUBSET SUBSET Titles /\ of[e[i].args[2]] \in SUBSET SUBSET Titles
    BY <2>3
  <2> QED
    BY <2>1, <2>4, <2>5, CombinedType, PairwiseIs
<1>6. CASE e[i].kind = "constrained"
  <2>1. AnswersOf(e, of, i) = {{t \in a : Passes(t, ConstraintAt(e, i))} : a \in of[i - 1]}
    BY <1>6, AnswersOfKinds
  <2> QED
    BY <1>1, <1>6, <2>1
<1> QED
  BY <1>2, <1>3, <1>4, <1>5, <1>6, NodesTyped

LEMMA AnswersOfSame ==
  ASSUME NEW e, IsExpression(e), NEW i \in DOMAIN e, NEW f, NEW g,
         \A j \in 1 .. i - 1 : f[j] = g[j]
  PROVE  AnswersOf(e, f, i) = AnswersOf(e, g, i)
<1>0. DOMAIN e = 1 .. Len(e) /\ Len(e) \in Nat
  BY DEF IsExpression
<1>1. \A k \in DOMAIN e[i].args : f[e[i].args[k]] = g[e[i].args[k]]
  BY <1>0, OperandsOfNodes
<1>2. e[i].kind \in {"unary", "constrained"} => f[i - 1] = g[i - 1]
  <2>1. e[i].kind \in {"unary", "constrained"} => i - 1 \in DOMAIN e
    BY NodesTyped
  <2> QED
    BY <1>0, <2>1
<1>3. e[i].kind = "binary" => f[e[i].args[1]] = g[e[i].args[1]] /\ f[e[i].args[2]] = g[e[i].args[2]]
  <2>1. e[i].kind = "binary" => 1 \in DOMAIN e[i].args /\ 2 \in DOMAIN e[i].args
    BY OperandsOfNodes
  <2> QED
    BY <1>1, <2>1
<1>4. Asks(e[i]) => e[i].kind = "unary"
  BY DEF Asks
<1>5. CASE e[i].kind = "page"
  <2>1. AnswersOf(e, f, i) = {e[i].titles} /\ AnswersOf(e, g, i) = {e[i].titles}
    BY <1>5, AnswersOfKinds
  <2> QED
    BY <2>1
<1>6. CASE e[i].kind = "unary" /\ ~Asks(e[i])
  <2>1. AnswersOf(e, f, i) = {{TalkPage(t) : t \in a} : a \in f[i - 1]}
    BY <1>6, AnswersOfKinds
  <2>2. AnswersOf(e, g, i) = {{TalkPage(t) : t \in a} : a \in g[i - 1]}
    BY <1>6, AnswersOfKinds
  <2>3. f[i - 1] = g[i - 1]
    BY <1>2, <1>6
  <2> QED
    BY <2>1, <2>2, <2>3, Zenon
<1>7. CASE Asks(e[i])
  <2> DEFINE Ask(as) == {Listed(e[i].op, a, Agreed(e, Applying(e)[i])) :
                           a \in {b \in as : MayAsk(e[i].op, b)}}
  <2>1. AnswersOf(e, f, i) = Ask(f[i - 1])
    BY <1>7, AnswersOfKinds
  <2>2. AnswersOf(e, g, i) = Ask(g[i - 1])
    BY <1>7, AnswersOfKinds
  <2>3. f[i - 1] = g[i - 1]
    BY <1>2, <1>4, <1>7
  <2> HIDE DEF Ask
  <2> QED
    BY <2>1, <2>2, <2>3
<1>8. CASE e[i].kind = "binary"
  <2>1. AnswersOf(e, f, i) = Pairwise(e[i].op, f[e[i].args[1]], f[e[i].args[2]])
    BY <1>8, AnswersOfKinds
  <2>2. AnswersOf(e, g, i) = Pairwise(e[i].op, g[e[i].args[1]], g[e[i].args[2]])
    BY <1>8, AnswersOfKinds
  <2> QED
    BY <1>3, <1>8, <2>1, <2>2
<1>9. CASE e[i].kind = "constrained"
  <2> DEFINE Passing(as) == {{t \in a : Passes(t, ConstraintAt(e, i))} : a \in as}
  <2>1. AnswersOf(e, f, i) = Passing(f[i - 1])
    BY <1>9, AnswersOfKinds
  <2>2. AnswersOf(e, g, i) = Passing(g[i - 1])
    BY <1>9, AnswersOfKinds
  <2> HIDE DEF Passing
  <2> QED
    BY <1>2, <1>9, <2>1, <2>2
<1> QED
  BY <1>5, <1>6, <1>7, <1>8, <1>9, NodesTyped

LEMMA AnswersIs ==
  ASSUME NEW e, IsExpression(e)
  PROVE  \A i \in DOMAIN e : /\ Answers(e)[i] = AnswersOf(e, Answers(e), i)
                             /\ Answers(e)[i] \in SUBSET SUBSET Titles
<1> DEFINE N == Len(e)
           V == SUBSET SUBSET Titles
           F == [p \in (1 .. N) \X [1 .. N -> V] |-> AnswersOf(e, p[2], p[1])]
           D(f) == [i \in DOMAIN e |-> AnswersOf(e, f, i)]
<1>1. N \in Nat /\ DOMAIN e = 1 .. N
  BY DEF IsExpression
<1> HIDE DEF V
<1>2. F \in Steps(N, V)
  <2>1. ASSUME NEW i \in 1 .. N, NEW f \in [1 .. N -> V] PROVE AnswersOf(e, f, i) \in V
    <3>1. \A j \in 1 .. i - 1 : f[j] \in V
      BY <1>1
    <3> QED
      BY <1>1, <3>1, AnswersOfType DEF V
  <2> QED
    BY <2>1 DEF Steps
<1>3. Upwards(F, N, V)
  <2>1. ASSUME NEW i \in 1 .. N, NEW f \in [1 .. N -> V], NEW g \in [1 .. N -> V],
               \A j \in 1 .. i - 1 : f[j] = g[j]
        PROVE  F[<<i, f>>] = F[<<i, g>>]
    <3>1. F[<<i, f>>] = AnswersOf(e, f, i) /\ F[<<i, g>>] = AnswersOf(e, g, i)
      OBVIOUS
    <3>2. i \in DOMAIN e
      BY <1>1
    <3>3. AnswersOf(e, f, i) = AnswersOf(e, g, i)
      BY <2>1, <3>2, AnswersOfSame, Zenon
    <3> QED
      BY <3>1, <3>3
  <2> HIDE DEF F
  <2> QED
    BY <2>1 DEF Upwards
<1>4. V # {}
  BY DEF V
<1>5. PICK g \in [1 .. N -> V] : Follows(g, F, N)
  <2> HIDE DEF F, N
  <2> QED
    BY <1>1, <1>2, <1>3, <1>4, Recursion, Zenon
<1>6. g = D(g)
  BY <1>1, <1>5 DEF Follows
<1>7. \E f : f = D(f)
  BY <1>6
<1> DEFINE f == CHOOSE h : h = D(h)
<1>8. f = D(f)
  BY <1>7
<1>9. f = Answers(e)
  BY DEF Answers, AnswersOf, Pairwise
<1> HIDE DEF f
<1>10. \A i \in DOMAIN e : f[i] = AnswersOf(e, f, i)
  BY <1>8
<1> DEFINE S == {n \in 0 .. N : n > 0 => f[n] \in SUBSET SUBSET Titles}
<1>11. ASSUME NEW n \in 0 .. N, \A m \in 0 .. n - 1 : m \in S
       PROVE  n \in S
  <2>1. SUFFICES ASSUME n > 0 PROVE f[n] \in SUBSET SUBSET Titles
    OBVIOUS
  <2>2. n \in DOMAIN e
    BY <1>1, <2>1
  <2>3. \A j \in 1 .. n - 1 : f[j] \in SUBSET SUBSET Titles
    BY <1>1, <1>11
  <2>4. AnswersOf(e, f, n) \in SUBSET SUBSET Titles
    BY <2>2, <2>3, AnswersOfType, Zenon
  <2> QED
    BY <1>10, <2>2, <2>4
<1>12. \A n \in 0 .. N : n \in S
  <2> HIDE DEF S
  <2> QED
    BY <1>1, <1>11, Induction
<1>13. \A n \in DOMAIN e : f[n] \in SUBSET SUBSET Titles
  BY <1>1, <1>12
<1> QED
  BY <1>9, <1>10, <1>13

(* A node has at most one answer, and has one if what it is an operand of  *)
(* has one.                                                                *)
LEMMA OneAnswer ==
  ASSUME NEW e, IsExpression(e)
  PROVE  \A i \in DOMAIN e : \A a, b \in Answers(e)[i] : a = b
<1>0. DOMAIN e = 1 .. Len(e) /\ Len(e) \in Nat
  BY DEF IsExpression
<1> DEFINE of == Answers(e)
           S == {n \in 0 .. Len(e) : n > 0 => \A a, b \in of[n] : a = b}
<1> HIDE DEF of
<1>1. ASSUME NEW i \in 0 .. Len(e), \A m \in 0 .. i - 1 : m \in S
      PROVE  i \in S
  <2>1. SUFFICES ASSUME i > 0 PROVE \A a, b \in of[i] : a = b
    OBVIOUS
  <2>2. i \in DOMAIN e
    BY <1>0, <2>1
  <2>3. of[i] = AnswersOf(e, of, i)
    BY <2>2, AnswersIs DEF of
  <2>4. \A j \in DOMAIN e : j < i => \A a, b \in of[j] : a = b
    BY <1>0, <1>1
  <2>5. e[i].kind \in {"unary", "constrained"} => \A a, b \in of[i - 1] : a = b
    <3>1. e[i].kind \in {"unary", "constrained"} => i - 1 \in DOMAIN e
      BY <2>2, NodesTyped
    <3> QED
      BY <1>0, <2>4, <3>1
  <2>6. CASE e[i].kind = "page"
    BY <2>2, <2>3, <2>6, AnswersOfKinds
  <2>7. CASE e[i].kind = "unary" /\ ~Asks(e[i])
    <3>1. of[i] = {{TalkPage(t) : t \in a} : a \in of[i - 1]}
      BY <2>2, <2>3, <2>7, AnswersOfKinds
    <3> QED
      BY <2>5, <2>7, <3>1
  <2>8. CASE Asks(e[i])
    <3>1. of[i] = {Listed(e[i].op, a, Agreed(e, Applying(e)[i])) :
                     a \in {b \in of[i - 1] : MayAsk(e[i].op, b)}}
      BY <2>2, <2>3, <2>8, AnswersOfKinds
    <3> QED
      BY <2>5, <2>8, <3>1 DEF Asks
  <2>9. CASE e[i].kind = "binary"
    <3>1. of[i] = Pairwise(e[i].op, of[e[i].args[1]], of[e[i].args[2]])
      BY <2>2, <2>3, <2>9, AnswersOfKinds, ZenonT(40)
    <3>2. 1 \in DOMAIN e[i].args /\ 2 \in DOMAIN e[i].args
      BY <2>2, <2>9, OperandsOfNodes
    <3>3. /\ e[i].args[1] \in DOMAIN e /\ e[i].args[1] < i
          /\ e[i].args[2] \in DOMAIN e /\ e[i].args[2] < i
      BY <2>2, <3>2, OperandsOfNodes
    <3>4. \A a, b \in of[e[i].args[1]] : a = b
      BY <2>4, <3>3
    <3>5. \A a, b \in of[e[i].args[2]] : a = b
      BY <2>4, <3>3
    <3> QED
      BY <3>1, <3>4, <3>5, PairwiseIs
  <2>10. CASE e[i].kind = "constrained"
    <3>1. of[i] = {{t \in a : Passes(t, ConstraintAt(e, i))} : a \in of[i - 1]}
      BY <2>2, <2>3, <2>10, AnswersOfKinds
    <3> QED
      BY <2>5, <2>10, <3>1
  <2> QED
    BY <2>2, <2>6, <2>7, <2>8, <2>9, <2>10, NodesTyped
<1>2. \A n \in 0 .. Len(e) : n \in S
  <2> HIDE DEF S
  <2> QED
    BY <1>0, <1>1, Induction
<1> QED
  BY <1>0, <1>2 DEF of

LEMMA AllAnswer ==
  ASSUME NEW e, IsExpression(e), Answers(e)[Len(e)] # {}
  PROVE  \A i \in DOMAIN e : Answers(e)[i] # {}
<1>0. DOMAIN e = 1 .. Len(e) /\ Len(e) \in Nat
  BY DEF IsExpression
<1> DEFINE of == Answers(e)
           S == {n \in 1 .. Len(e) : of[n] # {}}
<1> HIDE DEF of
<1>1. ASSUME NEW i \in 1 .. Len(e), \A m \in i + 1 .. Len(e) : m \in S
      PROVE  i \in S
  <2>1. CASE i = Len(e)
    BY <2>1 DEF of
  <2>2. CASE i # Len(e)
    <3>1. PICK j \in DOMAIN e : OperandOf(e, i, j)
      BY <1>0, <2>2 DEF IsExpression
    <3>2. PICK k \in DOMAIN e[j].args : e[j].args[k] = i
      BY <3>1 DEF OperandOf
    <3>3. i < j
      BY <3>2, OperandsOfNodes
    <3>4. of[j] # {} /\ of[j] = AnswersOf(e, of, j)
      <4>1. j \in S
        BY <1>0, <1>1, <3>3
      <4> QED
        BY <4>1, AnswersIs DEF of
    <3>5. CASE e[j].kind = "page"
      BY <3>2, <3>5, OperandsOfNodes
    <3>6. CASE e[j].kind \in {"unary", "constrained"}
      <4>1. e[j].args = <<j - 1>> /\ Len(e[j].args) = 1
        BY <3>6, NodesTyped, OperandsOfNodes
      <4>2. i = j - 1
        BY <3>2, <4>1
      <4>3. CASE e[j].kind = "unary" /\ ~Asks(e[j])
        <5>1. of[j] = {{TalkPage(t) : t \in a} : a \in of[j - 1]}
          BY <3>4, <4>3, AnswersOfKinds
        <5> QED
          BY <3>4, <4>2, <5>1
      <4>4. CASE Asks(e[j])
        <5>1. of[j] = {Listed(e[j].op, a, Agreed(e, Applying(e)[j])) :
                         a \in {b \in of[j - 1] : MayAsk(e[j].op, b)}}
          BY <3>4, <4>4, AnswersOfKinds
        <5> QED
          BY <3>4, <4>2, <5>1
      <4>5. CASE e[j].kind = "constrained"
        <5>1. of[j] = {{t \in a : Passes(t, ConstraintAt(e, j))} : a \in of[j - 1]}
          BY <3>4, <4>5, AnswersOfKinds
        <5> QED
          BY <3>4, <4>2, <5>1
      <4> QED
        BY <3>6, <4>3, <4>4, <4>5
    <3>7. CASE e[j].kind = "binary"
      <4>1. of[j] = Pairwise(e[j].op, of[e[j].args[1]], of[e[j].args[2]])
        BY <3>4, <3>7, AnswersOfKinds
      <4>2. of[e[j].args[1]] # {} /\ of[e[j].args[2]] # {}
        BY <3>4, <4>1, PairwiseIs
      <4>3. k = 1 \/ k = 2
        <5>1. Len(e[j].args) = 2 /\ e[j].args \in Seq(Nat)
          BY <3>7, OperandsOfNodes
        <5> QED
          BY <3>2, <5>1
      <4> QED
        BY <3>2, <4>2, <4>3
    <3> QED
      BY <3>5, <3>6, <3>7, NodesTyped
  <2> QED
    BY <2>1, <2>2
<1>2. \A n \in 1 .. Len(e) : n \in S
  <2> HIDE DEF S
  <2> QED
    BY <1>0, <1>1, InductionDown
<1> QED
  BY <1>0, <1>2 DEF of

AnswerAt(e, i) == CHOOSE a : a \in Answers(e)[i]

(* A query that has a meaning is legal, and each of its nodes has an       *)
(* answer, which is computed from those of its operands.                   *)
LEMMA AnswersAre ==
  ASSUME NEW e, IsExpression(e), Meaning(e) # {}
  PROVE  /\ Legal(e)
         /\ Meaning(e) = {AnswerAt(e, Len(e))}
         /\ \A i \in DOMAIN e :
              /\ AnswerAt(e, i) \in SUBSET Titles
              /\ e[i].kind = "page" => AnswerAt(e, i) = e[i].titles
              /\ e[i].kind = "unary" /\ ~Asks(e[i]) =>
                   AnswerAt(e, i) = {TalkPage(t) : t \in AnswerAt(e, i - 1)}
              /\ Asks(e[i]) =>
                   /\ MayAsk(e[i].op, AnswerAt(e, i - 1))
                   /\ AnswerAt(e, i) =
                        Listed(e[i].op, AnswerAt(e, i - 1), Agreed(e, Applying(e)[i]))
              /\ e[i].kind = "binary" =>
                   AnswerAt(e, i) = Combined(e[i].op, AnswerAt(e, e[i].args[1]),
                                                      AnswerAt(e, e[i].args[2]))
              /\ e[i].kind = "constrained" =>
                   AnswerAt(e, i) = {t \in AnswerAt(e, i - 1) : Passes(t, ConstraintAt(e, i))}
<1>0. DOMAIN e = 1 .. Len(e) /\ Len(e) \in Nat /\ Len(e) \in DOMAIN e
  BY DEF IsExpression
<1>1. Legal(e) /\ Meaning(e) = Answers(e)[Len(e)]
  BY DEF Meaning
<1>2. \A i \in DOMAIN e : Answers(e)[i] # {}
  BY <1>1, AllAnswer
<1>3. \A i \in DOMAIN e : Answers(e)[i] = {AnswerAt(e, i)} /\ AnswerAt(e, i) \in SUBSET Titles
  <2>1. TAKE i \in DOMAIN e
  <2>2. PICK a : a \in Answers(e)[i]
    BY <1>2
  <2>3. AnswerAt(e, i) \in Answers(e)[i]
    BY <2>2 DEF AnswerAt
  <2>4. \A b \in Answers(e)[i] : b = AnswerAt(e, i)
    BY <2>3, OneAnswer
  <2> QED
    BY <2>3, <2>4, AnswersIs
<1>4. ASSUME NEW i \in DOMAIN e
      PROVE  /\ e[i].kind = "page" => AnswerAt(e, i) = e[i].titles
             /\ e[i].kind = "unary" /\ ~Asks(e[i]) =>
                  AnswerAt(e, i) = {TalkPage(t) : t \in AnswerAt(e, i - 1)}
             /\ Asks(e[i]) =>
                  /\ MayAsk(e[i].op, AnswerAt(e, i - 1))
                  /\ AnswerAt(e, i) =
                       Listed(e[i].op, AnswerAt(e, i - 1), Agreed(e, Applying(e)[i]))
             /\ e[i].kind = "binary" =>
                  AnswerAt(e, i) = Combined(e[i].op, AnswerAt(e, e[i].args[1]),
                                                     AnswerAt(e, e[i].args[2]))
             /\ e[i].kind = "constrained" =>
                  AnswerAt(e, i) = {t \in AnswerAt(e, i - 1) : Passes(t, ConstraintAt(e, i))}
  <2> DEFINE of == Answers(e)
             A(j) == AnswerAt(e, j)
  <2>1. of[i] = AnswersOf(e, of, i) /\ of[i] = {A(i)}
    BY <1>3, AnswersIs
  <2>2. e[i].kind \in {"unary", "constrained"} => of[i - 1] = {A(i - 1)}
    <3>1. e[i].kind \in {"unary", "constrained"} => i - 1 \in DOMAIN e
      BY NodesTyped
    <3> QED
      BY <1>3, <3>1
  <2>3. e[i].kind = "binary" => /\ of[e[i].args[1]] = {A(e[i].args[1])}
                                /\ of[e[i].args[2]] = {A(e[i].args[2])}
    <3>1. e[i].kind = "binary" => 1 \in DOMAIN e[i].args /\ 2 \in DOMAIN e[i].args
      BY OperandsOfNodes
    <3>2. e[i].kind = "binary" => e[i].args[1] \in DOMAIN e /\ e[i].args[2] \in DOMAIN e
      BY <3>1, OperandsOfNodes
    <3> QED
      BY <1>3, <3>2
  <2>4. Asks(e[i]) => e[i].kind = "unary"
    BY DEF Asks
  <2> HIDE DEF of, A
  <2>5. ASSUME e[i].kind = "page" PROVE A(i) = e[i].titles
    <3>1. AnswersOf(e, of, i) = {e[i].titles}
      BY <2>5, AnswersOfKinds
    <3> QED
      BY <2>1, <3>1
  <2>6. ASSUME e[i].kind = "unary", ~Asks(e[i]) PROVE A(i) = {TalkPage(t) : t \in A(i - 1)}
    <3>1. AnswersOf(e, of, i) = {{TalkPage(t) : t \in a} : a \in of[i - 1]}
      BY <2>6, AnswersOfKinds
    <3> QED
      BY <2>1, <2>2, <2>6, <3>1
  <2>7. ASSUME Asks(e[i])
        PROVE  /\ MayAsk(e[i].op, A(i - 1))
               /\ A(i) = Listed(e[i].op, A(i - 1), Agreed(e, Applying(e)[i]))
    <3>1. AnswersOf(e, of, i) = {Listed(e[i].op, a, Agreed(e, Applying(e)[i])) :
                                   a \in {b \in of[i - 1] : MayAsk(e[i].op, b)}}
      BY <2>7, AnswersOfKinds
    <3>2. of[i - 1] = {A(i - 1)}
      BY <2>2, <2>4, <2>7
    <3> QED
      BY <2>1, <3>1, <3>2
  <2>8. ASSUME e[i].kind = "binary"
        PROVE  A(i) = Combined(e[i].op, A(e[i].args[1]), A(e[i].args[2]))
    <3>1. AnswersOf(e, of, i) =
            Pairwise(e[i].op, of[e[i].args[1]], of[e[i].args[2]])
      BY <2>8, AnswersOfKinds
    <3>2. AnswersOf(e, of, i) = {Combined(e[i].op, A(e[i].args[1]), A(e[i].args[2]))}
      BY <2>3, <2>8, <3>1, PairwiseIs
    <3>3. A(i) \in of[i]
      BY <2>1
    <3> QED
      BY <2>1, <3>2, <3>3
  <2>9. ASSUME e[i].kind = "constrained"
        PROVE  A(i) = {t \in A(i - 1) : Passes(t, ConstraintAt(e, i))}
    <3>1. AnswersOf(e, of, i) = {{t \in a : Passes(t, ConstraintAt(e, i))} : a \in of[i - 1]}
      BY <2>9, AnswersOfKinds
    <3> QED
      BY <2>1, <2>2, <2>9, <3>1
  <2> QED
    BY <2>5, <2>6, <2>7, <2>8, <2>9 DEF A
<1> QED
  BY <1>0, <1>1, <1>3, <1>4

-----------------------------------------------------------------------------
(* Limits.                                                                 *)

(* v is the strictest of the limits L.                                     *)
Strictest(v, L) == IF v = None \/ v < 0 THEN L = {} ELSE v \in L /\ \A l \in L : v <= l

(* Merging finds the strictest of the limits of both sides.                *)
LEMMA StrictestMerged ==
  ASSUME NEW a \in {None} \cup Int, NEW b \in {None} \cup Int,
         NEW L \in SUBSET Int, NEW M \in SUBSET Int, Strictest(a, L), Strictest(b, M)
  PROVE  Strictest(MergeLimit(a, b), L \cup M)
<1>1. CASE a = None \/ a < 0
  BY <1>1 DEF Strictest, MergeLimit
<1>2. CASE ~(a = None \/ a < 0) /\ (b = None \/ b < 0)
  BY <1>2 DEF Strictest, MergeLimit
<1>3. CASE ~(a = None \/ a < 0) /\ ~(b = None \/ b < 0)
  <2>1. a \in L /\ b \in M /\ (\A l \in L : a <= l) /\ (\A l \in M : b <= l)
    BY <1>3 DEF Strictest
  <2>2. a \in Int /\ b \in Int /\ a >= 0 /\ b >= 0
    BY <1>3
  <2>3. MergeLimit(a, b) = IF a < b THEN a ELSE b
    BY <1>3 DEF MergeLimit
  <2>4. MergeLimit(a, b) \in L \cup M /\ MergeLimit(a, b) \in Int /\ MergeLimit(a, b) >= 0
    BY <2>1, <2>2, <2>3
  <2>5. \A l \in L \cup M : MergeLimit(a, b) <= l
    BY <2>1, <2>2, <2>3
  <2> QED
    BY <2>4, <2>5, NoneIsNoValue DEF Strictest
<1> QED
  BY <1>1, <1>2, <1>3

(* The limits of the first n elements of a list.                           *)
LimitsUpTo(list, n) ==
  {list[i].value : i \in {j \in 1 .. n : /\ list[j].kind = "limit"
                                       /\ \A k \in j .. n : list[k].kind = "limit" =>
                                                             list[k].value >= 0}}

LEMMA LimitsUpToNext ==
  ASSUME NEW list \in Seq(Elements), NEW n \in 1 .. Len(list)
  PROVE  LimitsUpTo(list, n) =
           IF list[n].kind # "limit" THEN LimitsUpTo(list, n - 1)
           ELSE IF list[n].value < 0 THEN {}
           ELSE LimitsUpTo(list, n - 1) \cup {list[n].value}
<1> DEFINE Here(m) == {j \in 1 .. m : /\ list[j].kind = "limit"
                                     /\ \A k \in j .. m : list[k].kind = "limit" =>
                                                           list[k].value >= 0}
<1>1. \A m : LimitsUpTo(list, m) = {list[i].value : i \in Here(m)}
  BY DEF LimitsUpTo
<1>2. list[n] \in Elements /\ n \in Nat /\ n - 1 \in Nat
  OBVIOUS
<1>3. list[n].kind = "limit" => list[n].value \in Int
  BY <1>2 DEF Elements
<1>4. \A k : k \in 1 .. n <=> k \in 1 .. n - 1 \/ k = n
  BY <1>2
<1>5. \A j \in 1 .. n - 1 : \A k : k \in j .. n <=> k \in j .. n - 1 \/ k = n
  BY <1>2
<1>6. \A k : k \in n .. n <=> k = n
  BY <1>2
<1>7. CASE list[n].kind # "limit"
  <2>1. Here(n) = Here(n - 1)
    BY <1>4, <1>5, <1>7
  <2> QED
    BY <1>1, <1>7, <2>1
<1>8. CASE list[n].kind = "limit" /\ list[n].value < 0
  <2>1. ~(list[n].value >= 0)
    BY <1>3, <1>8
  <2>2. Here(n) = {}
    BY <1>4, <1>5, <1>6, <1>8, <2>1
  <2> QED
    BY <1>1, <1>8, <2>2
<1>9. CASE list[n].kind = "limit" /\ ~(list[n].value < 0)
  <2>1. list[n].value >= 0
    BY <1>3, <1>9
  <2>2. Here(n) = Here(n - 1) \cup {n}
    BY <1>4, <1>5, <1>6, <1>9, <2>1
  <2> HIDE DEF Here
  <2> QED
    BY <1>1, <1>9, <2>2
<1> QED
  BY <1>7, <1>8, <1>9

(* A list stands for the strictest of its limits.                          *)
LEMMA ListStrictest ==
  ASSUME NEW list \in Seq(Elements)
  PROVE  /\ Strictest(FromList(list).limit, LimitsIn(list))
         /\ LimitsIn(list) \in SUBSET Int
<1> DEFINE N == Len(list)
<1>0. N \in Nat /\ DOMAIN list = 1 .. N
  OBVIOUS
<1>1. PICK upto \in [0 .. N -> Constraints] :
        /\ upto[0] = NoConstraint
        /\ \A n \in 1 .. N : upto[n] = Added(upto[n - 1], list[n])
        /\ FromList(list) = upto[N]
  BY Prefixes
<1> DEFINE S == {n \in 0 .. N : /\ Strictest(upto[n].limit, LimitsUpTo(list, n))
                               /\ LimitsUpTo(list, n) \in SUBSET Int}
<1>2. ASSUME NEW n \in 0 .. N, \A m \in 0 .. n - 1 : m \in S
      PROVE  n \in S
  <2>1. CASE n = 0
    <3>1. LimitsUpTo(list, 0) = {}
      <4>1. 1 .. 0 = {}
        OBVIOUS
      <4> QED
        BY <4>1 DEF LimitsUpTo
    <3> QED
      BY <1>1, <2>1, <3>1 DEF NoConstraint, Strictest
  <2>2. CASE n > 0
    <3> DEFINE L == LimitsUpTo(list, n - 1)
               a == upto[n - 1].limit
               b == list[n].value
    <3>1. n \in 1 .. N /\ n - 1 \in 0 .. N /\ n - 1 \in S
      BY <1>0, <1>2, <2>2
    <3>2. Strictest(a, L) /\ L \in SUBSET Int
      BY <3>1
    <3>3. a \in {None} \cup Int
      BY <1>1, <3>1 DEF Constraints
    <3>4. list[n].kind = "limit" => b \in Int
      <4>1. list[n] \in Elements
        BY <1>0, <3>1
      <4> QED
        BY <4>1 DEF Elements
    <3>5. upto[n].limit = IF list[n].kind = "limit" THEN LimitInList(a, b) ELSE a
      BY <1>1, <3>1, ZenonT(40) DEF Added, Merge
    <3>6. LimitsUpTo(list, n) = IF list[n].kind # "limit" THEN L
                                ELSE IF b < 0 THEN {} ELSE L \cup {b}
      BY <3>1, LimitsUpToNext
    <3> HIDE DEF L, a, b, S
    <3>7. LimitsUpTo(list, n) \in SUBSET Int
      BY <3>2, <3>4, <3>6
    <3>8. Strictest(upto[n].limit, LimitsUpTo(list, n))
      <4>1. CASE list[n].kind # "limit"
        BY <3>2, <3>5, <3>6, <4>1
      <4>2. CASE list[n].kind = "limit" /\ b < 0
        BY <3>3, <3>4, <3>5, <3>6, <4>2, NoneIsNoValue DEF Strictest, LimitInList
      <4>3. CASE list[n].kind = "limit" /\ ~(b < 0)
        <5>1. Strictest(b, {b}) /\ b \in Int
          BY <3>4, <4>3, NoneIsNoValue DEF Strictest
        <5>2. MergeLimit(a, b) = LimitInList(a, b)
          BY <3>3, <4>3, <5>1, NoneIsNoValue DEF MergeLimit, LimitInList
        <5>3. Strictest(MergeLimit(a, b), L \cup {b})
          BY <3>2, <3>3, <5>1, StrictestMerged
        <5> QED
          BY <3>5, <3>6, <4>3, <5>2, <5>3
      <4> QED
        BY <4>1, <4>2, <4>3
    <3> QED
      BY <1>2, <3>7, <3>8, Zenon DEF S
  <2>3. n = 0 \/ n > 0
    BY <1>0
  <2> QED
    BY <2>1, <2>2, <2>3, Zenon
<1>3. \A n \in 0 .. N : n \in S
  <2> HIDE DEF S
  <2> QED
    BY <1>0, <1>2, Induction
<1>4. LimitsIn(list) = LimitsUpTo(list, N)
  <2> DEFINE At == {i \in DOMAIN list : list[i].kind = "limit"}
             In == {j \in At : \A k \in At : k >= j => list[k].value >= 0}
             Here == {j \in 1 .. N : /\ list[j].kind = "limit"
                                    /\ \A k \in j .. N : list[k].kind = "limit" =>
                                                          list[k].value >= 0}
  <2>1. \A j \in 1 .. N : \A k : k \in j .. N <=> k \in 1 .. N /\ k >= j
    BY <1>0
  <2>2. In = Here
    BY <1>0, <2>1
  <2>3. LimitsIn(list) = {list[i].value : i \in In} /\ LimitsUpTo(list, N) = {list[i].value : i \in Here}
    BY DEF LimitsIn, LimitsUpTo
  <2> HIDE DEF In, Here
  <2> QED
    BY <2>2, <2>3
<1> QED
  BY <1>0, <1>1, <1>3, <1>4
=============================================================================
