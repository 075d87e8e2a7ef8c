------------------------------ MODULE QueryMeaning ------------------------------
(***************************************************************************)
(* Expressions, what the operations of a query compute, and what an        *)
(* expression means: its answer without registers, instructions and        *)
(* passes.                                                                 *)
(*                                                                         *)
(* An expression is the sequence of its nodes in the order in which the    *)
(* conversion visits them, operands first; a node names its operands by    *)
(* their places in the sequence.  A node is a page (several titles), a     *)
(* unary or a binary operation, or a list of constraints behind an         *)
(* expression.  A title is a record of a namespace and a name; talk pages  *)
(* have odd namespaces.                                                    *)
(*                                                                         *)
(* What the wiki answers to a request is fixed while a query is solved: it *)
(* is the constant Listing, or Resolved if redirects are resolved.  How    *)
(* limits cut an answer short is said by QueryCompiler, and what the       *)
(* parameters do to one request by ApiSolver.                              *)
(***************************************************************************)
EXTENDS QueryConstraints

CONSTANTS
  Titles,             (* the titles of the wiki                             *)
  Expressions,        (* the queries that are tried                         *)
  Listing(_, _, _),   (* what the wiki lists for an operation on a title,   *)
                      (* given the parameters of the request                *)
  Resolved(_, _, _, _)(* the same if it resolves redirects, given also the  *)
                      (* namespaces asked for: these are those of the pages *)
                      (* before they are resolved                           *)

Category == 14

Generators == {"link", "linkto", "embed", "incat", "prefix"}
Unaries == Generators \cup {"toggle"}
Binaries == {"and", "or", "exclude", "xor"}

Nodes ==
  [kind : {"page"}, titles : SUBSET Titles, args : {<<>>}]
    \cup [kind : {"unary"}, op : Unaries, args : Seq(Nat)]
    \cup [kind : {"binary"}, op : Binaries, args : Seq(Nat)]
    \cup [kind : {"constrained"}, list : Seq(Elements), args : Seq(Nat)]

(* Node i is an operand of node j.                                         *)
OperandOf(e, i, j) == \E k \in DOMAIN e[j].args : e[j].args[k] = i

(* The nodes form a tree whose root comes last.  The last operand of an    *)
(* operation is the node before it.                                        *)
IsExpression(e) ==
  /\ e \in Seq(Nodes) /\ e # <<>>
  /\ \A j \in DOMAIN e :
       CASE e[j].kind \in {"unary", "constrained"} -> j > 1 /\ e[j].args = <<j - 1>>
         [] e[j].kind = "binary" -> \E i \in 1 .. j - 2 : e[j].args = <<i, j - 1>>
         [] OTHER -> TRUE
  /\ \A i \in DOMAIN e : i # Len(e) => \E j \in DOMAIN e : OperandOf(e, i, j)
  /\ \A i, j, k \in DOMAIN e : OperandOf(e, i, j) /\ OperandOf(e, i, k) => j = k

ASSUME ExpressionsAreTrees == \A e \in Expressions : IsExpression(e)

-----------------------------------------------------------------------------
(* Operations.                                                             *)

(* Namespaces 2k and 2k+1 are those of pages and of their talk pages; the  *)
(* code flips the lowest bit.                                              *)
TalkOf(n) == IF n % 2 = 0 THEN n + 1 ELSE n - 1

TalkPage(t) == [t EXCEPT !.ns = TalkOf(@)]

ASSUME TitlesAreRecords ==
  \A t \in Titles : t = [ns |-> t.ns, name |-> t.name] /\ t.ns \in Int

ASSUME EverythingHasTalk ==
  /\ \A t \in Titles : TalkPage(t) \in Titles
  /\ \A n \in Namespaces : TalkOf(n) \in Namespaces

Combined(op, a, b) == CASE op = "and" -> a \cap b
                        [] op = "or" -> a \cup b
                        [] op = "exclude" -> a \ b
                        [] op = "xor" -> (a \ b) \cup (b \ a)

(* The parameters of a request and their defaults.  All negative depths    *)
(* ask for the whole tree.                                                 *)
Parameters(con) ==
  LET Or(v, default) == IF v = None THEN default ELSE v
  IN [depth |-> IF con.depth # None /\ con.depth < 0 THEN -1 ELSE Or(con.depth, 0),
      redir |-> Or(con.redir, "all"),
      directlink |-> Or(con.directlink, FALSE),
      resolve |-> Or(con.resolveredir, FALSE)]

(* The titles listed for a set of titles, which must not be more than one. *)
Listed(op, titles, con) ==
  LET how == Parameters(con)
  IN IF how.resolve
     THEN {t \in Titles : \E x \in titles : t \in Resolved(op, x, con.ns, how)}
     ELSE {t \in Titles : Passes(t, con) /\ \E x \in titles : t \in Listing(op, x, how)}

(* The solver does not ask about several pages, nor for the members of     *)
(* what is not a category.                                                 *)
MayAsk(op, titles) ==
  /\ \A x, y \in titles : x = y
  /\ op = "incat" => \A x \in titles : x.ns = Category

-----------------------------------------------------------------------------
(* Meaning.                                                                *)

Asks(node) == node.kind = "unary" /\ node.op \in Generators

(* For each node of e, the lists of constraints (by their nodes) that      *)
(* apply to it: those that stand behind it, and those that apply to what   *)
(* it is an operand of, unless that is a request.                          *)
Applying(e) ==
  LET over[i \in DOMAIN e] ==
        IF i = Len(e) THEN {}
        ELSE LET j == CHOOSE p \in DOMAIN e : OperandOf(e, i, p)
             IN IF Asks(e[j]) THEN {}
                ELSE over[j] \cup (IF e[j].kind = "constrained" THEN {j} ELSE {})
  IN over

ConstraintAt(e, j) == FromList(e[j].list)

(* What the lists at the nodes js agree on, but for namespaces and limits. *)
Agreed(e, js) ==
  [k \in DOMAIN NoConstraint |->
     LET given == {ConstraintAt(e, j)[k] : j \in js} \ {None}
     IN IF k \in {"ns", "limit"} \/ given = {} THEN None ELSE CHOOSE v \in given : TRUE]

(* Node i is a page or a request and admits every list that applies to it, *)
(* and these do not contradict each other.                                 *)
Admitted(e, i) ==
  LET code == IF e[i].kind = "page" THEN "set" ELSE e[i].op
      js == Applying(e)[i]
  IN /\ \A j \in js : Admits(code, ConstraintAt(e, j))
     /\ \A j, k \in js : Compatible(ConstraintAt(e, j), ConstraintAt(e, k))

Legal(e) ==
  \A i \in DOMAIN e : /\ e[i].kind = "constrained" => Consistent(e[i].list)
                      /\ e[i].kind = "page" \/ Asks(e[i]) => Admitted(e, i)

(* No request that resolves redirects is filtered by namespace.            *)
ResolvesUnfiltered(e) ==
  \A i \in DOMAIN e :
    Asks(e[i]) /\ Parameters(Agreed(e, Applying(e)[i])).resolve =>
      \A j \in Applying(e)[i] : ConstraintAt(e, j).ns = None

(* The answers of each node: the set of its one answer, or the empty set   *)
(* if the node asks what may not be asked, or depends on one that does.  A *)
(* namespace constraint keeps the titles of the answer it stands behind    *)
(* that are in these namespaces.                                           *)
Answers(e) ==
  LET applying == Applying(e)
      of[i \in DOMAIN e] ==
        LET node == e[i]
            Of(k) == of[node.args[k]]
        IN CASE node.kind = "page" -> {node.titles}
             [] node.kind = "unary" /\ ~Asks(node) ->
                  {{TalkPage(t) : t \in a} : a \in Of(1)}
             [] Asks(node) ->
                  {Listed(node.op, a, Agreed(e, applying[i])) :
                     a \in {b \in Of(1) : MayAsk(node.op, b)}}
             [] node.kind = "binary" ->
                  {Combined(node.op, p[1], p[2]) : p \in Of(1) \X Of(2)}
             [] node.kind = "constrained" ->
                  {{t \in a : Passes(t, ConstraintAt(e, i))} : a \in Of(1)}
  IN of

(* The set of the one answer of a query that has an answer.                *)
Meaning(e) == IF Legal(e) THEN Answers(e)[Len(e)] ELSE {}

(* The limits of a list: a negative one takes back those before it.        *)
LimitsIn(list) ==
  LET At == {i \in DOMAIN list : list[i].kind = "limit"}
  IN {list[i].value : i \in {j \in At : \A k \in At : k >= j => list[k].value >= 0}}

(* The limits that apply to node i.                                        *)
LimitsAt(e, i) == UNION {LimitsIn(e[j].list) : j \in Applying(e)[i]}
=============================================================================
