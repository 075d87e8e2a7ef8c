--------------------------- MODULE MCQueryCompiler ---------------------------
EXTENDS QueryCompiler

(* A page and its talk page, a category and its talk page.                 *)
Title(n, name) == [ns |-> n, name |-> name]
A == Title(0, "A")
TalkA == Title(1, "A")
C == Title(14, "C")
TalkC == Title(15, "C")
MCTitles == {A, TalkA, C, TalkC}

(* A links to all but itself, the category has A, and at depth 1 also the  *)
(* talk page of the category.                                              *)
MCListing(op, t, how) ==
  CASE op = "link" -> MCTitles \ {t}
    [] op = "incat" -> IF how.depth = 0 THEN {A, TalkA} ELSE {A, TalkA, TalkC}
    [] op = "linkto" -> IF how.directlink THEN {C} ELSE {C, TalkA}
    [] op = "embed" -> IF how.redir = "all" THEN {A, C} ELSE {A}
    [] op = "prefix" -> {t}

(* The talk pages are redirects to their pages.  The filter applies to what *)
(* is listed, before the target takes the place of a redirect.             *)
TargetOf(t) == CASE t = TalkA -> A [] t = TalkC -> C [] OTHER -> t

MCResolved(op, t, ns, how) ==
  {TargetOf(u) : u \in {v \in MCListing(op, t, how) : ns = None \/ v.ns \in ns}}

(* Expressions; the nodes of a right operand come after those of the left. *)
After(e, n) == [i \in DOMAIN e |-> [e[i] EXCEPT !.args = [k \in DOMAIN @ |-> @[k] + n]]]
PageOf(titles) == <<[kind |-> "page", titles |-> titles, args |-> <<>>]>>
UnaryOf(op, e) == Append(e, [kind |-> "unary", op |-> op, args |-> <<Len(e)>>])
Constrained(e, list) == Append(e, [kind |-> "constrained", list |-> list, args |-> <<Len(e)>>])
BinaryOf(op, l, r) ==
  Append(l \o After(r, Len(l)),
         [kind |-> "binary", op |-> op, args |-> <<Len(l), Len(l) + Len(r)>>])

Con(k, v) == [kind |-> k, value |-> v]
NsLists == {<<Con("ns", {0, 14})>>, <<Con("ns", {1})>>, <<Con("ns", {0}), Con("ns", {1})>>}
Lists == NsLists \cup {<<Con("depth", 1)>>}

Limits == {Con("limit", 5), Con("limit", 3), Con("limit", -1)}

(* Every kind of constraint on every operation, alone and in pairs.        *)
Each == {Con("ns", {0, 14}), Con("ns", {1}), Con("depth", 1), Con("depth", -1),
             Con("depth", -2), Con("redir", "nonredirects"), Con("redir", "redirects"),
             Con("directlink", TRUE), Con("resolveredir", TRUE)} \cup Limits

Pages == {PageOf({}), PageOf({A}), PageOf({C}), PageOf({A, TalkC})}

Over(es) == {UnaryOf(op, e) : op \in {"link", "incat", "toggle"}, e \in es}
            \cup {Constrained(e, l) : e \in es, l \in Lists}

Pairs(ops, es) == {BinaryOf(op, l, r) : op \in ops, l \in es, r \in es}

Small == Pages \cup Pairs({"or"}, {PageOf({A}), PageOf({C})})

Operands == Pages \cup Over(Over({PageOf({C})}))

(* The one page that links directly to C, found with its redirects         *)
(* resolved.                                                               *)
ResolvedLinks ==
  Constrained(UnaryOf("linkto", PageOf({C})), <<Con("directlink", TRUE), Con("resolveredir", TRUE)>>)

MCExpressions ==
  LET one == Over(Small)
      two == Over(one)
  IN Small \cup one \cup two \cup Over(two)
     \cup Pairs(Binaries, Operands)
     \cup {Constrained(e, l) : e \in Pairs({"exclude"}, Operands), l \in NsLists}
     \cup {Constrained(UnaryOf(op, PageOf({C})), <<c, d>>) :
             op \in Unaries, c \in Each, d \in Each}
     \cup {Constrained(Constrained(UnaryOf(op, PageOf({C})), <<c>>), <<d>>) :
             op \in Unaries, c \in Each, d \in Each}
     \cup {Constrained(UnaryOf(op, ResolvedLinks), l) : op \in Unaries, l \in NsLists}
     \cup {Constrained(BinaryOf("or", UnaryOf("link", PageOf({C})),
                                    Constrained(UnaryOf("toggle", PageOf({A})), <<c>>)), <<d, f>>) :
             c \in Limits, d \in Limits, f \in Limits}
=============================================================================
