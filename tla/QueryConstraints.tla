--------------------------- MODULE QueryConstraints ---------------------------
(***************************************************************************)
(* The constraints of a query: what may be written behind an expression    *)
(* (.ns(..), .depth(..), .noredir(), .direct(), .resolve(), .limit(..)),   *)
(* how the constraints of one list are put together, how those of nested   *)
(* expressions are merged, and which operation admits which of them        *)
(* (parser/optim.rs, parser/convert.rs).                                   *)
(*                                                                         *)
(* A constraint is a record with a field for each kind; None stands for a  *)
(* kind that was not given.  Nothing here is recursive.                    *)
(***************************************************************************)
EXTENDS Integers, Sequences

CONSTANTS None, Namespaces

ASSUME NamespacesAreNumbers == Namespaces \subseteq Int
ASSUME NoneIsNoValue ==
  None \notin Int /\ None \notin BOOLEAN /\ \A N \in SUBSET Namespaces : None # N

(* The constraints the program can hold: limits and depths are integers of *)
(* either sign.                                                            *)
Constraints ==
  [ns : {None} \cup SUBSET Namespaces, depth : {None} \cup Int,
   redir : {None, "nonredirects", "redirects", "all"}, directlink : {None} \cup BOOLEAN,
   resolveredir : {None} \cup BOOLEAN, limit : {None} \cup Int]

(* SetConstraint::new.                                                     *)
NoConstraint == [ns |-> None, depth |-> None, redir |-> None,
                 directlink |-> None, resolveredir |-> None, limit |-> None]

(* Intersection of two namespace filters, if both are given.               *)
MergeNs(a, b) == IF a = None THEN b
                 ELSE IF b = None THEN a
                 ELSE a \cap b

(* Mutant: a negative limit is taken for the smaller one.                  *)
MergeLimit_Min(a, b) == IF a = None THEN b
                        ELSE IF b = None THEN a
                        ELSE IF a < b THEN a ELSE b

(* A negative limit is no limit; of two limits the smaller one remains.    *)
MergeLimit(a, b) == IF a = None \/ a < 0 THEN b
                    ELSE IF b = None \/ b < 0 THEN a
                    ELSE IF a < b THEN a ELSE b

(* Within one list only the earlier limit is looked at for being negative: *)
(* a later negative limit is the smaller one.                              *)
LimitInList(a, b) == IF a = None \/ a < 0 THEN b
                     ELSE IF a < b THEN a ELSE b

(* All negative depths mean the whole tree, and agree.                     *)
DepthsAgree(a, b) == a = b \/ (a < 0 /\ b < 0)

(* The two can be merged: what both give agrees.  Filters by namespace and *)
(* limits always do.                                                       *)
Compatible(a, b) ==
  \A k \in {"depth", "redir", "directlink", "resolveredir"} :
    \/ a[k] = None
    \/ b[k] = None
    \/ a[k] = b[k]
    \/ k = "depth" /\ DepthsAgree(a[k], b[k])

(* Of two compatible constraints; of what both give, the first is kept.    *)
Merge(a, b) ==
  LET First(v, w) == IF v = None THEN w ELSE v
  IN [ns |-> MergeNs(a.ns, b.ns),
      depth |-> First(a.depth, b.depth),
      redir |-> First(a.redir, b.redir),
      directlink |-> First(a.directlink, b.directlink),
      resolveredir |-> First(a.resolveredir, b.resolveredir),
      limit |-> MergeLimit(a.limit, b.limit)]

(* One element of a list of constraints, as a constraint.                  *)
Only(c) == [NoConstraint EXCEPT ![c.kind] = c.value]

(* The constraint a list stands for, its elements put together from left   *)
(* to right, and whether the list is free of conflicts.                    *)
FromList(list) ==
  LET upto[n \in 0 .. Len(list)] ==
        IF n = 0 THEN NoConstraint
        ELSE [Merge(upto[n - 1], Only(list[n])) EXCEPT !.limit =
                IF list[n].kind = "limit" THEN LimitInList(upto[n - 1].limit, list[n].value)
                                          ELSE upto[n - 1].limit]
  IN upto[Len(list)]

Consistent(list) ==
  \A i, j \in DOMAIN list : Compatible(Only(list[i]), Only(list[j]))

(* The elements a list may have.                                           *)
Elements ==
  [kind : {"ns"}, value : SUBSET Namespaces]
    \cup [kind : {"depth", "limit"}, value : Int]
    \cup [kind : {"redir"}, value : {"nonredirects", "redirects", "all"}]
    \cup [kind : {"directlink", "resolveredir"}, value : BOOLEAN]

(* Title t is in the namespaces that con admits.                           *)
Passes(t, con) == con.ns = None \/ t.ns \in con.ns

(* The kinds an operation refuses.  Links and categories would accept the  *)
(* redirect strategy "all", which no query can write.                      *)
Refused ==
  [link   |-> {"depth", "directlink", "redir"},
   linkto |-> {"depth"},
   embed  |-> {"depth", "directlink"},
   incat  |-> {"redir", "directlink"},
   prefix |-> {"depth", "directlink", "resolveredir"},
   set    |-> {"depth", "redir", "directlink", "resolveredir"}]

Admits(code, con) ==
  \A k \in Refused[code] :
    con[k] = None \/ (k = "redir" /\ code \in {"link", "incat"} /\ con[k] = "all")
=============================================================================
