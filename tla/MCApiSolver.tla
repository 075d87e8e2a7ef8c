----------------------------- MODULE MCApiSolver -----------------------------
(* A small wiki: categories that contain each other, pages, and redirects   *)
(* from a page and from a category.                                         *)
EXTENDS ApiSolver

Title(n, name) == [ns |-> n, name |-> name]
Root == Title(14, "Root")
Sub == Title(14, "Sub")
Deep == Title(14, "Deep")
Page == Title(0, "Page")
Project == Title(4, "Project")
ToDeep == Title(0, "ToDeep")         \* redirects to category Deep
ToProject == Title(14, "ToProject")  \* a category's page redirects to Project
MCTitles == {Root, Sub, Deep, Page, Project, ToDeep, ToProject}

MCTarget == [t \in MCTitles |-> IF t = ToDeep THEN Deep
                                ELSE IF t = ToProject THEN Project ELSE t]

(* Both redirects are backlinks of Page in the second wiki; ToProject links *)
(* to it, ToDeep to a redirect to it.                                       *)
MCDirect == {<<Page, t>> : t \in MCTitles \ {ToDeep}}

Listing(root, sub, deep, page) ==
  [t \in MCTitles |-> CASE t = Root -> root [] t = Sub -> sub [] t = Deep -> deep
                        [] t = Page -> page [] OTHER -> {}]

(* Deep is reached at depths 1 and 2, by a redirect and as a member.        *)
MCWikis ==
  { Listing({Sub, Deep, Page}, {Root, Deep, Project}, {Sub, Page, ToProject}, {}),
    Listing({Sub, ToDeep}, {Deep, ToProject}, {Root, Page}, MCTitles) }

MCEditable == {<<Root, Deep>>, <<Sub, Deep>>, <<Deep, Page>>, <<Page, ToDeep>>}

Call(op, title, ns, depth, strat, level2, resolve, limit) ==
  [op |-> op, title |-> title, ns |-> ns, depth |-> depth, strat |-> strat,
   level2 |-> level2, resolve |-> resolve, limit |-> limit]

All == {0, 4, 14}
Filters == {All, {0}, {14}}

MCCalls ==
  {Call("incat", Root, ns, depth, "nonredirects", FALSE, r, limit) :
     ns \in Filters, depth \in {0, 1, 2, -1}, r \in BOOLEAN, limit \in {-1, 1}}
  \cup {Call("linkto", Page, ns, 0, s, l, r, limit) :
     ns \in Filters, s \in Strategies, l \in BOOLEAN, r \in BOOLEAN, limit \in {-1, 2}}
  \cup {Call("embed", Page, {0}, 0, s, FALSE, r, -1) : s \in Strategies, r \in BOOLEAN}
  \cup {Call("prefix", Page, ns, 0, s, FALSE, FALSE, -1) : s \in Strategies, ns \in Filters}
  \cup {Call("link", Page, {0}, 0, "nonredirects", FALSE, r, -1) : r \in BOOLEAN}
  \cup {Call("incat", Page, All, 0, "nonredirects", FALSE, FALSE, -1)}
=============================================================================
