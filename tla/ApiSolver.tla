------------------------------- MODULE ApiSolver -------------------------------
(***************************************************************************)
(* One call of the API solver (solver/apisolver.rs): what the wiki is asked *)
(* for an operation of a query on one page, and what becomes of the         *)
(* replies.  Links, backlinks, embedding pages and pages with a prefix take *)
(* one listing; the members of a category are collected by a breadth-first  *)
(* walk over subcategories, one listing per category, while editors change  *)
(* what is listed.                                                          *)
(*                                                                          *)
(* A listing takes as many requests as the wiki splits it into.  It shows   *)
(* every title that was there all the time and none that never was; of what *)
(* changes meanwhile, anything.  With a limit, the requests end when it is  *)
(* reached (APIService::get_limit), so that only a part is shown.           *)
(*                                                                          *)
(* A title has a namespace, t.ns.  No filter by namespace is the set of all *)
(* namespaces.  A title that cannot be written for the wiki (full_pretty    *)
(* gives None) lists nothing and is left out.                               *)
(***************************************************************************)
EXTENDS Integers, Sequences, FiniteSets

CONSTANTS
    Titles,       \* pages of the wiki
    Target,       \* where a page redirects to: itself if it is no redirect
    Direct,       \* pairs: the second links to the first, not to a redirect to it
    Calls,        \* calls that are tried
    Wikis,        \* what may be listed for each page at the beginning
    Editable,     \* pairs: the listing of the first may gain or lose the second
    Distances,    \* depths that the definition of reaching a category looks at
    MaxEdits      \* bound on editors' changes

Category == 14    \* solver/def.rs

Operations == {"link", "linkto", "embed", "incat", "prefix"}
Strategies == {"all", "redirects", "nonredirects"}

(* The arguments of a call.  Members and links are extracted as if without  *)
(* redirects; pages with a prefix are never resolved.                       *)
IsCall(c) ==
    /\ c.op \in Operations /\ c.title \in Titles
    /\ c.depth \in Int /\ c.limit \in Int
    /\ c.strat \in Strategies /\ c.level2 \in BOOLEAN /\ c.resolve \in BOOLEAN
    /\ c.op \in {"link", "incat"} => c.strat = "nonredirects"
    /\ c.op = "prefix" => ~c.resolve

ASSUME ApiSolverAssumption ==
    /\ IsFiniteSet(Titles)
    /\ Target \in [Titles -> Titles] /\ \A t \in Titles : Target[Target[t]] = Target[t]
    /\ Direct \subseteq Titles \X Titles
    /\ \A c \in Calls : IsCall(c)
    /\ Wikis \subseteq [Titles -> SUBSET Titles]
    /\ Editable \subseteq Titles \X Titles
    /\ Distances \subseteq Nat
    /\ MaxEdits \in Nat

VARIABLES
    call,         \* the arguments
    place,        \* where the call is
    queue,        \* visit_cat_queue, without the depths: they are in level
    level,        \* visited_cats: the depth of each visited title, else Far
    found,        \* result_set
    asking,       \* this_cat, the title whose listing is under way
    stable, seen, \* what it showed all the time, and what it ever showed
    wiki,         \* what would be listed for each page now
    always, ever, \* auxiliary: what would have been, at all times and at some time
    edits         \* changes editors have left

walk == <<place, queue, level, found, asking>>
vars == <<call, walk, stable, seen, wiki, always, ever, edits>>

Far == -1

Categories == {t \in Titles : t.ns = Category}
Running == {"next", "asked"}
Places == Running \cup {"done", "failed", "notcategory"}

(* Types; what is queued or asked about was visited.                        *)
TypeOK ==
    /\ call \in Calls
    /\ place \in Places
    /\ level \in [Titles -> Nat \cup {Far}]
    /\ queue \in Seq(Titles) /\ \A i \in DOMAIN queue : level[queue[i]] # Far
    /\ found \subseteq Titles
    /\ asking \in Titles /\ level[asking] # Far
    /\ stable \subseteq seen /\ seen \subseteq Titles
    /\ wiki \in [Titles -> SUBSET Titles]
    /\ always \in [Titles -> SUBSET Titles] /\ ever \in [Titles -> SUBSET Titles]
    /\ edits \in Nat

-----------------------------------------------------------------------------
(* What is asked for.                                                       *)

(* Whether the subcategories of a category at depth d are visited.          *)
Descends(d) == call.op = "incat" /\ (call.depth < 0 \/ d < call.depth)

IsRedirect(t) == Target[t] # t

(* The parameter ...filterredir.                                            *)
OfKind(t) ==
    /\ call.strat = "redirects" => IsRedirect(t)
    /\ call.strat = "nonredirects" => ~IsRedirect(t)

(* Backlinks of redirects ("level 2") are asked for with gblredirect.  Then *)
(* the wiki does not leave out the redirects among the direct backlinks:    *)
(* gblfilterredir=nonredirects is only applied to the second level.         *)
FirstLevel(t) ==
    call.op = "linkto" /\ call.level2 /\ <<call.title, t>> \in Direct

RightKind(t) ==
    \/ call.op \in {"link", "incat"}
    \/ OfKind(t)
    \/ call.strat = "nonredirects" /\ FirstLevel(t)

(* A prefix has a namespace of its own.                                     *)
OwnNamespace(t) == call.op = "prefix" => t.ns = call.title.ns

(* The parameter ...namespace.                                              *)
RightNamespace(t) == OwnNamespace(t) /\ t.ns \in call.ns

(* What the answer is asked from.  Backlinks of level 2 are listed for all  *)
(* namespaces, because the redirect may lie in one that is not asked for.   *)
Wanted(t) ==
    /\ RightKind(t)
    /\ RightNamespace(t) \/ (call.op = "linkto" /\ call.level2)

(* Mutant: subcategories are only asked for where the answer may have them. *)
Requested_Answer(t, d) == Wanted(t)

(* gcmtype and gcmnamespace: subcategories are also asked for where they    *)
(* are only needed for the walk.                                            *)
Requested(t, d) == Wanted(t) \/ (t.ns = Category /\ Descends(d))

(* The part of a listing that is asked for at depth d.                      *)
Shown(list, d) == {t \in list : Requested(t, d)}

-----------------------------------------------------------------------------
(* What becomes of a reply.                                                 *)

(* "pages" and "redirects" of a reply that listed the titles of set b.      *)
Pages(b) == IF call.resolve THEN {Target[t] : t \in b} ELSE b
Redirects(b) == {t \in b : IsRedirect(t)}

(* Mutant: the arms of the match are swapped. *)
Extracted_Swapped(b) ==
    IF call.resolve /\ call.strat = "nonredirects" THEN Redirects(b)
    ELSE IF call.resolve /\ call.strat = "redirects" THEN Pages(b)
    ELSE Pages(b) \cup (IF call.resolve THEN Redirects(b) ELSE {})

(* pages_object_to_titles_set.                                              *)
Extracted(b) ==
    (IF call.resolve /\ call.strat = "redirects" THEN {} ELSE Pages(b))
    \cup (IF call.resolve /\ call.strat # "nonredirects" THEN Redirects(b) ELSE {})

(* What is filtered after the reply: the namespaces of backlinks of level   *)
(* 2, and categories that were only asked for because of the walk.          *)
Kept(t) ==
    /\ call.op = "linkto" /\ call.level2 => t.ns \in call.ns
    /\ call.op = "incat" /\ t.ns = Category => Category \in call.ns

(* The titles a listing that showed set b adds to the result.               *)
Yield(b) == {t \in Extracted(b) : Kept(t)}

(* get_limit ends early once it has as many pages as the limit; a negative  *)
(* limit is none (limit_to_max).                                            *)
Enough(b) == call.limit >= 0 /\ Cardinality(Pages(b)) >= call.limit

(* What the requests of a listing may have shown in the end.                *)
Replies == {b \in SUBSET seen : stable \subseteq b \/ Enough(b)}

-----------------------------------------------------------------------------
(* The walk.  For other operations it ends after the first listing.         *)

Init ==
    /\ call \in Calls
    /\ place = "next"
    /\ queue = <<call.title>>
    /\ level = [t \in Titles |-> IF t = call.title THEN 0 ELSE Far]
    /\ found = {}
    /\ asking = call.title
    /\ stable = {} /\ seen = {}
    /\ wiki \in Wikis
    /\ always = wiki /\ ever = wiki
    /\ edits = MaxEdits

Ends(as) ==
    /\ place' = as
    /\ UNCHANGED <<call, queue, level, found, asking, stable, seen, wiki, always,
                   ever, edits>>

(* Mutant: the title is looked at and stays in the queue. *)
Popped_Peek == queue

(* pop_front.                                                               *)
Popped == Tail(queue)
Upcoming == Head(queue)

(* The first request for the next title goes out.                           *)
Ask ==
    /\ place = "next" /\ queue # <<>>
    /\ call.op = "incat" => Upcoming.ns = Category
    /\ call.op = "prefix" => Upcoming.ns \in call.ns
    /\ place' = "asked"
    /\ asking' = Upcoming
    /\ queue' = Popped
    /\ seen' = Shown(wiki[Upcoming], level[Upcoming])
    /\ stable' = seen'
    /\ UNCHANGED <<call, level, found, wiki, always, ever, edits>>

(* Nothing is asked for a prefix outside the namespaces wanted.             *)
NothingToAsk ==
    /\ place = "next" /\ queue # <<>>
    /\ call.op = "prefix" /\ Upcoming.ns \notin call.ns
    /\ Ends("done")

NotCategory ==
    /\ place = "next" /\ queue # <<>>
    /\ call.op = "incat" /\ Upcoming.ns # Category
    /\ Ends("notcategory")

(* The ways a set may be iterated over.                                     *)
Orders(S) == {o \in [1 .. Cardinality(S) -> S] : {o[i] : i \in DOMAIN o} = S}

(* Mutant: it is not looked up whether a category was met. *)
Unvisited_Forgets(titles) == titles \cap Categories

(* Categories that were not met before.                                     *)
Unvisited(titles) == {t \in titles \cap Categories : level[t] = Far}

(* Subcategories to be visited after a reply.                               *)
Subcategories(b) ==
    IF Descends(level[asking]) THEN Unvisited(Extracted(b)) ELSE {}

(* Mutant: a category that is queued is not marked as visited. *)
Visited_Forgets(new) == level

(* Mutant: the depth is that of the category itself. *)
Visited_SameDepth(new) == [t \in Titles |-> IF t \in new THEN level[asking] ELSE level[t]]

(* visited_cats with the categories that are queued, one level below.       *)
Visited(new) == [t \in Titles |-> IF t \in new THEN level[asking] + 1 ELSE level[t]]

(* The last request of the listing has been answered.                       *)
Receive ==
    /\ place = "asked" /\ place' = "next"
    /\ \E b \in Replies :
         LET new == Subcategories(b)
         IN /\ \E o \in Orders(new) : queue' = queue \o o
            /\ level' = Visited(new)
            /\ found' = found \cup Yield(b)
    /\ UNCHANGED <<call, asking, stable, seen, wiki, always, ever, edits>>

(* A request, or the making of a title for it, fails.                       *)
Fail == place = "asked" /\ Ends("failed")

Finish == place = "next" /\ queue = <<>> /\ Ends("done")

(* An editor adds title t to what is listed for c, or takes it away.        *)
Edit(c, t) ==
    LET put(list) == IF t \in wiki[c] THEN list \ {t} ELSE list
        add(list) == IF t \in wiki[c] THEN list ELSE list \cup {t}
    IN /\ place \in Running
       /\ edits > 0 /\ edits' = edits - 1
       /\ wiki' = [wiki EXCEPT ![c] = put(add(@))]
       /\ always' = [always EXCEPT ![c] = put(@)]
       /\ ever' = [ever EXCEPT ![c] = add(@)]
       /\ IF place = "asked" /\ c = asking /\ Requested(t, level[asking])
          THEN stable' = put(stable) /\ seen' = add(seen)
          ELSE UNCHANGED <<stable, seen>>
       /\ UNCHANGED <<call, walk>>

Step == Ask \/ NothingToAsk \/ NotCategory \/ Receive \/ Fail \/ Finish

Next == Step \/ \E e \in Editable : Edit(e[1], e[2])

Spec == Init /\ [][Next]_vars

(* Every request is answered or fails, and the solver goes on.              *)
FairSpec == Spec /\ WF_vars(Step)
-----------------------------------------------------------------------------
(* What the walk should find in listings that stay as they are: lists says  *)
(* what is listed for each page.                                            *)

Nodes == Categories \cup {call.title}

(* Subcategories in a listing, under their own names or behind redirects.   *)
Below(list) ==
    Extracted({t \in list : Wanted(t) \/ t.ns = Category}) \cap Categories

Edges(lists) == UNION {{<<c, s>> : s \in Below(lists[c])} : c \in Nodes}

(* Depths, and Far for categories that are left out, that fit the edges: no *)
(* category that is reached is left out or given too large a depth.         *)
Closed(edges) ==
    {S \in [Nodes -> Distances \cup {Far}] :
       /\ S[call.title] = 0
       /\ \A e \in edges :
            S[e[1]] # Far /\ Descends(S[e[1]]) =>
               S[e[2]] # Far /\ S[e[2]] <= S[e[1]] + 1}

(* The categories that cannot be left out.                                  *)
LeftOut(S) == {c \in Nodes : S[c] = Far}
Reached(lists) == Nodes \ UNION {LeftOut(S) : S \in Closed(Edges(lists))}

(* The answer, and with it the targets of redirects from categories, which  *)
(* a call that resolves redirects and descends also yields.                 *)
Answer(lists) ==
    UNION {Yield({t \in lists[c] : Wanted(t)}) : c \in Reached(lists)}

LooseAnswer(lists) ==
    UNION {Yield({t \in lists[c] : Wanted(t) \/ (call.op = "incat" /\ t.ns = Category)}) :
             c \in Reached(lists)}

-----------------------------------------------------------------------------
(* The listings are taken one after the other (apisolver.rs:182), so an     *)
(* answer belongs to no moment of the wiki.  Still, what is reached at all  *)
(* times, through listings that were there all the time, is in it, at       *)
(* whatever depths and in whatever order the categories were met.  Only a   *)
(* limit that has been reached excuses a missing page; pages that are       *)
(* filtered after the reply have used it up as well.                        *)
NothingMissed ==
    place = "done" =>
      \/ Answer(always) \subseteq found
      \/ call.limit >= 0 /\ Cardinality(found) >= call.limit
      \/ call.limit >= 0 /\ \E t \in Titles : ~Kept(t)

(* Nothing is in an answer that was not reached through listings as they    *)
(* were at some time: while nobody edits, the answer is that of the walk    *)
(* over the whole wiki, although categories contain each other.             *)
NothingStrange == place \notin Running => found \subseteq LooseAnswer(ever)

(* What the parameters promise of the answer.  The filter by namespace is   *)
(* applied by the wiki before redirects are resolved (apisolver.rs:50): a   *)
(* page outside the namespaces is the target of a redirect inside, or of a  *)
(* category's.  The filter by redirects holds after resolution; without it, *)
(* a direct backlink that is a redirect passes .noredir() (apisolver.rs:89).*)
FiltersKept ==
    \A t \in found :
      /\ \/ t.ns \in call.ns
         \/ /\ call.resolve
            /\ \E r \in Titles : /\ Target[r] = t /\ IsRedirect(r)
                                /\ r.ns \in call.ns \cup {Category}
      /\ call.strat = "redirects" => IsRedirect(t)
      /\ call.strat = "nonredirects" /\ (call.resolve \/ call.op \notin {"link", "incat"})
           => ~IsRedirect(t) \/ (~call.resolve /\ FirstLevel(t))

(* Categories may contain themselves through others (apisolver.rs:134):     *)
(* each is asked for once, so a category that was taken from the queue      *)
(* never enters it again.                                                   *)
Waiting == {queue[i] : i \in DOMAIN queue}
AskedOnce ==
    [][ /\ Cardinality(Waiting') = Len(queue')
        /\ \A t \in Titles : level[t] # Far /\ t \notin Waiting => t \notin Waiting'
      ]_queue

(* The walk ends although there may be cycles and no limit to the depth,    *)
(* once editors stop for long enough.                                       *)
WalkEnds == <>(place \notin Running)
=============================================================================
