--------------------------- MODULE ApiSolverProofs ---------------------------
(***************************************************************************)
(* Proofs about ApiSolver for any wiki, any call and any number of edits.   *)
(***************************************************************************)
EXTENDS ApiSolver, TLAPS, FiniteSetTheorems

-----------------------------------------------------------------------------
(* Replies.                                                                 *)

(* What is extracted from titles are titles.                                *)
LEMMA ExtractedType ==
    ASSUME NEW b \in SUBSET Titles
    PROVE  Extracted(b) \subseteq Titles /\ Pages(b) \subseteq Titles
  <1>1. \A t \in b : Target[t] \in Titles
    BY ApiSolverAssumption
  <1> QED
    BY <1>1 DEF Extracted, Pages, Redirects

(* A reply that shows more yields more.                                     *)
LEMMA ExtractedGrows ==
    ASSUME NEW a, NEW b, a \subseteq b
    PROVE  Extracted(a) \subseteq Extracted(b) /\ Yield(a) \subseteq Yield(b)
  BY DEF Extracted, Yield, Pages, Redirects

(* The operators only look at the arguments of the call.                    *)
LEMMA SameCall ==
    ASSUME call' = call
    PROVE  /\ \A d : Descends(d)' <=> Descends(d)
           /\ \A t : Wanted(t)' <=> Wanted(t)
           /\ \A t : Kept(t)' <=> Kept(t)
           /\ \A list, d : Shown(list, d)' = Shown(list, d)
           /\ \A b : Extracted(b)' = Extracted(b)
           /\ \A b : Yield(b)' = Yield(b)
  <1>1. \A d : Descends(d)' <=> Descends(d)
    BY DEF Descends
  <1>2. \A t : Wanted(t)' <=> Wanted(t)
    BY DEF Wanted, RightKind, OfKind, FirstLevel, RightNamespace, OwnNamespace
  <1>3. \A t : Kept(t)' <=> Kept(t)
    BY DEF Kept
  <1>4. \A list, d : Shown(list, d)' = Shown(list, d)
    BY <1>1, <1>2 DEF Shown, Requested
  <1>5. \A b : Extracted(b)' = Extracted(b)
    BY DEF Extracted, Pages, Redirects
  <1>6. \A b : Yield(b)' = Yield(b)
    BY <1>3, <1>5 DEF Yield
  <1> QED
    BY <1>1, <1>2, <1>3, <1>4, <1>5, <1>6

(* So do those on the graph of categories.                                  *)
LEMMA SameGraph ==
    ASSUME call' = call
    PROVE  /\ Nodes' = Nodes
           /\ \A lists : Closed(Edges(lists))' = Closed(Edges(lists))
           /\ \A lists : LooseAnswer(lists)' = LooseAnswer(lists)
  <1>1. Nodes' = Nodes
    BY DEF Nodes
  <1>2. \A list : Below(list)' = Below(list)
    BY SameCall DEF Below
  <1>3. \A lists : Edges(lists)' = Edges(lists)
    BY <1>1, <1>2 DEF Edges
  <1>4. \A E : Closed(E)' = Closed(E)
    BY <1>1, SameCall DEF Closed
  <1>5. \A lists : Closed(Edges(lists))' = Closed(Edges(lists))
    BY <1>3, <1>4
  <1>6. \A S : LeftOut(S)' = LeftOut(S)
    BY <1>1 DEF LeftOut
  <1>7. \A lists : Reached(lists)' = Reached(lists)
    BY <1>1, <1>5, <1>6 DEF Reached
  <1>8. \A lists : LooseAnswer(lists)' = LooseAnswer(lists)
    BY <1>7, SameCall DEF LooseAnswer
  <1> QED
    BY <1>1, <1>5, <1>8

(* Longer listings reach more.                                              *)
LEMMA LooseAnswerGrows ==
    ASSUME NEW l1, NEW l2, \A c \in Nodes : l1[c] \subseteq l2[c]
    PROVE  /\ Closed(Edges(l2)) \subseteq Closed(Edges(l1))
           /\ LooseAnswer(l1) \subseteq LooseAnswer(l2)
  <1>1. \A c \in Nodes : Below(l1[c]) \subseteq Below(l2[c])
    BY ExtractedGrows DEF Below
  <1>2. Edges(l1) \subseteq Edges(l2)
    BY <1>1 DEF Edges
  <1>3. Closed(Edges(l2)) \subseteq Closed(Edges(l1))
    BY <1>2 DEF Closed
  <1>4. Reached(l1) \subseteq Reached(l2)
    BY <1>3 DEF Reached
  <1>5. Reached(l1) \subseteq Nodes
    BY DEF Reached
  <1>6. ASSUME NEW t \in LooseAnswer(l1) PROVE t \in LooseAnswer(l2)
    <2> DEFINE part(l, c) ==
                 {u \in l[c] : Wanted(u) \/ (call.op = "incat" /\ u.ns = Category)}
    <2>1. PICK c \in Reached(l1) : t \in Yield(part(l1, c))
      BY <1>6 DEF LooseAnswer
    <2>2. part(l1, c) \subseteq part(l2, c)
      BY <1>5
    <2>3. t \in Yield(part(l2, c))
      BY <2>1, <2>2, ExtractedGrows
    <2> QED
      BY <1>4, <2>3 DEF LooseAnswer
  <1> QED
    BY <1>3, <1>6

(* A set that may be iterated over in some order.                           *)
LEMMA OrderType ==
    ASSUME NEW S \in SUBSET Titles, NEW o \in Orders(S)
    PROVE  /\ o \in Seq(Titles)
           /\ \A i \in 1 .. Len(o) : o[i] \in S
           /\ \A x \in S : \E i \in 1 .. Len(o) : o[i] = x
           /\ \A i, j \in 1 .. Len(o) : o[i] = o[j] => i = j
  <1>1. IsFiniteSet(S) /\ Cardinality(S) \in Nat
    BY ApiSolverAssumption, FS_Subset, FS_CardinalityType
  <1>2. o \in [1 .. Cardinality(S) -> S] /\ {o[i] : i \in DOMAIN o} = S
    BY DEF Orders
  <1>3. o \in Seq(S) /\ Len(o) = Cardinality(S)
    BY <1>1, <1>2
  <1>4. o \in Injection(1 .. Cardinality(S), S)
    <2>1. o \in Surjection(1 .. Cardinality(S), S)
      BY <1>2 DEF Surjection
    <2>2. /\ IsFiniteSet(1 .. Cardinality(S))
          /\ Cardinality(1 .. Cardinality(S)) = Cardinality(S)
      BY <1>1, FS_Interval
    <2> QED
      BY <2>1, <2>2, FS_Surjection
  <1>5. \A i, j \in 1 .. Len(o) : o[i] = o[j] => i = j
    BY <1>3, <1>4 DEF Injection, IsInjective
  <1> QED
    BY <1>2, <1>3, <1>5

-----------------------------------------------------------------------------
(* Type correctness.                                                        *)
LEMMA TypeInit == Init => TypeOK
  BY ApiSolverAssumption DEF Init, TypeOK, Places, Running, IsCall, Far

(* What a reply does: subcategories b leads to, in order o, enter the queue *)
(* one level below; everything else stays.                                  *)
LEMMA Receiving ==
    ASSUME TypeOK, Receive
    PROVE  \E b \in Replies : \E o \in Seq(Titles) :
             /\ b \subseteq seen /\ b \subseteq Titles
             /\ Subcategories(b) \subseteq Titles
             /\ \A i \in 1 .. Len(o) : o[i] \in Subcategories(b)
             /\ \A x \in Subcategories(b) : \E i \in 1 .. Len(o) : o[i] = x
             /\ \A i, j \in 1 .. Len(o) : o[i] = o[j] => i = j
             /\ queue' = queue \o o
             /\ found' = found \cup Yield(b) /\ Yield(b) \subseteq Titles
             /\ level' = [t \in Titles |-> IF t \in Subcategories(b)
                                          THEN level[asking] + 1 ELSE level[t]]
             /\ level[asking] \in Nat
             /\ \A t \in Subcategories(b) : level[t] = Far
  <1>1. PICK b \in Replies :
          LET new == Subcategories(b)
          IN /\ \E o \in Orders(new) : queue' = queue \o o
             /\ level' = Visited(new)
             /\ found' = found \cup Yield(b)
    BY DEF Receive
  <1> DEFINE new == Subcategories(b)
  <1>2. b \subseteq seen /\ b \subseteq Titles
    BY <1>1 DEF Replies, TypeOK
  <1>3. Extracted(b) \subseteq Titles /\ Yield(b) \subseteq Titles
    BY <1>2, ExtractedType DEF Yield
  <1>4. new \subseteq Titles /\ \A t \in new : level[t] = Far
    BY <1>3 DEF Subcategories, Unvisited
  <1>5. PICK o \in Orders(new) : queue' = queue \o o
    BY <1>1
  <1>6. /\ o \in Seq(Titles)
        /\ \A i \in 1 .. Len(o) : o[i] \in new
        /\ \A x \in new : \E i \in 1 .. Len(o) : o[i] = x
        /\ \A i, j \in 1 .. Len(o) : o[i] = o[j] => i = j
    BY <1>4, OrderType
  <1>7. level[asking] \in Nat
    BY DEF TypeOK
  <1> QED
    BY <1>1, <1>2, <1>3, <1>4, <1>5, <1>6, <1>7 DEF Visited

LEMMA TypeReceive ==
    ASSUME TypeOK, Receive
    PROVE  TypeOK'
  <1>1. PICK b \in Replies, o \in Seq(Titles) :
             /\ \A i \in 1 .. Len(o) : o[i] \in Subcategories(b)
             /\ queue' = queue \o o
             /\ found' = found \cup Yield(b) /\ Yield(b) \subseteq Titles
             /\ level' = [t \in Titles |-> IF t \in Subcategories(b)
                                          THEN level[asking] + 1 ELSE level[t]]
             /\ level[asking] \in Nat
    BY Receiving
  <1>2. /\ level' \in [Titles -> Nat \cup {Far}]
        /\ \A t \in Titles : level[t] # Far \/ t \in Subcategories(b) => level'[t] # Far
    BY <1>1 DEF TypeOK, Far
  <1>3. queue' \in Seq(Titles) /\ Len(queue') = Len(queue) + Len(o)
    BY <1>1 DEF TypeOK
  <1>4. ASSUME NEW i \in DOMAIN queue' PROVE level'[queue'[i]] # Far
    <2>1. CASE i <= Len(queue)
      BY <1>1, <1>2, <1>3, <2>1 DEF TypeOK
    <2>2. CASE i > Len(queue)
      <3>1. i - Len(queue) \in 1 .. Len(o) /\ queue'[i] = o[i - Len(queue)]
        BY <1>1, <1>3, <2>2 DEF TypeOK
      <3> QED
        BY <1>1, <1>2, <3>1
    <2> QED
      BY <1>3, <2>1, <2>2 DEF TypeOK
  <1>5. UNCHANGED <<call, asking, stable, seen, wiki, always, ever, edits>> /\ place' = "next"
    BY DEF Receive
  <1> QED
    BY <1>1, <1>2, <1>3, <1>4, <1>5 DEF TypeOK, Places, Running

LEMMA TypeAsk ==
    ASSUME TypeOK, Ask
    PROVE  TypeOK'
  <1>1. /\ Upcoming = queue[1] /\ Upcoming \in Titles /\ level[Upcoming] # Far
        /\ queue' \in Seq(Titles) /\ Len(queue') = Len(queue) - 1
        /\ \A i \in DOMAIN queue' : i + 1 \in DOMAIN queue /\ queue'[i] = queue[i + 1]
    BY DEF TypeOK, Ask, Upcoming, Popped
  <1>2. \A i \in DOMAIN queue' : level[queue'[i]] # Far
    BY <1>1 DEF TypeOK
  <1>3. seen' \subseteq Titles /\ stable' = seen'
    BY <1>1 DEF TypeOK, Ask, Shown
  <1> QED
    BY <1>1, <1>2, <1>3 DEF TypeOK, Ask, Places, Running

LEMMA TypeEdit ==
    ASSUME TypeOK, NEW e \in Editable, Edit(e[1], e[2])
    PROVE  TypeOK'
  <1>1. e[1] \in Titles /\ e[2] \in Titles
    BY ApiSolverAssumption
  <1>2. wiki[e[1]] \subseteq Titles /\ always[e[1]] \subseteq Titles /\ ever[e[1]] \subseteq Titles
    BY <1>1 DEF TypeOK
  <1>3. /\ wiki' \in [Titles -> SUBSET Titles]
        /\ always' \in [Titles -> SUBSET Titles]
        /\ ever' \in [Titles -> SUBSET Titles]
    BY <1>1, <1>2 DEF TypeOK, Edit
  <1>4. stable' \subseteq seen' /\ seen' \subseteq Titles
    BY <1>1 DEF TypeOK, Edit
  <1>5. edits' \in Nat
    BY DEF TypeOK, Edit
  <1> QED
    BY <1>3, <1>4, <1>5 DEF TypeOK, Edit, walk

LEMMA TypeNext == TypeOK /\ [Next]_vars => TypeOK'
  <1> SUFFICES ASSUME TypeOK, [Next]_vars PROVE TypeOK'
    OBVIOUS
  <1>1. CASE Ask
    BY <1>1, TypeAsk
  <1>2. CASE NothingToAsk
    BY <1>2 DEF NothingToAsk, Ends, TypeOK, Places
  <1>3. CASE NotCategory
    BY <1>3 DEF NotCategory, Ends, TypeOK, Places
  <1>4. CASE Receive
    BY <1>4, TypeReceive
  <1>5. CASE Fail
    BY <1>5 DEF Fail, Ends, TypeOK, Places
  <1>6. CASE Finish
    BY <1>6 DEF Finish, Ends, TypeOK, Places
  <1>7. CASE \E e \in Editable : Edit(e[1], e[2])
    BY <1>7, TypeEdit
  <1>8. CASE UNCHANGED vars
    BY <1>8 DEF vars, walk, TypeOK
  <1> QED
    BY <1>1, <1>2, <1>3, <1>4, <1>5, <1>6, <1>7, <1>8 DEF Next, Step

(* The state of a call has its type: in particular everything that is       *)
(* queued or asked about was marked as visited.                             *)
THEOREM TypeCorrect == Spec => []TypeOK
  BY TypeInit, TypeNext, PTL DEF Spec

-----------------------------------------------------------------------------
(* The invariant.                                                           *)

(* Only the title of the call and categories are visited, and without a     *)
(* walk only the title.                                                     *)
VisitedNodes ==
    /\ level[call.title] = 0
    /\ \A t \in Titles : level[t] # Far => t \in Nodes
    /\ call.op # "incat" => \A t \in Titles : level[t] # Far => t = call.title

(* The depths in the queue do not decrease, and nothing that was visited is *)
(* more than one level below what is looked at next.                        *)
BreadthFirst ==
    /\ \A i, j \in DOMAIN queue : i <= j => level[queue[i]] <= level[queue[j]]
    /\ place = "asked" =>
         /\ \A i \in DOMAIN queue : level[asking] <= level[queue[i]]
         /\ \A t \in Titles : level[t] <= level[asking] + 1
    /\ place = "next" /\ queue # <<>> =>
         \A t \in Titles : level[t] <= level[queue[1]] + 1

(* What was listed all the time is listed now, and so at some time.         *)
History == \A c \in Titles : always[c] \subseteq wiki[c] /\ wiki[c] \subseteq ever[c]

(* The same for the time of a listing.                                      *)
Window ==
    place = "asked" =>
      /\ Shown(always[asking], level[asking]) \subseteq stable
      /\ seen \subseteq Shown(ever[asking], level[asking])

Finished(t) ==
    level[t] # Far /\ t \notin Waiting /\ ~(place = "asked" /\ t = asking)

(* The result has what was listed for c all the time, and the walk has met  *)
(* the subcategories among it, no later than at the next level.             *)
Complete(c) ==
    /\ Yield(Shown(always[c], level[c])) \subseteq found
    /\ Descends(level[c]) =>
         \A s \in Extracted(Shown(always[c], level[c])) \cap Categories :
           level[s] # Far /\ level[s] <= level[c] + 1

LimitReached ==
    /\ call.limit >= 0
    /\ Cardinality(found) >= call.limit \/ \E t \in Titles : ~Kept(t)

CompleteOrLimited ==
    place \in Running \cup {"done"} =>
      (\A c \in Titles : Finished(c) => Complete(c)) \/ LimitReached

DoneMeans ==
    place = "done" =>
      queue = <<>> \/ (call.op = "prefix" /\ call.title.ns \notin call.ns)

(* No depths that fit what was ever listed leave out a visited category or  *)
(* give it a greater depth.                                                 *)
LeastDepth ==
    \A S \in Closed(Edges(ever)) :
      \A t \in Titles : level[t] # Far => S[t] # Far /\ S[t] <= level[t]

OnlyReached == found \subseteq LooseAnswer(ever)

IInv ==
    /\ TypeOK /\ VisitedNodes /\ BreadthFirst /\ History /\ Window
    /\ CompleteOrLimited /\ DoneMeans /\ LeastDepth /\ OnlyReached

-----------------------------------------------------------------------------
LEMMA InvInit == Init => IInv
  <1> SUFFICES ASSUME Init PROVE IInv
    OBVIOUS
  <1>1. TypeOK
    BY TypeInit
  <1>2. call.title \in Titles /\ call.title \in Nodes
    BY ApiSolverAssumption DEF Init, IsCall, Nodes
  <1>3. VisitedNodes
    BY <1>2 DEF Init, VisitedNodes
  <1>4. BreadthFirst
    BY <1>1, <1>2 DEF Init, BreadthFirst, Far
  <1>5. History /\ Window /\ DoneMeans
    BY DEF Init, History, Window, DoneMeans
  <1>6. \A t \in Titles : ~Finished(t)
    <2>1. call.title \in Waiting
      BY DEF Init, Waiting
    <2> QED
      BY <2>1 DEF Init, Finished
  <1>7. LeastDepth
    BY <1>2 DEF Init, LeastDepth, Closed, Far
  <1>8. OnlyReached
    BY DEF Init, OnlyReached
  <1> QED
    BY <1>1, <1>3, <1>4, <1>5, <1>6, <1>7, <1>8 DEF IInv, CompleteOrLimited

(* A call that ends keeps its result; unless a request failed, everything   *)
(* was asked for or nothing had to be.                                      *)
LEMMA InvEnds ==
    ASSUME IInv, NothingToAsk \/ NotCategory \/ Fail \/ Finish
    PROVE  IInv'
  <1>1. /\ place' \in {"done", "failed", "notcategory"}
        /\ UNCHANGED <<call, queue, level, found, asking, stable, seen, wiki, always,
                       ever, edits>>
    BY DEF NothingToAsk, NotCategory, Fail, Finish, Ends
  <1>2. TypeOK'
    BY TypeNext DEF IInv, Next, Step
  <1>3. VisitedNodes' /\ History' /\ Window'
    BY <1>1, SameGraph DEF IInv, VisitedNodes, History, Window
  <1>4. BreadthFirst'
    BY <1>1 DEF IInv, BreadthFirst
  <1>5. CompleteOrLimited'
    <2> SUFFICES ASSUME place' = "done"
                 PROVE  (\A c \in Titles : Finished(c)' => Complete(c)') \/ LimitReached'
      BY <1>1 DEF CompleteOrLimited, Running
    <2>1. place = "next"
      BY DEF NothingToAsk, NotCategory, Fail, Finish, Ends
    <2>2. \A c : Finished(c)' => Finished(c)
      BY <1>1, <2>1 DEF Finished, Waiting
    <2>3. \A c : Complete(c) => Complete(c)'
      BY <1>1, SameCall DEF Complete
    <2>4. LimitReached => LimitReached'
      BY <1>1, SameCall DEF LimitReached
    <2> QED
      BY <2>1, <2>2, <2>3, <2>4 DEF IInv, CompleteOrLimited, Running
  <1>6. DoneMeans'
    <2>1. CASE Finish
      BY <1>1, <2>1 DEF Finish, DoneMeans
    <2>2. CASE NothingToAsk
      <3>1. Upcoming \in Titles /\ level[Upcoming] # Far
        BY <2>2 DEF IInv, TypeOK, NothingToAsk, Upcoming
      <3>2. Upcoming = call.title
        BY <2>2, <3>1 DEF IInv, VisitedNodes, NothingToAsk
      <3> QED
        BY <1>1, <2>2, <3>2 DEF NothingToAsk, DoneMeans
    <2>3. CASE NotCategory \/ Fail
      BY <2>3 DEF NotCategory, Fail, Ends, DoneMeans
    <2> QED
      BY <2>1, <2>2, <2>3
  <1>7. LeastDepth' /\ OnlyReached'
    BY <1>1, SameGraph DEF IInv, LeastDepth, OnlyReached
  <1> QED
    BY <1>2, <1>3, <1>4, <1>5, <1>6, <1>7 DEF IInv

LEMMA InvAsk ==
    ASSUME IInv, Ask
    PROVE  IInv'
  <1>1. UNCHANGED <<call, level, found, wiki, always, ever, edits>> /\ place' = "asked"
    BY DEF Ask
  <1>2. TypeOK'
    BY TypeNext DEF IInv, Next, Step
  <1>3. /\ queue # <<>> /\ 1 \in DOMAIN queue /\ asking' = queue[1]
        /\ queue' \in Seq(Titles) /\ Len(queue') = Len(queue) - 1
        /\ \A i \in DOMAIN queue' : i + 1 \in DOMAIN queue /\ queue'[i] = queue[i + 1]
        /\ \A i \in DOMAIN queue : i = 1 \/ (i - 1 \in DOMAIN queue' /\ queue[i] = queue'[i - 1])
    BY DEF IInv, TypeOK, Ask, Upcoming, Popped
  <1>4. VisitedNodes' /\ History'
    BY <1>1, SameGraph DEF IInv, VisitedNodes, History
  <1>5. BreadthFirst'
    <2>1. ASSUME NEW i \in DOMAIN queue', NEW j \in DOMAIN queue', i <= j
          PROVE  level[queue'[i]] <= level[queue'[j]]
      <3>1. i \in Nat /\ j \in Nat /\ i + 1 <= j + 1
        BY <1>3, <2>1
      <3> QED
        BY <1>3, <3>1 DEF IInv, BreadthFirst
    <2>2. \A i \in DOMAIN queue' : level[asking'] <= level[queue'[i]]
      <3> SUFFICES ASSUME NEW i \in DOMAIN queue' PROVE level[queue[1]] <= level[queue[i + 1]]
        BY <1>3
      <3>1. i \in Nat /\ 1 <= i + 1
        BY <1>3
      <3> QED
        BY <1>3, <3>1 DEF IInv, BreadthFirst
    <2>3. \A t \in Titles : level[t] <= level[asking'] + 1
      BY <1>3 DEF IInv, BreadthFirst, Ask
    <2> QED
      BY <1>1, <2>1, <2>2, <2>3 DEF BreadthFirst
  <1>6. Window'
    <2>1. asking' \in Titles /\ asking' = Upcoming
      BY <1>2 DEF TypeOK, Ask
    <2>2. seen' = Shown(wiki[asking'], level[asking']) /\ stable' = seen'
      BY <2>1 DEF Ask
    <2>3. always[asking'] \subseteq wiki[asking'] /\ wiki[asking'] \subseteq ever[asking']
      BY <2>1 DEF IInv, History
    <2>4. /\ Shown(always[asking'], level[asking']) \subseteq stable'
          /\ seen' \subseteq Shown(ever[asking'], level[asking'])
      BY <2>2, <2>3 DEF Shown
    <2> QED
      BY <1>1, <2>4, SameCall DEF Window
  <1>7. CompleteOrLimited'
    <2>1. \A c : Finished(c)' => Finished(c)
      BY <1>1, <1>3 DEF Finished, Waiting, Ask
    <2>2. \A c : Complete(c) => Complete(c)'
      BY <1>1, SameCall DEF Complete
    <2>3. LimitReached => LimitReached'
      BY <1>1, SameCall DEF LimitReached
    <2> QED
      BY <2>1, <2>2, <2>3 DEF IInv, CompleteOrLimited, Running, Ask
  <1>8. DoneMeans' /\ LeastDepth' /\ OnlyReached'
    BY <1>1, SameGraph DEF IInv, DoneMeans, LeastDepth, OnlyReached
  <1> QED
    BY <1>2, <1>4, <1>5, <1>6, <1>7, <1>8 DEF IInv

LEMMA InvEdit ==
    ASSUME IInv, NEW e \in Editable, Edit(e[1], e[2])
    PROVE  IInv'
  <1>1. UNCHANGED <<call, place, queue, level, found, asking>>
    BY DEF Edit, walk
  <1>2. TypeOK'
    BY TypeNext DEF IInv, Next
  <1>3. e[1] \in Titles /\ e[2] \in Titles
    BY ApiSolverAssumption
  <1>4. /\ \A c \in Titles : /\ always'[c] \subseteq always[c]
                           /\ ever[c] \subseteq ever'[c]
                           /\ always'[c] \subseteq wiki'[c] /\ wiki'[c] \subseteq ever'[c]
    BY <1>3 DEF IInv, TypeOK, History, Edit
  <1>5. VisitedNodes' /\ BreadthFirst' /\ History' /\ DoneMeans'
    BY <1>1, <1>4, SameGraph DEF IInv, VisitedNodes, BreadthFirst, History, DoneMeans
  <1>6. Window'
    <2> SUFFICES ASSUME place = "asked"
                 PROVE  /\ Shown(always'[asking], level[asking]) \subseteq stable'
                        /\ seen' \subseteq Shown(ever'[asking], level[asking])
      BY <1>1, SameCall DEF Window
    <2>1. /\ Shown(always[asking], level[asking]) \subseteq stable
          /\ seen \subseteq Shown(ever[asking], level[asking])
      BY DEF IInv, Window
    <2>2. asking \in Titles /\ always[asking] \subseteq wiki[asking]
      BY DEF IInv, TypeOK, History
    <2>3. CASE e[1] = asking /\ Requested(e[2], level[asking])
      <3>1. CASE e[2] \in wiki[asking]
        <4>1. /\ always'[asking] = always[asking] \ {e[2]} /\ ever'[asking] = ever[asking]
              /\ stable' = stable \ {e[2]} /\ seen' = seen
          BY <1>3, <2>2, <2>3, <3>1 DEF Edit, IInv, TypeOK
        <4> QED
          BY <2>1, <4>1 DEF Shown
      <3>2. CASE e[2] \notin wiki[asking]
        <4>1. /\ always'[asking] = always[asking] /\ ever'[asking] = ever[asking] \cup {e[2]}
              /\ stable' = stable /\ seen' = seen \cup {e[2]}
          BY <1>3, <2>2, <2>3, <3>2 DEF Edit, IInv, TypeOK
        <4> QED
          BY <2>1, <2>3, <4>1 DEF Shown
      <3> QED
        BY <3>1, <3>2
    <2>4. CASE ~(e[1] = asking /\ Requested(e[2], level[asking]))
      <3>1. stable' = stable /\ seen' = seen
        BY <2>4 DEF Edit
      <3>2. \A t \in always[asking] : Requested(t, level[asking]) => t \in stable
        BY <2>1 DEF Shown
      <3>3. always'[asking] \subseteq always[asking] /\ ever[asking] \subseteq ever'[asking]
        BY <1>4, <2>2
      <3> QED
        BY <2>1, <3>1, <3>3 DEF Shown
    <2> QED
      BY <2>3, <2>4
  <1>7. CompleteOrLimited'
    <2>1. \A c : Finished(c)' => Finished(c)
      BY <1>1 DEF Finished, Waiting
    <2>2. ASSUME NEW c \in Titles, Complete(c) PROVE Complete(c)'
      <3>1. Shown(always'[c], level[c]) \subseteq Shown(always[c], level[c])
        BY <1>4 DEF Shown
      <3>2. /\ Yield(Shown(always'[c], level[c])) \subseteq Yield(Shown(always[c], level[c]))
            /\ Extracted(Shown(always'[c], level[c])) \subseteq Extracted(Shown(always[c], level[c]))
        BY <3>1, ExtractedGrows
      <3> QED
        BY <1>1, <2>2, <3>2, SameCall DEF Complete
    <2>3. LimitReached => LimitReached'
      BY <1>1, SameCall DEF LimitReached
    <2> QED
      BY <1>1, <2>1, <2>2, <2>3 DEF IInv, CompleteOrLimited
  <1>8. LeastDepth' /\ OnlyReached'
    <2>1. Nodes \subseteq Titles
      BY ApiSolverAssumption DEF IInv, TypeOK, Nodes, Categories, IsCall
    <2>2. /\ Closed(Edges(ever')) \subseteq Closed(Edges(ever))
          /\ LooseAnswer(ever) \subseteq LooseAnswer(ever')
      BY <1>4, <2>1, LooseAnswerGrows
    <2>3. Closed(Edges(ever))' = Closed(Edges(ever')) /\ LooseAnswer(ever)' = LooseAnswer(ever')
      BY <1>1, SameGraph
    <2> QED
      BY <1>1, <2>2, <2>3 DEF IInv, LeastDepth, OnlyReached
  <1> QED
    BY <1>2, <1>5, <1>6, <1>7, <1>8 DEF IInv

(* A reply is cut off only when it has as many titles as the limit; if none *)
(* of them is dropped afterwards, the result has as many.                   *)
LEMMA EnoughFound ==
    ASSUME TypeOK, NEW b \in SUBSET Titles, Enough(b),
           NEW d \in Int, \A t \in b : Requested(t, d),
           NEW f \in SUBSET Titles, Yield(b) \subseteq f
    PROVE  Cardinality(f) >= call.limit \/ \E t \in Titles : ~Kept(t)
  <1> SUFFICES ASSUME \A t \in Titles : Kept(t)
               PROVE  Cardinality(f) >= call.limit
    OBVIOUS
  <1>1. IsCall(call)
    BY ApiSolverAssumption DEF TypeOK
  <1>2. /\ IsFiniteSet(f) /\ Cardinality(f) \in Nat
        /\ \A g \in SUBSET f : Cardinality(g) \in Nat /\ Cardinality(g) <= Cardinality(f)
    BY ApiSolverAssumption, FS_Subset, FS_CardinalityType
  <1>3. Extracted(b) \subseteq f
    BY ExtractedType DEF Yield
  <1>4. CASE Pages(b) \subseteq Extracted(b)
    <2>1. Pages(b) \in SUBSET f
      BY <1>3, <1>4
    <2>2. Cardinality(Pages(b)) <= Cardinality(f) /\ Cardinality(Pages(b)) \in Nat
      BY <1>2, <2>1
    <2> QED
      BY <1>1, <1>2, <2>2 DEF Enough, IsCall
  <1>5. CASE ~(Pages(b) \subseteq Extracted(b))
    <2>1. call.resolve /\ call.strat = "redirects"
      BY <1>5 DEF Extracted
    <2>2. call.op \in {"linkto", "embed"}
      BY <1>1, <2>1 DEF IsCall, Operations
    <2>3. \A t \in b : IsRedirect(t)
      BY <2>1, <2>2 DEF Requested, Wanted, RightKind,
          OfKind, FirstLevel, RightNamespace, OwnNamespace, Descends
    <2>4. b \in SUBSET f
      BY <1>3, <2>1, <2>3 DEF Extracted, Redirects
    <2>5. Pages(b) = {Target[t] : t \in b}
      BY <2>1 DEF Pages
    <2>6. [t \in b |-> Target[t]] \in Surjection(b, Pages(b))
      BY <2>5 DEF Surjection
    <2>7. IsFiniteSet(b) /\ Cardinality(b) \in Nat /\ Cardinality(b) <= Cardinality(f)
      BY <1>2, <2>4, ApiSolverAssumption, FS_Subset
    <2>8. IsFiniteSet(Pages(b)) /\ Cardinality(Pages(b)) <= Cardinality(b)
      BY <2>6, <2>7, FS_Surjection
    <2>9. Cardinality(Pages(b)) \in Nat
      BY <2>8, FS_CardinalityType
    <2> QED
      BY <1>1, <1>2, <2>7, <2>8, <2>9 DEF Enough, IsCall
  <1> QED
    BY <1>4, <1>5

LEMMA InvReceive ==
    ASSUME IInv, Receive
    PROVE  IInv'
  <1>1. PICK b \in Replies, o \in Seq(Titles) :
             /\ b \subseteq seen /\ b \subseteq Titles
             /\ Subcategories(b) \subseteq Titles
             /\ \A i \in 1 .. Len(o) : o[i] \in Subcategories(b)
             /\ \A x \in Subcategories(b) : \E i \in 1 .. Len(o) : o[i] = x
             /\ queue' = queue \o o
             /\ found' = found \cup Yield(b) /\ Yield(b) \subseteq Titles
             /\ level' = [t \in Titles |-> IF t \in Subcategories(b)
                                          THEN level[asking] + 1 ELSE level[t]]
             /\ level[asking] \in Nat
             /\ \A t \in Subcategories(b) : level[t] = Far
    BY Receiving DEF IInv
  <1> DEFINE new == Subcategories(b)
  <1>2. /\ UNCHANGED <<call, asking, stable, seen, wiki, always, ever, edits>>
        /\ place = "asked" /\ place' = "next"
    BY DEF Receive
  <1>3. TypeOK'
    BY TypeNext DEF IInv, Next, Step
  <1>4. asking \in Titles /\ asking \in Nodes /\ level[asking] # Far
    BY DEF IInv, TypeOK, VisitedNodes
  <1>5. /\ \A t \in Titles : level[t] # Far => level'[t] = level[t] /\ t \notin new
        /\ \A t \in Titles : level[t] = Far =>
             level'[t] = IF t \in new THEN level[asking] + 1 ELSE Far
    BY <1>1
  <1>6. /\ \A t \in new : t \in Extracted(b) /\ t \in Categories /\ Descends(level[asking])
        /\ Descends(level[asking]) =>
             \A t \in Extracted(b) \cap Categories : level[t] = Far => t \in new
    BY DEF Subcategories, Unvisited
  <1>7. /\ queue' \in Seq(Titles) /\ Len(queue') = Len(queue) + Len(o)
        /\ Len(queue) \in Nat /\ Len(o) \in Nat
        /\ \A i \in 1 .. Len(queue) : queue'[i] = queue[i] /\ queue[i] \in Titles
                                     /\ level[queue[i]] # Far
        /\ \A i \in 1 .. Len(queue') : i > Len(queue) => queue'[i] \in new
        /\ \A x \in new : \E i \in 1 .. Len(queue') : queue'[i] = x
    <2>1. queue \in Seq(Titles) /\ \A i \in 1 .. Len(queue) : level[queue[i]] # Far
      BY DEF IInv, TypeOK
    <2>2. queue' \in Seq(Titles) /\ Len(queue') = Len(queue) + Len(o)
      BY <1>1, <2>1
    <2>3. ASSUME NEW i \in 1 .. Len(queue'), i > Len(queue) PROVE queue'[i] \in new
      <3>1. i - Len(queue) \in 1 .. Len(o) /\ queue'[i] = o[i - Len(queue)]
        BY <1>1, <2>1, <2>2, <2>3
      <3> QED
        BY <1>1, <3>1
    <2>4. ASSUME NEW x \in new PROVE \E i \in 1 .. Len(queue') : queue'[i] = x
      <3>1. PICK i \in 1 .. Len(o) : o[i] = x
        BY <1>1
      <3>2. i + Len(queue) \in 1 .. Len(queue') /\ queue'[i + Len(queue)] = x
        BY <1>1, <2>1, <2>2, <3>1
      <3> QED
        BY <3>2
    <2> QED
      BY <1>1, <2>1, <2>2, <2>3, <2>4, SMTT(30)
  <1>8. VisitedNodes'
    <2>1. \A t \in new : t \in Nodes /\ call.op = "incat"
      BY <1>6 DEF Nodes, Descends
    <2>2. call.title \in Titles
      BY ApiSolverAssumption DEF IInv, TypeOK, IsCall
    <2> QED
      BY <1>2, <1>5, <2>1, <2>2, SameGraph DEF IInv, VisitedNodes, Far
  <1>9. BreadthFirst'
    <2>1. \A t \in Titles : level'[t] <= level[asking] + 1
      BY <1>1, <1>2, <1>5 DEF IInv, BreadthFirst, Far
    <2>2. \A i \in 1 .. Len(queue) : level[asking] <= level'[queue'[i]]
      BY <1>2, <1>5, <1>7 DEF IInv, BreadthFirst
    <2>3. \A i \in 1 .. Len(queue') : i > Len(queue) => level'[queue'[i]] = level[asking] + 1
      BY <1>1, <1>7
    <2>4. \A i, j \in 1 .. Len(queue') : i <= j => level'[queue'[i]] <= level'[queue'[j]]
      <3> SUFFICES ASSUME NEW i \in 1 .. Len(queue'), NEW j \in 1 .. Len(queue'), i <= j
                   PROVE  level'[queue'[i]] <= level'[queue'[j]]
        OBVIOUS
      <3>1. CASE j > Len(queue)
        <4>1. level'[queue'[j]] = level[asking] + 1
          BY <2>3, <3>1
        <4>2. queue'[i] \in Titles
          BY <1>7
        <4> QED
          BY <2>1, <4>1, <4>2
      <3>2. CASE j <= Len(queue)
        <4>1. i \in 1 .. Len(queue) /\ j \in 1 .. Len(queue)
          BY <1>7, <3>2
        <4>2. level[queue[i]] <= level[queue[j]]
          BY <4>1 DEF IInv, TypeOK, BreadthFirst
        <4> QED
          BY <1>5, <1>7, <4>1, <4>2
      <3> QED
        BY <1>7, <3>1, <3>2
    <2>5. queue' # <<>> => \A t \in Titles : level'[t] <= level'[queue'[1]] + 1
      <3> SUFFICES ASSUME queue' # <<>>, NEW t \in Titles
                   PROVE  level'[t] <= level'[queue'[1]] + 1
        OBVIOUS
      <3>1. 1 \in 1 .. Len(queue') /\ queue'[1] \in Titles /\ level'[queue'[1]] \in Int
            /\ level'[t] \in Int
        BY <1>3, <1>7 DEF TypeOK, Far
      <3>2. level[asking] <= level'[queue'[1]]
        BY <1>1, <1>7, <2>2, <2>3, <3>1, SMTT(30)
      <3>3. level'[t] <= level[asking] + 1 /\ level[asking] \in Int
        BY <1>1, <2>1
      <3> QED
        BY <3>1, <3>2, <3>3
    <2>6. DOMAIN queue' = 1 .. Len(queue')
      BY <1>7
    <2> QED
      BY <1>2, <2>4, <2>5, <2>6 DEF BreadthFirst
  <1>10. History' /\ Window' /\ DoneMeans'
    BY <1>2 DEF IInv, History, Window, DoneMeans
  <1>11. \A t \in b : Requested(t, level[asking]) /\ t \in ever[asking]
    BY <1>1, <1>2 DEF IInv, Window, Shown
  <1>12. CompleteOrLimited'
    <2>1. LimitReached => LimitReached'
      <3>1. IsFiniteSet(found') /\ found \in SUBSET found'
        BY <1>1, <1>3, ApiSolverAssumption, FS_Subset DEF TypeOK
      <3>2. Cardinality(found) <= Cardinality(found')
            /\ Cardinality(found) \in Nat /\ Cardinality(found') \in Nat
        BY <3>1, FS_Subset, FS_CardinalityType
      <3>3. call.limit \in Int
        BY ApiSolverAssumption DEF IInv, TypeOK, IsCall
      <3> QED
        BY <1>2, <3>2, <3>3, SameCall DEF LimitReached
    <2>2. CASE Enough(b)
      <3>1. Cardinality(found') >= call.limit \/ \E t \in Titles : ~Kept(t)
        <4>1. b \in SUBSET Titles /\ found' \in SUBSET Titles /\ level[asking] \in Int
          BY <1>1, <1>3 DEF TypeOK
        <4>2. Yield(b) \subseteq found' /\ \A t \in b : Requested(t, level[asking])
          BY <1>1, <1>11
        <4> QED
          BY <2>2, <4>1, <4>2, EnoughFound DEF IInv
      <3> QED
        BY <1>2, <2>2, <3>1, SameCall DEF LimitReached, CompleteOrLimited, Enough
    <2>3. CASE stable \subseteq b
      <3>1. ASSUME NEW c \in Titles, Finished(c)' PROVE Finished(c) \/ c = asking
        <4>1. level[c] # Far
          <5>1. \A x \in new : x \in Waiting'
            BY <1>7 DEF Waiting
          <5> QED
            BY <1>5, <3>1, <5>1 DEF Finished
        <4>2. c \notin Waiting
          <5>1. \A x \in Waiting : x \in Waiting'
            <6>1. DOMAIN queue = 1 .. Len(queue) /\ DOMAIN queue' = 1 .. Len(queue')
              BY <1>7 DEF IInv, TypeOK
            <6>2. \A i \in 1 .. Len(queue) : i \in 1 .. Len(queue') /\ queue'[i] = queue[i]
              BY <1>7
            <6> QED
              BY <6>1, <6>2 DEF Waiting
          <5> QED
            BY <3>1, <5>1 DEF Finished
        <4> QED
          BY <4>1, <4>2 DEF Finished
      <3>2. ASSUME NEW c \in Titles, Finished(c), Complete(c) PROVE Complete(c)'
        <4>1. level'[c] = level[c] /\ level[c] # Far
          BY <1>5, <3>2 DEF Finished
        <4>2. \A s \in Categories : level[s] # Far => level'[s] = level[s]
          BY <1>5 DEF Categories
        <4> QED
          BY <1>1, <1>2, <3>2, <4>1, <4>2, SameCall DEF Complete
      <3>3. Complete(asking)'
        <4> DEFINE list == Shown(always[asking], level[asking])
        <4>1. list \subseteq b
          BY <1>2, <2>3 DEF IInv, Window
        <4>2. Yield(list) \subseteq found' /\ Extracted(list) \subseteq Extracted(b)
          BY <1>1, <4>1, ExtractedGrows
        <4>3. ASSUME Descends(level[asking]), NEW s \in Extracted(list) \cap Categories
              PROVE  level'[s] # Far /\ level'[s] <= level[asking] + 1
          <5>1. s \in Titles
            BY DEF Categories
          <5>2. CASE level[s] = Far
            BY <1>1, <1>5, <1>6, <4>2, <4>3, <5>1, <5>2 DEF Far
          <5>3. CASE level[s] # Far
            BY <1>2, <1>5, <5>1, <5>3 DEF IInv, BreadthFirst
          <5> QED
            BY <5>2, <5>3
        <4> QED
          BY <1>2, <1>4, <1>5, <4>2, <4>3, SameCall DEF Complete
      <3> QED
        BY <1>2, <2>1, <3>1, <3>2, <3>3 DEF IInv, CompleteOrLimited, Running
    <2> QED
      BY <1>1, <2>2, <2>3 DEF Replies
  <1>13. LeastDepth'
    <2> SUFFICES ASSUME NEW S \in Closed(Edges(ever)), NEW t \in Titles, level'[t] # Far
                 PROVE  S[t] # Far /\ S[t] <= level'[t]
      BY <1>2, SameGraph DEF LeastDepth
    <2>1. CASE level[t] # Far
      BY <1>5, <2>1 DEF IInv, LeastDepth
    <2>2. CASE level[t] = Far
      <3>1. t \in new /\ level'[t] = level[asking] + 1
        BY <1>5, <2>2
      <3>2. t \in Below(ever[asking])
        <4>1. b \subseteq {u \in ever[asking] : Wanted(u) \/ u.ns = Category}
          BY <1>11 DEF Requested
        <4> QED
          BY <1>6, <3>1, <4>1, ExtractedGrows DEF Below
      <3>3. <<asking, t>> \in Edges(ever)
        BY <1>4, <3>2 DEF Edges
      <3>4. /\ S[asking] # Far /\ S[asking] <= level[asking]
            /\ S[asking] \in Int /\ S[t] \in Int
        <4>1. S \in [Nodes -> Distances \cup {Far}] /\ Distances \subseteq Int
          BY ApiSolverAssumption DEF Closed
        <4>2. t \in Nodes
          BY <1>6, <3>1 DEF Nodes
        <4>3. S[asking] # Far /\ S[asking] <= level[asking]
          BY <1>4 DEF IInv, LeastDepth
        <4>4. S[asking] \in Distances \cup {Far} /\ S[t] \in Distances \cup {Far}
          BY <1>4, <4>1, <4>2
        <4>5. Distances \cup {Far} \subseteq Int
          BY ApiSolverAssumption DEF Far
        <4>6. S[asking] \in Int /\ S[t] \in Int
          BY <4>4, <4>5
        <4> QED
          BY <4>3, <4>6
      <3>5. Descends(S[asking])
        <4>1. call.depth \in Int
          BY ApiSolverAssumption DEF IInv, TypeOK, IsCall
        <4> QED
          BY <1>1, <1>6, <3>1, <3>4, <4>1 DEF Descends
      <3>6. S[t] # Far /\ S[t] <= S[asking] + 1
        BY <3>3, <3>4, <3>5 DEF Closed
      <3> QED
        BY <1>1, <3>1, <3>4, <3>6
    <2> QED
      BY <2>1, <2>2
  <1>14. OnlyReached'
    <2>1. asking \in Reached(ever)
      BY <1>4 DEF IInv, LeastDepth, Reached, LeftOut
    <2>2. b \subseteq {u \in ever[asking] : Wanted(u) \/ (call.op = "incat" /\ u.ns = Category)}
      BY <1>11 DEF Requested, Descends
    <2>3. Yield(b) \subseteq LooseAnswer(ever)
      <3> DEFINE part(c) ==
                   {u \in ever[c] : Wanted(u) \/ (call.op = "incat" /\ u.ns = Category)}
      <3>1. Yield(b) \subseteq Yield(part(asking))
        BY <2>2, ExtractedGrows
      <3>2. LooseAnswer(ever) = UNION {Yield(part(c)) : c \in Reached(ever)}
        BY DEF LooseAnswer
      <3> HIDE DEF part
      <3> QED
        BY <2>1, <3>1, <3>2
    <2> QED
      BY <1>1, <1>2, <2>3, SameGraph DEF IInv, OnlyReached
  <1> QED
    BY <1>3, <1>8, <1>9, <1>10, <1>12, <1>13, <1>14 DEF IInv

LEMMA InvNext == IInv /\ [Next]_vars => IInv'
  <1> SUFFICES ASSUME IInv, [Next]_vars PROVE IInv'
    OBVIOUS
  <1>1. CASE Ask
    BY <1>1, InvAsk
  <1>2. CASE NothingToAsk \/ NotCategory \/ Fail \/ Finish
    BY <1>2, InvEnds
  <1>3. CASE Receive
    BY <1>3, InvReceive
  <1>4. CASE \E e \in Editable : Edit(e[1], e[2])
    BY <1>4, InvEdit
  <1>5. CASE UNCHANGED vars
    <2>1. TypeOK'
      BY TypeNext DEF IInv
    <2>2. /\ UNCHANGED <<call, place, queue, level, found, asking, stable, seen>>
          /\ UNCHANGED <<always, ever, wiki>>
      BY <1>5 DEF vars, walk
    <2>3. VisitedNodes' /\ BreadthFirst' /\ History' /\ Window' /\ DoneMeans'
      BY <2>2, SameGraph, SameCall
      DEF IInv, VisitedNodes, BreadthFirst, History, Window, DoneMeans
    <2>4. CompleteOrLimited'
      <3>1. \A c : (Finished(c)' <=> Finished(c)) /\ (Complete(c)' <=> Complete(c))
        BY <2>2, SameCall DEF Finished, Waiting, Complete
      <3>2. LimitReached' <=> LimitReached
        BY <2>2, SameCall DEF LimitReached
      <3> QED
        BY <2>2, <3>1, <3>2 DEF IInv, CompleteOrLimited
    <2>5. LeastDepth' /\ OnlyReached'
      BY <2>2, SameGraph DEF IInv, LeastDepth, OnlyReached
    <2> QED
      BY <2>1, <2>3, <2>4, <2>5 DEF IInv
  <1> QED
    BY <1>1, <1>2, <1>3, <1>4, <1>5 DEF Next, Step

LEMMA Invariant == Spec => []IInv
  BY InvInit, InvNext, PTL DEF Spec

-----------------------------------------------------------------------------
(* Whatever editors do, and whatever cycles there are: nothing is in an     *)
(* answer that was not reached through listings as they were at some time.  *)
THEOREM NeverStrange == Spec => []NothingStrange
  <1>1. IInv => NothingStrange
    BY DEF IInv, OnlyReached, NothingStrange
  <1> QED
    BY <1>1, Invariant, PTL

(* A walk that is over has followed every edge that was there all the time, *)
(* so that the depths it noted fit these edges.                             *)
LEMMA WalkedDepths ==
    ASSUME IInv, Nat \subseteq Distances, queue = <<>>, place = "done",
           \A c \in Titles : Finished(c) => Complete(c)
    PROVE  /\ \A c \in Titles : level[c] # Far => Complete(c)
           /\ [c \in Nodes |-> level[c]] \in Closed(Edges(always))
  <1> DEFINE S == [c \in Nodes |-> level[c]]
  <1>1. \A c \in Titles : level[c] # Far => Complete(c)
    BY DEF Finished, Waiting
  <1>2. Nodes \subseteq Titles /\ call.title \in Nodes
    BY ApiSolverAssumption DEF IInv, TypeOK, Nodes, Categories, IsCall
  <1>3. S \in [Nodes -> Distances \cup {Far}]
    BY <1>2 DEF IInv, TypeOK
  <1>4. S[call.title] = 0
    BY <1>2 DEF IInv, VisitedNodes
  <1>5. ASSUME NEW e \in Edges(always), S[e[1]] # Far, Descends(S[e[1]])
        PROVE  S[e[2]] # Far /\ S[e[2]] <= S[e[1]] + 1
    <2>1. PICK c \in Nodes : \E s \in Below(always[c]) : e = <<c, s>>
      BY DEF Edges
    <2>2. PICK s \in Below(always[c]) : e = <<c, s>>
      BY <2>1
    <2>3. /\ c \in Titles /\ S[e[1]] = level[c] /\ level[c] # Far /\ Descends(level[c])
      BY <1>2, <1>5, <2>2
    <2>4. {t \in always[c] : Wanted(t) \/ t.ns = Category} = Shown(always[c], level[c])
      BY <2>3 DEF Shown, Requested
    <2>5. s \in Extracted(Shown(always[c], level[c])) \cap Categories
      BY <2>2, <2>4 DEF Below
    <2>6. level[s] # Far /\ level[s] <= level[c] + 1
      BY <1>1, <2>3, <2>5 DEF Complete
    <2>7. s \in Nodes /\ S[e[2]] = level[s]
      BY <2>2, <2>5 DEF Nodes
    <2> QED
      BY <2>3, <2>6, <2>7
  <1> QED
    BY <1>1, <1>3, <1>4, <1>5 DEF Closed

(* A complete answer misses nothing that was reached at all times.          *)
LEMMA DoneMissesNothing ==
    ASSUME IInv, Nat \subseteq Distances
    PROVE  NothingMissed
  <1> SUFFICES ASSUME place = "done", ~LimitReached
               PROVE  Answer(always) \subseteq found
    BY DEF NothingMissed, LimitReached
  <1>1. \A c \in Titles : Finished(c) => Complete(c)
    BY DEF IInv, CompleteOrLimited
  <1> SUFFICES ASSUME NEW c \in Reached(always), NEW t \in Yield({u \in always[c] : Wanted(u)})
               PROVE  t \in found
    BY DEF Answer
  <1>2. CASE queue = <<>>
    <2>1. /\ \A a \in Titles : level[a] # Far => Complete(a)
          /\ [a \in Nodes |-> level[a]] \in Closed(Edges(always))
      BY <1>1, <1>2, WalkedDepths
    <2>2. c \in Nodes /\ c \notin LeftOut([a \in Nodes |-> level[a]])
      BY <2>1 DEF Reached
    <2>3. c \in Titles /\ level[c] # Far
      BY <2>2, ApiSolverAssumption DEF LeftOut, IInv, TypeOK, Nodes, Categories, IsCall
    <2>4. {u \in always[c] : Wanted(u)} \subseteq Shown(always[c], level[c])
      BY DEF Shown, Requested
    <2>5. t \in Yield(Shown(always[c], level[c]))
      BY <2>4, ExtractedGrows
    <2> QED
      BY <2>1, <2>3, <2>5 DEF Complete
  <1>3. CASE call.op = "prefix" /\ call.title.ns \notin call.ns
    <2>1. {u \in always[c] : Wanted(u)} = {}
      BY <1>3 DEF Wanted, RightKind, OfKind, FirstLevel, RightNamespace, OwnNamespace
    <2>2. t \in Yield({})
      BY <2>1
    <2> QED
      BY <2>2 DEF Yield, Extracted, Pages, Redirects
  <1> QED
    BY <1>2, <1>3 DEF IInv, DoneMeans

(* When depths are all natural numbers, for any wiki and any call: a page   *)
(* that is reached at all times is missed only if a limit was reached.      *)
THEOREM NeverMissed ==
    ASSUME Nat \subseteq Distances
    PROVE  Spec => []NothingMissed
  <1>1. IInv => NothingMissed
    BY DoneMissesNothing
  <1> QED
    BY <1>1, Invariant, PTL

-----------------------------------------------------------------------------
(* What a reply adds is what the parameters promise.                        *)
LEMMA YieldFiltered ==
    ASSUME TypeOK, NEW b \in SUBSET Titles, NEW d, \A u \in b : Requested(u, d),
           NEW t \in Yield(b)
    PROVE  /\ \/ t.ns \in call.ns
              \/ /\ call.resolve
                 /\ \E r \in Titles : /\ Target[r] = t /\ IsRedirect(r)
                                     /\ r.ns \in call.ns \cup {Category}
           /\ call.strat = "redirects" => IsRedirect(t)
           /\ call.strat = "nonredirects" /\ (call.resolve \/ call.op \notin {"link", "incat"})
                => ~IsRedirect(t) \/ (~call.resolve /\ FirstLevel(t))
  <1>1. IsCall(call)
    BY ApiSolverAssumption DEF TypeOK
  <1>2. t \in Extracted(b) /\ Kept(t)
    BY DEF Yield
  <1>3. \/ t \in b /\ (call.resolve => t \in Redirects(b) \/ \E u \in b : t = Target[u])
        \/ call.resolve /\ \E u \in b : t = Target[u]
    BY <1>2 DEF Extracted, Pages, Redirects
  <1>4. ASSUME t \in b PROVE t.ns \in call.ns
    <2>1. CASE Wanted(t)
      BY <1>2, <2>1 DEF Wanted, RightKind, OfKind, FirstLevel, RightNamespace,
                               OwnNamespace, Kept
    <2>2. CASE t.ns = Category /\ Descends(d)
      BY <1>2, <2>2 DEF Kept, Descends
    <2> QED
      BY <1>4, <2>1, <2>2 DEF Requested
  <1>5. ASSUME call.resolve, NEW u \in b, t = Target[u], t # u
        PROVE  t.ns \in call.ns \/ (IsRedirect(u) /\ u.ns \in call.ns \cup {Category})
    <2>1. CASE Wanted(u)
      BY <1>2, <1>5, <2>1 DEF Wanted, RightKind, OfKind, FirstLevel, RightNamespace,
                               OwnNamespace, Kept, IsRedirect
    <2>2. CASE u.ns = Category
      BY <1>5, <2>2 DEF IsRedirect
    <2> QED
      BY <1>5, <2>1, <2>2 DEF Requested
  <1>6. call.strat = "redirects" => IsRedirect(t)
    <2> SUFFICES ASSUME call.strat = "redirects" PROVE IsRedirect(t)
      OBVIOUS
    <2>1. call.op \in {"linkto", "embed", "prefix"}
      BY <1>1 DEF IsCall, Operations
    <2>2. CASE call.resolve
      BY <1>2, <2>2 DEF Extracted, Redirects
    <2>3. CASE ~call.resolve
      BY <1>2, <2>1, <2>3 DEF Extracted, Pages, Requested, Wanted, RightKind,
          OfKind, FirstLevel, RightNamespace, OwnNamespace, Descends
    <2> QED
      BY <2>2, <2>3
  <1>7. call.strat = "nonredirects" /\ (call.resolve \/ call.op \notin {"link", "incat"})
          => ~IsRedirect(t) \/ (~call.resolve /\ FirstLevel(t))
    <2> SUFFICES ASSUME call.strat = "nonredirects",
                        call.resolve \/ call.op \notin {"link", "incat"}
                 PROVE  ~IsRedirect(t) \/ (~call.resolve /\ FirstLevel(t))
      OBVIOUS
    <2>1. CASE call.resolve
      <3>1. PICK u \in b : t = Target[u]
        BY <1>2, <2>1 DEF Extracted, Pages
      <3> QED
        BY <3>1, ApiSolverAssumption DEF IsRedirect
    <2>2. CASE ~call.resolve
      <3>1. call.op \in {"linkto", "embed", "prefix"}
        BY <1>1, <2>2 DEF IsCall, Operations
      <3> QED
        BY <1>2, <2>2, <3>1 DEF Extracted, Pages, Requested, Wanted, RightKind,
          OfKind, FirstLevel, RightNamespace, OwnNamespace, Descends
    <2> QED
      BY <2>1, <2>2
  <1> QED
    BY <1>3, <1>4, <1>5, <1>6, <1>7

(* The filters hold for every page of every result, at any time.            *)
THEOREM AlwaysFiltered == Spec => []FiltersKept
  <1>1. Init => FiltersKept
    BY DEF Init, FiltersKept
  <1>2. ASSUME IInv, FiltersKept, [Next]_vars PROVE FiltersKept'
    <2>1. CASE Receive
      <3>1. PICK b \in Replies : b \subseteq seen /\ b \subseteq Titles
                               /\ found' = found \cup Yield(b)
        BY <1>2, <2>1, Receiving DEF IInv
      <3>2. call' = call /\ \A u \in b : Requested(u, level[asking])
        BY <1>2, <2>1, <3>1 DEF IInv, Receive, Window, Shown
      <3>3. \A t \in Yield(b) :
              /\ \/ t.ns \in call.ns
                 \/ /\ call.resolve
                    /\ \E r \in Titles : /\ Target[r] = t /\ IsRedirect(r)
                                        /\ r.ns \in call.ns \cup {Category}
              /\ call.strat = "redirects" => IsRedirect(t)
              /\ call.strat = "nonredirects" /\ (call.resolve \/ call.op \notin {"link", "incat"})
                   => ~IsRedirect(t) \/ (~call.resolve /\ FirstLevel(t))
        BY <1>2, <3>1, <3>2, YieldFiltered DEF IInv
      <3> QED
        BY <1>2, <3>1, <3>2, <3>3 DEF FiltersKept, FirstLevel
    <2>2. CASE UNCHANGED <<call, found>>
      BY <1>2, <2>2 DEF FiltersKept, FirstLevel
    <2> QED
      BY <1>2, <2>1, <2>2
      DEF Next, Step, Ask, NothingToAsk, NotCategory, Fail, Finish, Ends, Edit, walk, vars
  <1> QED
    BY <1>1, <1>2, Invariant, PTL DEF Spec

-----------------------------------------------------------------------------
(* No title waits twice.                                                    *)
Distinct == \A i, j \in DOMAIN queue : queue[i] = queue[j] => i = j

LEMMA DistinctSize ==
    ASSUME NEW q \in Seq(Titles), \A i, j \in DOMAIN q : q[i] = q[j] => i = j
    PROVE  Cardinality({q[i] : i \in DOMAIN q}) = Len(q)
  <1> DEFINE W == {q[i] : i \in DOMAIN q}
  <1>1. /\ Len(q) \in Nat /\ DOMAIN q = 1 .. Len(q)
        /\ q \in Surjection(1 .. Len(q), W) /\ q \in Injection(1 .. Len(q), W)
    BY DEF Surjection, Injection, IsInjective
  <1>2. IsFiniteSet(1 .. Len(q)) /\ Cardinality(1 .. Len(q)) = Len(q)
    BY <1>1, FS_Interval
  <1> QED
    BY <1>1, <1>2, FS_Surjection

(* A reply puts titles into the queue that were never in it.                *)
LEMMA ReceiveDistinct ==
    ASSUME TypeOK, Distinct, Receive
    PROVE  /\ Distinct'
           /\ \A t \in Titles : level[t] # Far /\ t \notin Waiting => t \notin Waiting'
  <1>1. PICK b \in Replies, o \in Seq(Titles) :
             /\ \A i \in 1 .. Len(o) : o[i] \in Subcategories(b)
             /\ \A i, j \in 1 .. Len(o) : o[i] = o[j] => i = j
             /\ queue' = queue \o o
             /\ \A t \in Subcategories(b) : level[t] = Far
    BY Receiving
  <1>2. queue \in Seq(Titles) /\ \A i \in 1 .. Len(queue) : level[queue[i]] # Far
    BY DEF TypeOK
  <1>3. /\ DOMAIN queue' = 1 .. Len(queue) + Len(o)
        /\ \A i \in 1 .. Len(queue) : queue'[i] = queue[i]
        /\ \A i \in DOMAIN queue' : i > Len(queue) =>
             /\ i - Len(queue) \in 1 .. Len(o)
             /\ queue'[i] = o[i - Len(queue)]
    BY <1>1, <1>2
  <1>4. \A i \in DOMAIN queue' : i > Len(queue) => level[queue'[i]] = Far
    BY <1>1, <1>3
  <1>5. ASSUME NEW i \in DOMAIN queue', NEW j \in DOMAIN queue', queue'[i] = queue'[j]
        PROVE  i = j
    <2>1. i \in Int /\ j \in Int /\ Len(queue) \in Nat
      BY <1>2, <1>3
    <2>2. CASE i <= Len(queue) /\ j <= Len(queue)
      <3>1. i \in 1 .. Len(queue) /\ j \in 1 .. Len(queue) /\ DOMAIN queue = 1 .. Len(queue)
        BY <1>2, <1>3, <2>2
      <3> QED
        BY <1>3, <1>5, <3>1 DEF Distinct
    <2>3. CASE i > Len(queue) /\ j > Len(queue)
      BY <1>1, <1>3, <1>5, <2>1, <2>3, SMTT(30)
    <2>4. CASE i <= Len(queue) /\ j > Len(queue)
      BY <1>2, <1>3, <1>4, <1>5, <2>4
    <2>5. CASE i > Len(queue) /\ j <= Len(queue)
      BY <1>2, <1>3, <1>4, <1>5, <2>5
    <2> QED
      BY <2>1, <2>2, <2>3, <2>4, <2>5
  <1>6. ASSUME NEW i \in DOMAIN queue', level[queue'[i]] # Far PROVE queue'[i] \in Waiting
    <2>1. i \in 1 .. Len(queue) /\ i \in DOMAIN queue /\ queue'[i] = queue[i]
      BY <1>2, <1>3, <1>4, <1>6
    <2> QED
      BY <2>1 DEF Waiting
  <1>7. Distinct'
    BY <1>5 DEF Distinct
  <1> QED
    BY <1>6, <1>7 DEF Waiting

LEMMA AskDistinct ==
    ASSUME TypeOK, Distinct, Ask
    PROVE  /\ Distinct'
           /\ \A t \in Titles : t \notin Waiting => t \notin Waiting'
  <1>1. /\ queue' \in Seq(Titles) /\ Len(queue') = Len(queue) - 1
        /\ DOMAIN queue' = 1 .. Len(queue')
        /\ \A i \in DOMAIN queue' : i + 1 \in DOMAIN queue /\ queue'[i] = queue[i + 1]
    BY DEF TypeOK, Ask, Popped
  <1>2. Distinct'
    <2> SUFFICES ASSUME NEW i \in DOMAIN queue', NEW j \in DOMAIN queue',
                        queue'[i] = queue'[j]
                 PROVE  i = j
      BY DEF Distinct
    <2>1. i + 1 = j + 1
      BY <1>1 DEF Distinct
    <2> QED
      BY <1>1, <2>1
  <1>3. \A i \in DOMAIN queue' : queue'[i] \in Waiting
    BY <1>1 DEF Waiting
  <1> QED
    BY <1>2, <1>3 DEF Waiting

(* However categories contain each other, each is asked for at most once.   *)
THEOREM NeverAskedTwice == Spec => AskedOnce
  <1>1. Init => Distinct
    BY DEF Init, Distinct
  <1>2. ASSUME TypeOK, TypeOK', Distinct, [Next]_vars
        PROVE  /\ Distinct'
               /\ [ /\ Cardinality(Waiting') = Len(queue')
                    /\ \A t \in Titles : level[t] # Far /\ t \notin Waiting
                                            => t \notin Waiting' ]_queue
    <2>1. CASE UNCHANGED queue
      BY <1>2, <2>1 DEF Distinct
    <2>2. CASE Ask \/ Receive
      <3>1. /\ Distinct'
            /\ \A t \in Titles : level[t] # Far /\ t \notin Waiting => t \notin Waiting'
        BY <1>2, <2>2, AskDistinct, ReceiveDistinct
      <3>2. Cardinality(Waiting') = Len(queue')
        BY <1>2, <3>1, DistinctSize DEF TypeOK, Waiting, Distinct
      <3> QED
        BY <3>1, <3>2
    <2> QED
      BY <1>2, <2>1, <2>2
      DEF Next, Step, NothingToAsk, NotCategory, Fail, Finish, Ends, Edit, walk, vars
  <1> QED
    BY <1>1, <1>2, TypeCorrect, PTL DEF Spec, AskedOnce

=============================================================================
