------------------------------ MODULE TargetPage ------------------------------
(***************************************************************************)
(* What the page writer promises the editors of its target pages, whatever  *)
(* happens between its requests: it brings no page into being, leaves       *)
(* denied pages alone, and what it puts on a page is its header with either *)
(* the list of a query that succeeded, or the failure text, or a body that  *)
(* very page has had.                                                       *)
(***************************************************************************)
EXTENDS Naturals, Sequences

CONSTANTS
    Targets,      \* titles of the target pages
    Missing,      \* a page that does not exist
    Denied,       \* targets in a denied namespace
    Lists,        \* bodies made from the result of a query
    FailureText,  \* the body that stands for a failed query
    Failures,     \* the ways in which a query may fail
    Header(_),    \* the header with a status
    Body(_)       \* what a page has below its header

VARIABLES
    page,         \* page[t]: the content of t, or Missing
    past,         \* past[t]: the bodies t has had so far
    turns         \* actions of editors so far

vars == <<page, past, turns>>

BodiesOf(content) == IF content = Missing THEN {} ELSE {Body(content)}

Init ==
    /\ DOMAIN page = Targets
    /\ past = [t \in Targets |-> BodiesOf(page[t])]
    /\ turns = 0

Becomes(t, content) ==
    /\ page' = [page EXCEPT ![t] = content]
    /\ past' = [past EXCEPT ![t] = @ \cup BodiesOf(content)]

(* Editors put on a page what they like.                                    *)
EditorActs(t) ==
    /\ turns' = turns + 1
    /\ Becomes(t, page'[t])

ShowsList(t) == \E list \in Lists : Becomes(t, Header("success") \o <<list>>)
ShowsFailure(t) == \E f \in Failures : Becomes(t, Header(f) \o <<FailureText>>)
KeepsBody(t) == \E f \in Failures, body \in past[t] : Becomes(t, Header(f) \o body)

BotWrites(t) ==
    /\ page[t] # Missing /\ t \notin Denied
    /\ ShowsList(t) \/ ShowsFailure(t) \/ KeepsBody(t)
    /\ UNCHANGED turns

Next == \E t \in Targets : EditorActs(t) \/ BotWrites(t)

Spec == Init /\ [][Next]_vars
===============================================================================
