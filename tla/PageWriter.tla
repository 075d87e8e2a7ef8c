------------------------------ MODULE PageWriter ------------------------------
(***************************************************************************)
(* The page writer (src/src/routine/pagewriter.rs) and its query executor   *)
(* (src/src/routine/queryexecutor.rs): a run walks the output formats of    *)
(* its task, checks each target page, runs the query once, composes the new *)
(* content and posts it.  TaskRunner starts one run after another.          *)
(*                                                                          *)
(* Writers are the runs of different tasks that are under way at a time.    *)
(* Their targets may coincide, and editors change the targets between any   *)
(* two requests.  Content is a sequence of pieces: the tags of a noinclude  *)
(* section, a status in place of the substituted header template, space,    *)
(* text of editors, the redirect word and the bodies a run writes.          *)
(***************************************************************************)
EXTENDS Naturals, Sequences, FiniteSets, SequencesExt

CONSTANTS
    Writers,      \* tasks that write pages
    Targets,      \* titles of the target pages
    Missing,      \* a page that does not exist
    Output,       \* Output[w]: the targets of the output formats of w
    Denied,       \* targets in a denied namespace
    FullLists,    \* bodies made from a query result that has titles
    Failures,     \* the status of a query that fails: parse, timeout, runtime
    MaxRuns,      \* bound on the runs of each writer
    MaxEdits,     \* bound on editor actions
    MaxFaults     \* bound on failing requests

EmptyText   == "empty"
FailureText == "failure"
Lists    == FullLists \cup {EmptyText}
Statuses == Failures \cup {"success"}
Pieces   == {"open", "close", "space", "text", "redirect", FailureText}
                \cup Statuses \cup Lists

ASSUME PageWriterAssumption ==
    /\ Output \in [Writers -> Seq(Targets)]
    /\ Denied \subseteq Targets
    /\ Missing \notin Seq(Pieces)
    /\ {"none", "success"} \cap Failures = {}
    /\ {"open", "close"} \cap (FullLists \cup Failures) = {}
    /\ MaxRuns \in Nat /\ MaxEdits \in Nat /\ MaxFaults \in Nat

VARIABLES
    (* the wiki *)
    page,         \* page[t]: the content of t, or Missing
    past,         \* auxiliary: the bodies t has had so far
    inflight,     \* edits sent to the server and not yet handled
    edits,        \* editor actions left
    faults,       \* failing requests left
    (* the writers *)
    pc,           \* where the run is
    run,          \* runs begun
    out,          \* index of the output format being written
    eager,        \* eager_mode
    result,       \* what QueryExecutor::execute has cached
    original      \* orig_content

wiki    == <<page, past, inflight, edits>>
writers == <<pc, run, out, eager, result, original>>
vars == <<wiki, faults, writers>>

Content == Seq(Pieces) \cup {Missing}
Pending == [status |-> "none", body |-> <<>>]
Results == [status : Statuses, body : Seq(Pieces)] \cup {Pending}
Edits == [writer : Writers, run : Nat, target : Targets, result : Results,
          content : Seq(Pieces)]

TypeOK ==
    /\ page \in [Targets -> Content]
    /\ past \in [Targets -> SUBSET Seq(Pieces)]
    /\ inflight \subseteq Edits
    /\ edits \in Nat /\ faults \in Nat
    /\ pc \in [Writers -> {"idle", "target", "query", "original", "edit", "editing"}]
    /\ run \in [Writers -> Nat]
    /\ out \in [Writers -> Nat]
    /\ \A w \in Writers : pc[w] # "idle" => out[w] \in DOMAIN Output[w]
    /\ eager \in [Writers -> BOOLEAN]
    /\ result \in [Writers -> Results]
    /\ original \in [Writers -> Seq(Pieces)]

-----------------------------------------------------------------------------
(* The header (make_header_content) and the body below it.                  *)

Header(status) == <<"open", status, "close">>

FirstClose(content) == SelectInSeq(content, LAMBDA piece : piece = "close")

(* Mutant: the closing tag stays with the body. *)
Body_FromClose(content) ==
    LET start == SelectInSeq(content, LAMBDA piece : piece # "space")
    IN  IF start # 0 /\ content[start] = "open" /\ FirstClose(content) # 0
        THEN SubSeq(content, FirstClose(content), Len(content))
        ELSE content

(* If the trimmed content starts with <noinclude>, everything after the     *)
(* first </noinclude>; the whole content otherwise.                         *)
Body(content) ==
    LET start == SelectInSeq(content, LAMBDA piece : piece # "space")
    IN  IF start # 0 /\ content[start] = "open" /\ FirstClose(content) # 0
        THEN SubSeq(content, FirstClose(content) + 1, Len(content))
        ELSE content

IsRedirect(content) == content # <<>> /\ content[1] = "redirect"

BodiesOf(content) == IF content = Missing THEN {} ELSE {Body(content)}

Init ==
    /\ page \in [Targets -> {Missing, <<"text">>}]
    /\ past = [t \in Targets |-> BodiesOf(page[t])]
    /\ inflight = {}
    /\ edits = MaxEdits
    /\ faults = MaxFaults
    /\ pc = [w \in Writers |-> "idle"]
    /\ run = [w \in Writers |-> 0]
    /\ out = [w \in Writers |-> 0]
    /\ eager = [w \in Writers |-> FALSE]
    /\ result = [w \in Writers |-> Pending]
    /\ original = [w \in Writers |-> <<>>]

-----------------------------------------------------------------------------
(* The wiki.                                                                *)

Becomes(t, content) ==
    /\ page' = [page EXCEPT ![t] = content]
    /\ past' = [past EXCEPT ![t] = @ \cup BodiesOf(content)]

WithoutClose(content) ==
    IF FirstClose(content) = 0 THEN content ELSE RemoveAt(content, FirstClose(content))

(* Editors delete, redirect or replace a page, write above or below what is *)
(* there, or break the header.                                              *)
Rewrites(content) ==
    {Missing, <<"redirect">>, <<"text">>} \cup
    IF content = Missing THEN {}
    ELSE {<<"space">> \o content, <<"text">> \o content, content \o <<"text">>,
          WithoutClose(content)}

EditorActs(t) ==
    /\ edits > 0 /\ edits' = edits - 1
    /\ \E content \in Rewrites(page[t]) \ {page[t]} : Becomes(t, content)
    /\ UNCHANGED <<inflight, faults, writers>>

(* Mutant: the parameter "nocreate" is forgotten. *)
NoCreate_Forgotten == FALSE

(* The edit has the parameter "nocreate".                                   *)
NoCreate == TRUE

(* The server carries out an edit, or refuses it as the page is missing.    *)
HandleEdit(e) ==
    /\ inflight' = inflight \ {e}
    /\ IF NoCreate /\ page[e.target] = Missing
       THEN UNCHANGED <<page, past>>
       ELSE Becomes(e.target, e.content)
    /\ UNCHANGED <<edits, faults, writers>>

(* The server rejects an edit, or it is lost.                               *)
DropEdit(e) ==
    /\ inflight' = inflight \ {e}
    /\ UNCHANGED <<page, past, edits, faults, writers>>

Outage == faults > 0 /\ faults' = faults - 1

-----------------------------------------------------------------------------
(* The writers.                                                             *)

At(w, place) == pc[w] = place
GoTo(w, place) == pc' = [pc EXCEPT ![w] = place]
Target(w) == Output[w][out[w]]

(* A run has a new writer and a new executor.                               *)
Start(w) ==
    /\ At(w, "idle") /\ GoTo(w, "target")
    /\ run[w] < MaxRuns /\ run' = [run EXCEPT ![w] = @ + 1]
    /\ Output[w] # <<>>
    /\ out' = [out EXCEPT ![w] = 1]
    /\ \E e \in BOOLEAN : eager' = [eager EXCEPT ![w] = e]
    /\ UNCHANGED <<wiki, faults, result, original>>

(* The writer and its executor are gone.                                    *)
Ends(w) ==
    /\ GoTo(w, "idle")
    /\ out' = [out EXCEPT ![w] = 0]
    /\ eager' = [eager EXCEPT ![w] = FALSE]
    /\ result' = [result EXCEPT ![w] = Pending]
    /\ original' = [original EXCEPT ![w] = <<>>]

(* Mutant: off by one at the last output format. *)
NextOutput_OneMore(w) ==
    \/ /\ out[w] <= Len(Output[w]) /\ out' = [out EXCEPT ![w] = @ + 1]
       /\ GoTo(w, "target")
       /\ original' = [original EXCEPT ![w] = <<>>]
       /\ UNCHANGED <<eager, result>>
    \/ out[w] > Len(Output[w]) /\ Ends(w)

(* PageWriter::start: one output format after the other.                    *)
NextOutput(w) ==
    \/ /\ out[w] < Len(Output[w]) /\ out' = [out EXCEPT ![w] = @ + 1]
       /\ GoTo(w, "target")
       /\ original' = [original EXCEPT ![w] = <<>>]
       /\ UNCHANGED <<eager, result>>
    \/ out[w] = Len(Output[w]) /\ Ends(w)

(* The page is missing, a redirect or denied, or the request failed.        *)
SkipTarget(w) ==
    /\ At(w, "target")
    /\ \/ page[Target(w)] = Missing /\ UNCHANGED faults
       \/ page[Target(w)] # Missing /\ IsRedirect(page[Target(w)]) /\ UNCHANGED faults
       \/ Target(w) \in Denied /\ UNCHANGED faults
       \/ Outage
    /\ NextOutput(w)
    /\ UNCHANGED <<wiki, run>>

(* With a list, or in eager mode, the body is at hand; otherwise the        *)
(* original content is fetched.                                             *)
Prepare(w, res) ==
    GoTo(w, IF res.status = "success" \/ eager[w] THEN "edit" ELSE "original")

(* Mutant: a failed query is run again for the next output format. *)
UseTarget_RetriesQuery(w) ==
    /\ At(w, "target")
    /\ page[Target(w)] # Missing /\ ~IsRedirect(page[Target(w)])
    /\ Target(w) \notin Denied
    /\ IF result[w].status # "success" THEN GoTo(w, "query") ELSE Prepare(w, result[w])
    /\ UNCHANGED <<wiki, faults, run, out, eager, result, original>>

(* The executor runs the query the first time and keeps what came of it.    *)
UseTarget(w) ==
    /\ At(w, "target")
    /\ page[Target(w)] # Missing /\ ~IsRedirect(page[Target(w)])
    /\ Target(w) \notin Denied
    /\ IF result[w] = Pending THEN GoTo(w, "query") ELSE Prepare(w, result[w])
    /\ UNCHANGED <<wiki, faults, run, out, eager, result, original>>

(* The body of a failed query is what is written in eager mode.             *)
Outcomes ==
    {[status |-> "success", body |-> <<list>>] : list \in Lists} \cup
    {[status |-> failure, body |-> <<FailureText>>] : failure \in Failures}

Execute(w) ==
    /\ At(w, "query")
    /\ \E res \in Outcomes :
        /\ result' = [result EXCEPT ![w] = res]
        /\ Prepare(w, res)
    /\ UNCHANGED <<wiki, faults, run, out, eager, original>>

FetchOriginal(w) ==
    /\ At(w, "original") /\ GoTo(w, "edit")
    /\ page[Target(w)] # Missing
    /\ original' = [original EXCEPT ![w] = page[Target(w)]]
    /\ UNCHANGED <<wiki, faults, run, out, eager, result>>

(* No content in the reply, or no reply: "page edit cancelled".             *)
FetchOriginalFails(w) ==
    /\ At(w, "original")
    /\ \/ page[Target(w)] = Missing /\ UNCHANGED faults
       \/ Outage
    /\ NextOutput(w)
    /\ UNCHANGED <<wiki, run>>

NewBody(w) ==
    IF result[w].status = "success" \/ eager[w] THEN result[w].body
    ELSE Body(original[w])

ThisEdit(w) ==
    [writer |-> w, run |-> run[w], target |-> Target(w), result |-> result[w],
     content |-> Header(result[w].status) \o NewBody(w)]

SendEdit(w) ==
    /\ At(w, "edit") /\ GoTo(w, "editing")
    /\ inflight' = inflight \cup {ThisEdit(w)}
    /\ UNCHANGED <<page, past, edits, faults, run, out, eager, result, original>>

(* The reply, or a failed request whose edit may still be on its way.       *)
EditReply(w) ==
    /\ At(w, "editing")
    /\ \/ ThisEdit(w) \notin inflight /\ UNCHANGED faults
       \/ Outage
    /\ NextOutput(w)
    /\ UNCHANGED <<wiki, run>>

(* The runner is aborted: whatever was sent stays sent.                     *)
Abort(w) ==
    /\ ~At(w, "idle") /\ Ends(w)
    /\ UNCHANGED <<wiki, faults, run>>

WriterStep(w) ==
    \/ Start(w) \/ SkipTarget(w) \/ UseTarget(w) \/ Execute(w)
    \/ FetchOriginal(w) \/ FetchOriginalFails(w) \/ SendEdit(w) \/ EditReply(w)
    \/ Abort(w)

Next ==
    \/ \E t \in Targets : EditorActs(t)
    \/ \E e \in inflight : HandleEdit(e) \/ DropEdit(e)
    \/ \E w \in Writers : WriterStep(w)

Spec == Init /\ [][Next]_vars

-----------------------------------------------------------------------------
(* Every output format of a run shows the same result: the query is run     *)
(* once per run (queryexecutor.rs:27, "executor lazy loads"), though        *)
(* targets are skipped, replies are lost and edits arrive late.             *)
OneResultPerRun ==
    \A e, f \in inflight :
        e.writer = f.writer /\ e.run = f.run => e.result = f.result

(* "Luckily if the original content is generated by the bot this will not   *)
(* be a problem" (pagewriter.rs:236): a failing run replaces the header it  *)
(* finds.  Editors can make it miss one, never more than one per action, so *)
(* headers do not pile up however often the query fails.                    *)
Closes(content) == {i \in DOMAIN content : content[i] = "close"}
HeadersDoNotPileUp ==
    \A t \in Targets :
        page[t] # Missing =>
            Cardinality(Closes(page[t])) <= 1 + (MaxEdits - edits)

(* The contract with the editors: TargetPage, whose past bodies are the     *)
(* auxiliary variable and whose turns are the editor actions used up.       *)
Contract == INSTANCE TargetPage WITH turns <- MaxEdits - edits
WritesAsPromised == Contract!Spec

(* "Not a redirect nor a missing page nor in a denied namespace, continue"  *)
(* (pagewriter.rs:167): an edit never replaces a redirect.                  *)
RedirectsKept ==
    [][\A t \in Targets :
         page[t] # Missing /\ IsRedirect(page[t]) /\ page'[t] # page[t]
            => edits' # edits]_vars
===============================================================================
