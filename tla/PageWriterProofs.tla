--------------------------- MODULE PageWriterProofs ---------------------------
(***************************************************************************)
(* Proofs about PageWriter for any number of writers and targets, any       *)
(* output formats and any number of runs, editor actions and faults: the    *)
(* writers keep the contract of TargetPage, and a run shows one result.     *)
(***************************************************************************)
EXTENDS PageWriter, TLAPS

Places == {"idle", "target", "query", "original", "edit", "editing"}

IsFunctionOn(f, S) == f = [x \in S |-> f[x]]

(* What the steps below need of TypeOK; the contents are left open.         *)
Types ==
    /\ IsFunctionOn(page, Targets)
    /\ IsFunctionOn(past, Targets)
    /\ edits \in Nat
    /\ pc \in [Writers -> Places]
    /\ run \in [Writers -> Nat]
    /\ out \in [Writers -> Nat]
    /\ \A w \in Writers : pc[w] # "idle" => out[w] \in 1..Len(Output[w])
    /\ IsFunctionOn(eager, Writers)
    /\ result \in [Writers -> Outcomes \cup {Pending}]
    /\ IsFunctionOn(original, Writers)

(* The body a page shows is one of its past bodies.                         *)
PastIsComplete == \A t \in Targets : BodiesOf(page[t]) \subseteq past[t]

(* What the contract lets the bot put on page t.                            *)
Allowed(t, content) ==
    \/ \E list \in Lists : content = Header("success") \o <<list>>
    \/ \E f \in Failures : content = Header(f) \o <<FailureText>>
    \/ \E f \in Failures, body \in past[t] : content = Header(f) \o body

EditAllowed(e) ==
    /\ e.writer \in Writers
    /\ e.target \in Targets \ Denied
    /\ Allowed(e.target, e.content)

(* A run only goes on with a target that is not denied; what it is about to *)
(* post is made from its one result and, if it keeps the body, from a past  *)
(* body of this target.                                                     *)
WriterAllowed(w) ==
    /\ pc[w] \notin {"idle", "target"} => Target(w) \notin Denied
    /\ pc[w] = "query" => result[w] = Pending
    /\ pc[w] \in {"original", "edit", "editing"} => result[w] \in Outcomes
    /\ pc[w] = "edit" /\ result[w].status # "success" /\ ~eager[w]
         => Body(original[w]) \in past[Target(w)]

(* The edits of the run under way show the result its executor holds.       *)
RunAgrees(e) ==
    /\ e.result \in Outcomes
    /\ e.run \in Nat /\ e.run <= run[e.writer]
    /\ e.run = run[e.writer] /\ pc[e.writer] # "idle" => e.result = result[e.writer]

Inv ==
    /\ Types
    /\ PastIsComplete
    /\ \A e \in inflight : EditAllowed(e)
    /\ \A w \in Writers : WriterAllowed(w)
    /\ \A e \in inflight : RunAgrees(e)
    /\ OneResultPerRun

-----------------------------------------------------------------------------
(* No outcome of a query is taken for the lack of one.                      *)
LEMMA OutcomeShape ==
    ASSUME NEW res \in Outcomes
    PROVE  /\ res # Pending
           /\ \/ res.status = "success" /\ \E list \in Lists : res.body = <<list>>
              \/ res.status \in Failures /\ res.status # "success"
                   /\ res.body = <<FailureText>>
  BY PageWriterAssumption DEF Outcomes, Pending

(* A target under way is one of the targets.                                *)
LEMMA TargetIsTarget ==
    ASSUME Types, NEW w \in Writers, pc[w] # "idle"
    PROVE  Target(w) \in Targets
  <1>1. out[w] \in 1..Len(Output[w])
    BY DEF Types
  <1>2. Output[w] \in Seq(Targets)
    BY PageWriterAssumption
  <1> QED
    BY <1>1, <1>2 DEF Target

(* What a run composes is allowed on its target.                            *)
LEMMA ThisEditAllowed ==
    ASSUME Inv, NEW w \in Writers, pc[w] = "edit"
    PROVE  EditAllowed(ThisEdit(w)) /\ RunAgrees(ThisEdit(w))
  <1> DEFINE res == result[w]
  <1>1. res \in Outcomes /\ Target(w) \notin Denied
    BY DEF Inv, WriterAllowed
  <1>2. Target(w) \in Targets
    BY TargetIsTarget DEF Inv
  <1>3. Allowed(Target(w), Header(res.status) \o NewBody(w))
    <2>1. CASE res.status = "success"
      <3>1. PICK list \in Lists : res.body = <<list>>
        BY <1>1, <2>1, OutcomeShape, PageWriterAssumption
      <3> QED
        BY <2>1, <3>1 DEF Allowed, NewBody
    <2>2. CASE res.status # "success" /\ eager[w]
      BY <1>1, <2>2, OutcomeShape DEF Allowed, NewBody
    <2>3. CASE res.status # "success" /\ ~eager[w]
      <3>1. res.status \in Failures
        BY <1>1, <2>3, OutcomeShape
      <3>2. Body(original[w]) \in past[Target(w)]
        BY <2>3 DEF Inv, WriterAllowed
      <3> QED
        BY <2>3, <3>1, <3>2 DEF Allowed, NewBody
    <2> QED
      BY <2>1, <2>2, <2>3
  <1>4. run[w] \in Nat
    BY DEF Inv, Types
  <1> QED
    BY <1>1, <1>2, <1>3, <1>4 DEF EditAllowed, RunAgrees, ThisEdit

LEMMA Initially == Init => Inv
  <1> SUFFICES ASSUME Init PROVE Inv
    OBVIOUS
  <1>1. Types
    BY PageWriterAssumption DEF Init, Types, IsFunctionOn, Places
  <1>2. PastIsComplete
    BY DEF Init, PastIsComplete
  <1> QED
    BY <1>1, <1>2 DEF Init, Inv, WriterAllowed, OneResultPerRun

-----------------------------------------------------------------------------
(* Past bodies are never forgotten, so what was allowed stays allowed.      *)
LEMMA BecomesKeeps ==
    ASSUME Types, PastIsComplete, NEW t \in Targets, NEW content, Becomes(t, content)
    PROVE  /\ IsFunctionOn(page, Targets)' /\ IsFunctionOn(past, Targets)'
           /\ PastIsComplete'
           /\ \A u \in Targets : past[u] \subseteq past'[u]
  BY DEF Types, IsFunctionOn, PastIsComplete, Becomes, BodiesOf

LEMMA GrowingPast ==
    ASSUME \A u \in Targets : past[u] \subseteq past'[u]
    PROVE  /\ \A e : EditAllowed(e) => EditAllowed(e)'
           /\ \A u \in Targets : \A c : Allowed(u, c) => Allowed(u, c)'
  BY DEF EditAllowed, Allowed

(* A step of the wiki: pages change, edits leave, the writers stay put.     *)
LEMMA WikiStep ==
    ASSUME Inv, UNCHANGED writers, inflight' \subseteq inflight, edits' \in Nat,
           \/ UNCHANGED <<page, past>>
           \/ \E t \in Targets : \E content : Becomes(t, content)
    PROVE  Inv'
  <1>1. /\ IsFunctionOn(page, Targets)' /\ IsFunctionOn(past, Targets)'
        /\ PastIsComplete'
        /\ \A u \in Targets : past[u] \subseteq past'[u]
    <2>1. CASE UNCHANGED <<page, past>>
      BY <2>1 DEF Inv, Types, IsFunctionOn, PastIsComplete, BodiesOf
    <2>2. CASE \E t \in Targets : \E content : Becomes(t, content)
      BY <2>2, BecomesKeeps DEF Inv
    <2> QED
      BY <2>1, <2>2
  <1>2. Types'
    BY <1>1 DEF Inv, Types, IsFunctionOn, writers
  <1>3. \A e \in inflight' : EditAllowed(e)'
    BY <1>1, GrowingPast DEF Inv
  <1>4. ASSUME NEW w \in Writers PROVE WriterAllowed(w)'
    <2>1. WriterAllowed(w)
      BY DEF Inv
    <2>2. Target(w)' = Target(w)
      BY DEF Target, writers
    <2>3. pc[w] = "edit" => past[Target(w)] \subseteq past'[Target(w)]
      BY <1>1, TargetIsTarget DEF Inv
    <2> QED
      BY <2>1, <2>2, <2>3 DEF WriterAllowed, writers
  <1>5. (\A e \in inflight : RunAgrees(e))' /\ OneResultPerRun'
    BY DEF Inv, RunAgrees, OneResultPerRun, writers
  <1> QED
    BY <1>1, <1>2, <1>3, <1>4, <1>5 DEF Inv

-----------------------------------------------------------------------------
(* A step of writer w: the pages stay, and so do the other writers.         *)
Only(w, f) == f' = [f EXCEPT ![w] = f'[w]]

LEMMA WriterStepKeeps ==
    ASSUME Inv, NEW w \in Writers, UNCHANGED <<page, past, edits>>,
           Types', WriterAllowed(w)',
           Only(w, pc), Only(w, run), Only(w, out), Only(w, eager),
           Only(w, result), Only(w, original),
           \/ inflight' = inflight
           \/ inflight' = inflight \cup {ThisEdit(w)} /\ pc[w] = "edit",
           \/ run'[w] = run[w] + 1
           \/ /\ run'[w] = run[w]
              /\ \/ pc'[w] = "idle"
                 \/ pc[w] # "idle" /\ (result'[w] = result[w] \/ result[w] = Pending)
    PROVE  Inv'
  <1>1. PastIsComplete'
    BY DEF Inv, PastIsComplete, BodiesOf
  <1>2. \A e \in inflight' : EditAllowed(e) /\ RunAgrees(e)
    BY ThisEditAllowed DEF Inv
  <1>3. \A e \in inflight' : EditAllowed(e)'
    BY <1>2 DEF EditAllowed, Allowed
  <1>4. ASSUME NEW v \in Writers PROVE WriterAllowed(v)'
    <2>1. CASE v = w
      BY <2>1
    <2>2. CASE v # w
      <3>1. /\ pc'[v] = pc[v] /\ out'[v] = out[v] /\ eager'[v] = eager[v]
            /\ result'[v] = result[v] /\ original'[v] = original[v]
        BY <2>2 DEF Inv, Types, IsFunctionOn, Only
      <3>2. WriterAllowed(v)
        BY DEF Inv
      <3> QED
        BY <3>1, <3>2 DEF WriterAllowed, Target
    <2> QED
      BY <2>1, <2>2
  <1>5. ASSUME NEW e \in inflight' PROVE RunAgrees(e)'
    <2>1. RunAgrees(e) /\ e.writer \in Writers
      BY <1>2 DEF EditAllowed
    <2>2. CASE e.writer # w
      <3>1. /\ pc'[e.writer] = pc[e.writer] /\ run'[e.writer] = run[e.writer]
            /\ result'[e.writer] = result[e.writer]
        BY <2>1, <2>2 DEF Inv, Types, Only
      <3> QED
        BY <2>1, <3>1 DEF RunAgrees
    <2>3. CASE e.writer = w
      <3>1. run[w] \in Nat
        BY DEF Inv, Types
      <3>2. e.result # Pending
        BY <2>1, OutcomeShape DEF RunAgrees
      <3> QED
        BY <2>1, <2>3, <3>1, <3>2 DEF RunAgrees
    <2> QED
      BY <2>2, <2>3
  <1>6. OneResultPerRun'
    <2>1. CASE inflight' = inflight
      BY <2>1 DEF Inv, OneResultPerRun
    <2>2. CASE inflight' = inflight \cup {ThisEdit(w)} /\ pc[w] = "edit"
      <3>1. ASSUME NEW e \in inflight, e.writer = w, e.run = run[w]
            PROVE  e.result = result[w]
        BY <2>2, <3>1 DEF Inv, RunAgrees
      <3>2. /\ ThisEdit(w).writer = w /\ ThisEdit(w).run = run[w]
            /\ ThisEdit(w).result = result[w]
        BY DEF ThisEdit
      <3>3. ASSUME NEW e \in inflight', NEW f \in inflight',
                   e.writer = f.writer, e.run = f.run
            PROVE  e.result = f.result
        <4>1. CASE e \in inflight /\ f \in inflight
          BY <3>3, <4>1 DEF Inv, OneResultPerRun
        <4>2. CASE e = ThisEdit(w) \/ f = ThisEdit(w)
          BY <2>2, <3>1, <3>2, <3>3, <4>2
        <4> QED
          BY <2>2, <4>1, <4>2
      <3> QED
        BY <3>3 DEF OneResultPerRun
    <2> QED
      BY <2>1, <2>2
  <1> QED
    BY <1>1, <1>3, <1>4, <1>5, <1>6 DEF Inv

(* The next output format, or the end of the run.                           *)
LEMMA NextOutputKeeps ==
    ASSUME Inv, NEW w \in Writers, pc[w] # "idle",
           UNCHANGED <<wiki, run>>, NextOutput(w) \/ Ends(w)
    PROVE  Inv'
  <1> USE DEF Inv, Types, IsFunctionOn
  <1>1. /\ Only(w, pc) /\ Only(w, run) /\ Only(w, out) /\ Only(w, eager)
        /\ Only(w, result) /\ Only(w, original)
    <2>1. Only(w, pc)
      BY DEF NextOutput, Ends, GoTo, Only
    <2>2. Only(w, out)
      BY DEF NextOutput, Ends, Only
    <2>3. Only(w, original)
      BY DEF NextOutput, Ends, Only
    <2>4. Only(w, eager) /\ Only(w, result) /\ Only(w, run)
      BY DEF NextOutput, Ends, Only
    <2> QED
      BY <2>1, <2>2, <2>3, <2>4
  <1>2. Types'
    <2>1. pc' \in [Writers -> Places]
      BY DEF NextOutput, Ends, GoTo, Places
    <2>2. out' \in [Writers -> Nat]
      <3>1. out[w] + 1 \in Nat /\ 0 \in Nat
        OBVIOUS
      <3> QED
        BY <3>1 DEF NextOutput, Ends
    <2>3. ASSUME NEW v \in Writers, pc'[v] # "idle" PROVE out'[v] \in 1..Len(Output[v])
      <3>1. Len(Output[v]) \in Nat
        BY PageWriterAssumption
      <3> QED
        BY <2>3, <3>1 DEF NextOutput, Ends, GoTo
    <2>4. result' \in [Writers -> Outcomes \cup {Pending}]
      BY DEF NextOutput, Ends
    <2>5. IsFunctionOn(eager, Writers)' /\ IsFunctionOn(original, Writers)'
      BY DEF NextOutput, Ends
    <2> QED
      BY <2>1, <2>2, <2>3, <2>4, <2>5 DEF wiki
  <1>3. pc'[w] \in {"idle", "target"}
    BY DEF NextOutput, Ends, GoTo
  <1>4. pc'[w] = "idle" \/ result'[w] = result[w]
    BY DEF NextOutput, Ends, GoTo
  <1>5. WriterAllowed(w)'
    BY <1>3 DEF WriterAllowed
  <1> QED
    BY <1>1, <1>2, <1>4, <1>5, WriterStepKeeps DEF wiki

-----------------------------------------------------------------------------
(* The actions of a writer, one step each.                                  *)
LEMMA WriterKeepsInv ==
    ASSUME Inv, NEW w \in Writers, WriterStep(w)
    PROVE  Inv'
  <1> USE DEF wiki
  <1>1. CASE Start(w)
    <2> USE <1>1 DEF Start, At, GoTo
    <2>1. Types'
      <3>1. Output[w] \in Seq(Targets) /\ Output[w] # <<>>
        BY PageWriterAssumption
      <3>2. 1 \in 1..Len(Output[w])
        BY <3>1
      <3>3. ASSUME NEW v \in Writers, pc'[v] # "idle" PROVE out'[v] \in 1..Len(Output[v])
        BY <3>2, <3>3 DEF Inv, Types
      <3>4. pc' \in [Writers -> Places] /\ run' \in [Writers -> Nat] /\ out' \in [Writers -> Nat]
        BY DEF Inv, Types, Places
      <3>5. IsFunctionOn(eager, Writers)'
        BY DEF Inv, Types, IsFunctionOn
      <3> QED
        BY <3>3, <3>4, <3>5 DEF Inv, Types, IsFunctionOn
    <2>2. WriterAllowed(w)'
      BY DEF Inv, Types, WriterAllowed
    <2>3. Only(w, pc) /\ Only(w, run) /\ Only(w, out) /\ Only(w, eager)
            /\ Only(w, result) /\ Only(w, original)
      BY DEF Inv, Types, IsFunctionOn, Only
    <2>4. run'[w] = run[w] + 1
      BY DEF Inv, Types
    <2> QED
      BY <2>1, <2>2, <2>3, <2>4, WriterStepKeeps
  <1>2. CASE SkipTarget(w)
    BY <1>2, NextOutputKeeps DEF SkipTarget, At
  <1>3. CASE UseTarget(w)
    <2> USE <1>3 DEF UseTarget, At, GoTo, Prepare
    <2>1. Types'
      BY DEF Inv, Types, IsFunctionOn, Places
    <2>2. WriterAllowed(w)'
      BY OutcomeShape DEF Inv, Types, WriterAllowed, Target
    <2>3. Only(w, pc) /\ Only(w, run) /\ Only(w, out) /\ Only(w, eager)
            /\ Only(w, result) /\ Only(w, original)
      BY DEF Inv, Types, IsFunctionOn, Only
    <2> QED
      BY <2>1, <2>2, <2>3, WriterStepKeeps
  <1>4. CASE Execute(w)
    <2> USE <1>4 DEF Execute, At, GoTo, Prepare
    <2>1. Types'
      BY DEF Inv, Types, IsFunctionOn, Places
    <2>2. WriterAllowed(w)'
      BY OutcomeShape DEF Inv, Types, WriterAllowed, Target
    <2>3. Only(w, pc) /\ Only(w, run) /\ Only(w, out) /\ Only(w, eager)
            /\ Only(w, result) /\ Only(w, original)
      BY DEF Inv, Types, IsFunctionOn, Only
    <2>4. result[w] = Pending
      BY DEF Inv, WriterAllowed
    <2> QED
      BY <2>1, <2>2, <2>3, <2>4, WriterStepKeeps
  <1>5. CASE FetchOriginal(w)
    <2> USE <1>5 DEF FetchOriginal, At, GoTo
    <2>1. Types'
      BY DEF Inv, Types, IsFunctionOn, Places
    <2>2. Body(page[Target(w)]) \in past[Target(w)]
      BY TargetIsTarget DEF Inv, PastIsComplete, BodiesOf
    <2>3. WriterAllowed(w)'
      BY <2>2 DEF Inv, Types, IsFunctionOn, WriterAllowed, Target
    <2>4. Only(w, pc) /\ Only(w, run) /\ Only(w, out) /\ Only(w, eager)
            /\ Only(w, result) /\ Only(w, original)
      BY DEF Inv, Types, IsFunctionOn, Only
    <2> QED
      BY <2>1, <2>3, <2>4, WriterStepKeeps
  <1>6. CASE FetchOriginalFails(w)
    BY <1>6, NextOutputKeeps DEF FetchOriginalFails, At
  <1>7. CASE SendEdit(w)
    <2> USE <1>7 DEF SendEdit, At, GoTo
    <2>1. Types'
      BY DEF Inv, Types, IsFunctionOn, Places
    <2>2. WriterAllowed(w)'
      BY DEF Inv, Types, WriterAllowed, Target
    <2>3. Only(w, pc) /\ Only(w, run) /\ Only(w, out) /\ Only(w, eager)
            /\ Only(w, result) /\ Only(w, original)
      BY DEF Inv, Types, IsFunctionOn, Only
    <2> QED
      BY <2>1, <2>2, <2>3, WriterStepKeeps
  <1>8. CASE EditReply(w)
    BY <1>8, NextOutputKeeps DEF EditReply, At
  <1>9. CASE Abort(w)
    BY <1>9, NextOutputKeeps DEF Abort, At
  <1> QED
    BY <1>1, <1>2, <1>3, <1>4, <1>5, <1>6, <1>7, <1>8, <1>9 DEF WriterStep

LEMMA InductiveStep == Inv /\ [Next]_vars => Inv'
  <1> SUFFICES ASSUME Inv, [Next]_vars PROVE Inv'
    OBVIOUS
  <1>1. ASSUME NEW t \in Targets, EditorActs(t) PROVE Inv'
    <2>1. edits' \in Nat
      BY <1>1 DEF Inv, Types, EditorActs
    <2> QED
      BY <1>1, <2>1, WikiStep DEF EditorActs
  <1>2. ASSUME NEW e \in inflight, HandleEdit(e) \/ DropEdit(e) PROVE Inv'
    <2>1. e.target \in Targets
      BY DEF Inv, EditAllowed
    <2>2. edits' \in Nat
      BY <1>2 DEF Inv, Types, HandleEdit, DropEdit
    <2> QED
      BY <1>2, <2>1, <2>2, WikiStep DEF HandleEdit, DropEdit
  <1>3. ASSUME NEW w \in Writers, WriterStep(w) PROVE Inv'
    BY <1>3, WriterKeepsInv
  <1>4. CASE UNCHANGED vars
    BY <1>4, WikiStep DEF vars, wiki, writers, Inv, Types
  <1> QED
    BY <1>1, <1>2, <1>3, <1>4 DEF Next

(* The invariant holds of every behaviour of the writers.                   *)
THEOREM Invariance == Spec => []Inv
  BY Initially, InductiveStep, PTL DEF Spec

(* Every output format of a run shows the same result of its query, for any *)
(* number of writers, runs, faults and late edits.                          *)
THEOREM RunShowsOneResult == Spec => []OneResultPerRun
  <1>1. Inv => OneResultPerRun
    BY DEF Inv
  <1> QED
    BY <1>1, Invariance, PTL

-----------------------------------------------------------------------------
(* The refinement: initial states map to initial states, and every step to  *)
(* a step of the contract or a stutter.                                     *)
LEMMA InitRefines == Init => Contract!Init
  BY PageWriterAssumption DEF Init, Contract!Init, BodiesOf, Contract!BodiesOf

LEMMA BecomesRefines ==
    ASSUME NEW t \in Targets, NEW content, Becomes(t, content)
    PROVE  Contract!Becomes(t, content)
  BY DEF Becomes, BodiesOf, Contract!Becomes, Contract!BodiesOf

LEMMA StepRefines == Inv /\ [Next]_vars => [Contract!Next]_(Contract!vars)
  <1> SUFFICES ASSUME Inv, [Next]_vars PROVE [Contract!Next]_(Contract!vars)
    OBVIOUS
  <1>1. ASSUME NEW t \in Targets, EditorActs(t) PROVE Contract!Next
    <2>1. PICK content : Becomes(t, content) /\ edits' = edits - 1
      BY <1>1 DEF EditorActs
    <2>2. content = page'[t]
      BY <2>1 DEF Inv, Types, IsFunctionOn, Becomes
    <2>3. MaxEdits - edits' = (MaxEdits - edits) + 1
      BY <2>1, PageWriterAssumption DEF Inv, Types
    <2> QED
      BY <2>1, <2>2, <2>3, BecomesRefines DEF Contract!Next, Contract!EditorActs
  <1>2. ASSUME NEW e \in inflight, HandleEdit(e) \/ DropEdit(e)
        PROVE  [Contract!Next]_(Contract!vars)
    <2>1. EditAllowed(e)
      BY DEF Inv
    <2>2. CASE UNCHANGED <<page, past>>
      BY <1>2, <2>2 DEF HandleEdit, DropEdit, Contract!vars
    <2>3. CASE page[e.target] # Missing /\ Becomes(e.target, e.content) /\ edits' = edits
      <3>1. Contract!Becomes(e.target, e.content)
        BY <2>1, <2>3, BecomesRefines DEF EditAllowed
      <3>2. \/ Contract!ShowsList(e.target)
            \/ Contract!ShowsFailure(e.target)
            \/ Contract!KeepsBody(e.target)
        BY <2>1, <3>1 DEF EditAllowed, Allowed, Contract!ShowsList,
           Contract!ShowsFailure, Contract!KeepsBody
      <3>3. Contract!BotWrites(e.target)
        BY <2>1, <2>3, <3>2 DEF EditAllowed, Contract!BotWrites
      <3> QED
        BY <2>1, <3>3 DEF EditAllowed, Contract!Next
    <2> QED
      BY <1>2, <2>2, <2>3 DEF HandleEdit, DropEdit, NoCreate
  <1>3. ASSUME NEW w \in Writers, WriterStep(w) PROVE UNCHANGED Contract!vars
    BY <1>3 DEF WriterStep, Start, SkipTarget, UseTarget, Execute, FetchOriginal,
       FetchOriginalFails, SendEdit, EditReply, Abort, wiki, Contract!vars
  <1>4. CASE UNCHANGED vars
    BY <1>4 DEF vars, wiki, Contract!vars
  <1> QED
    BY <1>1, <1>2, <1>3, <1>4 DEF Next

(* The writers keep the contract with the editors: they bring no page into  *)
(* being, leave denied pages alone and only ever post a list, the failure   *)
(* text or a body the page has had.                                         *)
THEOREM ContractKept == Spec => WritesAsPromised
  BY Invariance, InitRefines, StepRefines, PTL DEF Spec, WritesAsPromised, Contract!Spec
===============================================================================
