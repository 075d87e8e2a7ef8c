# Verification of the page list bot

TLA+ models of `pagelist-bot` (Rust, `src/`), checked by TLC on small instances, with
theorems checked by TLAPS for every value of the constants. Paths below are relative to
`src/src/`.

The bot keeps pages of a MediaWiki wiki up to date: each *task page* on the wiki holds a
query, a cron schedule and the target pages that show the result of the query. A
configuration page on the wiki switches the whole bot on and off.

## 1. Inventory

| Component | State | Operations | Talks to |
|---|---|---|---|
| Task finder, `routine/taskfinder.rs` | four globals behind locks (switch, default timeout and limit, denied namespaces, header template), `task_pool`, `task_map` | every loop: fetch the configuration, write the globals one by one, list the task directory, drop (abort) and spawn runners | API service, runners |
| Task runner, `routine/taskrunner.rs` | one tokio task per page; `aligned_to_cron`, the sleep under way | fetch the task page, read the globals one by one, run the page writer, sleep until the next time of the schedule | API service, globals, page writer |
| Page writer, `routine/pagewriter.rs` | output formats, eager flag, executor | per target: check it, run the query, compose header and body (or fetch the old body), post the edit | API service, query executor |
| Query executor, `routine/queryexecutor.rs` | cached result | run the query once, with a timeout | parser, solver |
| API service, `apiservice.rs` | the `Api` object (the session) and the csrf token, each behind a read-write lock | initialisation, hourly check that logs in again, requests, edits, making of titles | the wiki; shared by everybody |
| Parser, `parser/` | none | grammar (LALR), conversion of the expression to instructions on registers, three simplifying passes | |
| Query solver, `solver/mod.rs` | registers | carries out the instructions, one listing or set operation each | API solver |
| API solver, `solver/apisolver.rs` | per call: titles found, categories visited, a queue of categories with their depths | links, backlinks, embedding pages, prefixes: one listing; members of a category: one listing per category that is reached | API service |
| Bootstrap, `main.rs`, `arg.rs`, `types.rs` | | arguments, files, initialisation, ctrl-c | |

**Interactions.** The finder and the runners share the four globals and nothing else; a
runner is stopped by dropping its `TaskRunner`, which calls `abort()`. All of them share the
session of the API service. Two tasks may share a target page. Editors of the wiki change
the configuration, the directory, the task pages and the targets between any two requests.

**What is hard.** Globals that are written and read one at a time; `abort()` that only takes
effect at a suspension point; routines that panic on an unwrap and are never restarted; a
page that is checked before a query of several minutes and written after it; edits whose
reply is lost and which are carried out later; a session that expires, is renewed in two
requests of which either may fail, and is used meanwhile; a fair lock under which readers
queue behind a waiting writer; a category walk over a graph with cycles, whose listings are taken one after
the other while it changes; a schedule in wall-clock time and a sleep in monotonic time; a
query compiler that renumbers the registers it searches by
bisection. The list with lines is under `hazards` in `PROJECT.json`.

**What makes them correct.** Finder and runners: nothing runs that a later listing cannot
stop; edits respect a recent configuration; the bot can be switched off, and wanted tasks go
on after requests that failed and pages that could not be read, unless a routine of theirs has
panicked and still has its entry in `task_map`. Page writer: it creates no page, leaves denied pages alone, shows one
result per run and, when the query fails, keeps the body the page had. API service: nobody
waits for ever, no request overlaps a renewal of the session, a routine loses at most one edit
per session to an old token, the session recovers. Schedule: a task is run for each of its times at most once, not before it,
and not on the way out of a failure. Parser and query solver: the answer is what the
expression means. API solver: whatever was there all the time is found, nothing else is that
never was, filters keep what the wiki does with them, the walk ends.

## 2. Modules

| Module | Models | Role |
|---|---|---|
| `TaskRoutines` | finder, runners, outline of the writer | state machine, safety and liveness |
| `TaskRoutinesProofs` | | its theorems |
| `TargetPage` | what the writer promises to editors | abstract specification |
| `PageWriter` | writer and executor, with page contents | refines `TargetPage` |
| `PageWriterProofs` | | its theorems: the contract, one result per run |
| `PageContentProofs` | | its theorems about the contents of pages |
| `CronTimer` | when a runner runs: schedule, two clocks, retries, restarts | state machine, action properties |
| `CronTimerProofs` | | its theorems |
| `ApiService` | session, token, lock, checker, initialisation | state machine, safety and liveness |
| `ApiServiceProofs` | | its theorems |
| `QueryConstraints` | lists, merging and admission of constraints | operators |
| `QueryMeaning` | expressions and what they mean | reference definition |
| `QueryMeaningProofs` | | theorems about constraints, expressions and meanings |
| `QueryCompiler` | conversion, passes, query solver | state machine against the meaning |
| `QueryCompilerProofs` | | its theorems |
| `ApiSolver` | one call of the API solver | state machine against a closure of the listings |
| `ApiSolverProofs` | | its theorems |
| `MC...` | | constants for TLC |

`PROJECT.json` maps each definition to the lines it stands for.

### TaskRoutines
One action is what a routine does between two points that another actor can observe. The
finder's place is `finder`: fetching the configuration (`config`), the four writes
(`activate`, `default`, `denyns`, `resultheader`), the listing (`tasks`), `map` (retain and
insert), `off` (the error path that clears the switch), `asleep`, `panicked`. A runner is a
page and a *slot*: an aborted incarnation may coexist with its successor. `status` is the
tokio task (`live`, `aborted`, `panicked`), `pc` the place. At the places in `Waiting` the
routine is suspended, so an aborted one is dropped there (`Wakes`); at those in `Polling` it
is in the middle of a poll and goes on although it was aborted (`Polls`).
A runner panics at four places: an invalid target title (`TargetPanics`, `pagewriter.rs:151` and
`164`), a number in the query that does not fit an `i64` (`QueryPanics`, `grammar.lalrpop:71`), a
schedule without a next time (`SchedulePanics`, `taskrunner.rs:124`) and a wake time that has
passed when the clock is read again (`DurationPanics`, line 125). The last two may happen while
the routine is already aborted. `MaxFaults` bounds failed requests and such wake times together.
Configurations are named by their position in `published`, the sequence of distinct
configurations the finder fetched; `view` records which publication a run read each global
from, and an edit carries that. `late` and the publications are auxiliary: no guard of the
bot looks at them. A schedule is reduced to `valid`, `invalid` or `exhausted` (parses, no next
time), a query to whether its numbers fit.

### CronTimer
The same runner as in `TaskRoutines`, seen from its clock: `place` runs through `fetch`,
`run`, `plan` (the schedule is parsed, the first reading of the clock), `measure` (the second
reading), `asleep`. A schedule is a set of times; one that has none left makes `PlanPanics`,
a time that is passed between the two readings makes `MeasurePanics`. `left` is the sleep by
the monotonic clock: `Tick` moves both clocks, `SetClock` only the wall clock, which is also
what a suspended machine looks like. `Wake` may come late. A run takes any time and may panic
(`RunPanics`, for the two causes named above).
`Restart` stands for the finder aborting the runner and starting another, for a panic followed
by a new entry, and for the end of the process: no state of the runner survives any of them.
Auxiliary: `shift` and `setback` say how the clock was set, `last` which time was run for,
`fresh` whether the page was edited since the last run.

### PageWriter and TargetPage
A page is a sequence of pieces (tags of a `noinclude` section, a status, text, space, the
redirect word, a list). `Body` is the code's search for an old header: trim, starts with the
opening tag, cut after the first closing tag. Edits are in flight from the request until the
server handles or drops them; a writer whose request fails goes on although its edit may
still be carried out. `Abort` ends a run at any place, and stands for a panic of it as well: pages and
edits cannot tell them apart.
`TargetPage` says what may become of a page: editors do what they like; the bot only writes
an existing, not denied page, and only its header with a list, with the failure text, or
with a body *this very page* has had. `PageWriter!Contract` instantiates it; `past`
is the auxiliary history of bodies. The contract allows that an older body comes back (there
is no base revision in the edit), which is what the code does.

### ApiService
`readers`, `writer` and `queue` are tokio's fair read-write lock. `op`, `pc` and `token` are
the clients: a request takes a read guard, keeps it until the reply (`Answer`), and turning a
reply into titles takes further guards. A token is described by the session it belongs to.
The checker holds the write guard from `check` or `new` until it rests. The mutex of the
network is dropped in the statement that takes it, so no action observes it.
`Cancel` is the timeout of a query or the abort of a runner: the guard and the place in the
queue go with the dropped future (`Leaves`). `StartEdit` reads the token and `PostEdit` joins the
queue, two steps, because the parameters of an edit are built under other locks in between.
Every request asserts the bot's user name (`param_decorate`), so none is served in another
session (`Served`); the edits that were refused for their token although the service had the
right one are counted in `refused`, which is auxiliary. The models assume a site profile with `assert`.
`README.md:19` of the repository calls that field optional and `param_decorate` (line 203) can do
without it, but the checker unwraps it (line 267): without the field it panics at its first
check, and no session is renewed from then on.

### ApiSolver
`call` holds the arguments; `queue`, `level` and `found` are `visit_cat_queue`, `visited_cats`
(with the depth) and `result_set`; the other four functions are a walk that visits one page.
A listing takes several requests, so it is not instantaneous: `Ask` starts it, editors may
change it (`Edit`), and `Receive` gets everything that was there all the time (`stable`), some of what
was there at some time (`seen`), and with a limit any part that reaches it. `Wanted` and
`Requested` are the parameters by what they select, `Extracted` is what is read out of
"pages" and "redirects", `Kept` the filters after the reply. `always` and `ever` are
auxiliary: what each listing had during the whole call and at any time of it.
The reference is not another walk: `Reached` is what no assignment of depths closed under the
subcategory relation can leave out.
What `FiltersKept` says is what the code does, which is less than its comments say. `apisolver.rs:50`
and its siblings call `ns` the "namespace filter"; with `.resolve()` the wiki applies it before
redirects are followed, so a page of another namespace may be in the answer if it is the target of
a redirect within. And `parser/ir.rs:21` has `.noredir()` "filter out all redirect pages", but
without `.direct()` backlinks are asked for with `gblredirect` (`apisolver.rs:89`), and then the
wiki filters only the links that come through a redirect: redirects that link to the page itself
stay in the answer (`FirstLevel`, from the constant `Direct`) unless redirects are resolved. What
the wiki does with the parameter is not in this repository, so this is no finding of a run.

### QueryConstraints, QueryMeaning and QueryCompiler
A constraint is a record with `None` for what was not given. An expression is the sequence of
its nodes in the order in which `ir_helper` visits them, operands first; a node names its
operands by their places. An instruction is a record with its register, code, operands, titles
and constraint.

Every loop of the code is a loop of `QueryCompiler`, one iteration a step: `Page`, `Unary`,
`Binary` and `Constrain` visit a node; `Hand` takes one item from the stack on which constraints
are pushed down to operands; `Talk`, `Empty`, `Clear` and `Nop` look at one instruction or take one
item from the stack of registers to be cleared; `Compute`, `Request` and `Finish` are the solver.
`phase` says which loop runs. The recursion and the loop of `ir_helper` over chains of unary and
constrained expressions visit the nodes in this order too. Conversion and passes
search by bisection; the model looks the register up, which is the same as long as the
instructions are sorted, and that is checked and proved (`OperandsDefined`).

`Meaning` evaluates an expression without registers: a namespace constraint filters the answer
of whatever it stands behind, the other constraints apply to the requests and pages below
(`Applying`) and are not merged but asked whether they agree. What a request lists is a constant:
`Listing`, filtered by namespace afterwards, or `Resolved` if redirects are resolved, which is
given the namespaces, because there the wiki applies them before it follows the redirects.
A limit that is not negative (its own, or `DefaultLimit`) may cut the answer to a request anywhere:
`Request` then takes any part of it, and `cut` remembers that.

`AnswersQuery` claims the meaning of an expression with two exceptions, which are where the code
does not deliver it. If a limit has cut a listing, the answer is that of the part that was listed.
And if a namespace filter is pushed down to a request that resolves redirects
(`ResolvesUnfiltered`), as in `linkto("C").resolve()` under `.ns({0,14})`, it is applied before the
resolution and not to the answer; without this premise TLC finds the property violated. That a
rejected query has no meaning is claimed of all. `LimitsKept` says which limit each instruction has
after the conversion, not how much is listed: `LimitsAt` collects those that apply to a node without
merging anything.

## 3. Runs

| Run | Shows |
|---|---|
| `scheduling_safety` | no orphaned runner, at most one edit after an abort, globals always from fetched configurations, every edit under a recent configuration |
| `scheduling_liveness` | the emergency stop works, removed tasks stop, wanted tasks keep running unless a routine of theirs that panicked keeps its entry |
| `empty_directory` (violation) | an empty directory makes the finder panic; then nothing switches the bot off |
| `exhausted_schedule` (violation) | a schedule without a next time kills the runner of the page for good |
| `torn_configuration` (violation) | an edit that no single configuration allowed |
| `shared_session` | no deadlock, no request during a renewal, at most one edit per routine and session lost to an old token, titles can be made, requests end, the session recovers |
| `failed_token` (violation) | a failed token request after a login leaves a stale token for good |
| `writing_contract` | the writer refines `TargetPage`; one result per run; headers do not pile up |
| `redirect_overwritten` (violation) | a target that becomes a redirect during the query is overwritten |
| `query_answers` | operands always defined, the answer is the meaning (unless a limit cuts a listing or a namespace filter meets the resolution of redirects), each request has the strictest limit that applies to it, nothing redundant is executed |
| `solver_requests` | nothing that stays is missed, nothing strange is found, filters hold as far as the wiki applies them, each category is asked for once, the walk ends |
| `cron_timer` | runs belong to times slept to, are not early and not repeated, at most one is stale |

**Bounds.** `scheduling_safety`: one page, two slots, two editor actions, one failed
request. Pages interact only through the globals, which the finder alone writes, so one page
with an aborted and a live incarnation has the interleavings that matter; two editor actions
give two changes of configuration, or a page that leaves and comes back. The theorems below
remove these bounds. `scheduling_liveness`: same size, with a directory that is never empty
and schedules that have a next time (the two violation runs show what happens otherwise), and
with every other panic: a task page with a good schedule whose query has a number that overflows
and whose second target is invalid (the run panics at whichever it comes to), and wake times that
pass at once. `LostOnlyByPanic` therefore allows a wanted task to
be lost only for as long as `task_map` holds a routine of it that panicked. `shared_session`: two clients and the checker, one expiry, two faults, one
cancellation: a reader behind the waiting checker behind a reader is the longest chain of
waiting with distinct roles. `writing_contract`: two tasks that share a target, one run each,
one editor action, one fault; each task has two targets, so a run has a second output format
to show a different result. `query_answers`: 24,605 expressions: all chains of up to
three unary operations or constraints over five kinds of leaves, set operations over
operands of two levels, each of twelve constraints alone, in pairs of one list and nested, on
each of the six unary operations, each of these over a request with redirects resolved and
filtered by namespace, and limits (two and a negative one) behind a union one of whose
operands has a limit. `DefaultLimit` is 5, so a request without a limit may be cut too; how many
titles a cut leaves is arbitrary, the number in the limit does not matter. Four titles (a page, a category and their talk pages)
distinguish whether a filter was switched by a toggle. `solver_requests`: three categories that
contain each other, two pages, a redirect from a page to a category and one from a category's
name to a page, two edits, every operation with every combination of filter, redirect
parameter, level, depth (0, 1, 2, none) and limit that changes what is asked. One category is
reachable at two depths and by two names, so the order of the queue matters, and with three
categories no path is longer than the `Distances` 0 to 3 that the reference looks at. `cron_timer`:
times 0 to 6, a schedule with several times, one that straddles them, one that ends and one
that does not parse; the clock is set twice, the page edited twice, the runner restarted once.
Two settings are needed to go forwards and back, two edits to change the schedule during a
run and again before the next. The theorems remove the bounds of these three.

**Deadlock checking** is off where the system may stop: the finder and a runner may panic
(`TaskRoutines`), the writers' runs are bounded and then nobody acts (`PageWriter`), a
query or a call of the solver ends (`QueryCompiler`, `ApiSolver`), and time is bounded (`CronTimer`). It is on for `ApiService`.

**Fairness.** `TaskRoutines`: weak fairness for the finder, for each runner and for the
server's handling of edits: tokio polls every task that was woken, timers fire, and a request
is answered or fails. Editors owe nothing and failures are bounded, so each property is
about a wiki that settles. `ApiService`: weak fairness for initialisation, checker, lock and
the steps of each client after it has begun a request; nobody must begin one. Weak fairness
is enough because no step is disabled again by others while its routine waits; what the lock
guarantees comes from its queue, not from strong fairness. `ApiSolver`: weak fairness for the
steps of the call, as every request is answered or fails; editors owe nothing. `CronTimer` has no
liveness property: that a wanted task runs again and again is in `scheduling_liveness`.

Every property has a mutant: a small change of a modelled definition, written next to the
original, under which TLC finds the property violated.

## 4. Proofs

**`TaskRoutinesProofs`** proves `TypeOK`, `NoOrphanRunner`, `OneEditAfterAbort`,
`NoConstructorDefaults` and `EditUnderRecentConfig` for all pages, slots, configurations,
tasks and bounds, from `TaskRoutinesAssumption`. None of these is inductive. `IInv`
adds: between updates the four globals stand for one publication, and during one they fall in
the order of writing by at most one (`GlobalsInOrder`); the switch is on only if its
publication is (`ActivatedByConfig`); runners exist only after a complete update
(`SpawnedAfterUpdate`); `task_map` holds only runners it has not dropped (`MapHolds`); an
edit after an abort ends the poll (`LateEdit`); and what a run knows at each place
(`ViewOf`). `EditUnderRecentConfig` needs that the finder writes the globals in the order in
which runs read them: a run that reads the switch of publication n finds the denied
namespaces of n-1 or later.

**`PageWriterProofs`** proves that `PageWriter` implements `TargetPage` (`ContractKept`) and
`OneResultPerRun` (`RunShowsOneResult`), from `PageWriterAssumption`. The invariant says that every
edit in flight is allowed by the contract *whenever* it is handled, which holds because past
bodies are never forgotten, and that an edit of the run under way shows the result its
executor holds. Each step maps to a step of the contract or a stutter.

**`PageContentProofs`** proves `TypeOK` and `HeadersDoNotPileUp` (`HeadersKeptFew`) for any
targets, lists, outcomes and number of edits. `PageWriterAssumption` says that the tags of a section
are neither lists nor statuses. On top of the invariant of `PageWriterProofs` it needs
what everything that is read, in flight or on a page is made of (`Contents`), and that below a header
there are at most as many closing tags as editors have made edits (`FewHeaders`): on pages, in the originals that
were fetched and in the edits that are composed from them. An edit adds one header in front of a
body that lost at most one, so writing the old body again and again adds none.

**`ApiServiceProofs`** proves `TypeOK`, `OneEditLostPerSession` (`LosesOneEdit`), `TitlesHaveApi` and `RenewsAlone` for any
number of clients, sessions, faults and cancellations, from `ApiServiceAssumption`. The
invariant has the lock at its centre (`Guards`): who holds which guard at which place, that a
writer excludes readers, that nobody waits twice; and the objects (`Objects`): when the `Api`
object is there and what it is to be while the checker renews it. `LosesOneEdit` adds (`Renewals`) that a
client that has lost an edit lost one only, while the service has the token of the session, and
that any token it holds since is that one; the count begins again when the session is over.

**`ApiSolverProofs`** proves all safety properties of `ApiSolver` for any set of titles, any
redirects that lead to non-redirects, any listings, any edits and all integers as depth
and limit. Its invariant: the queue is sorted by depth and spans at most two (`BreadthFirst`);
`stable` and `seen` enclose what the listing under way must and may show (`Window`), inside
`always` and `ever` (`History`); every visited category that is no longer queued has its
members, of the listings that were there all the time, in the answer and its subcategories visited
at most one deeper, unless a limit was reached (`CompleteOrLimited`); whatever was visited
at some depth was reached by a path of that length (`OnlyReached`), so the depths are
least (`LeastDepth`). `FiltersKept` is proved with the redirects it excepts (section 2). `NeverMissed` assumes that `Distances` holds all natural numbers: the
depths the walk itself assigned then form one of the closed assignments `Reached` quantifies over.

**`CronTimerProofs`** proves `TypeOK` and all properties of `CronTimer` for any schedules, any
time and any number of settings of the clock, edits and restarts, from `CronTimerAssumption`.
The invariant: what is left of a sleep is the way from now to the wake time but for the
shift (`Punctual`), the wake time was found after `planned` and is the next one after it
(`Planned`), runs so far were for times before it unless the clock was set back
(`Forward`), and the task in hand is that of the page unless the page is fresh (`UpToDate`).

**`QueryMeaningProofs`** proves about all constraints, from the assumptions on `None` and
`Namespaces`: merged filters pass exactly what both pass (`FiltersConjoin`); merged limits are
the stricter of both (`LimitsConjoin`); within one list that fails for a negative limit that
comes last (`LimitsInListConjoin`: `.limit(5).limit(-1)` has no limit); conflicts do not
depend on the order of merging (`ConflictsHaveNoOrder`), which is why `Meaning` need not merge
at all while the conversion merges from the inside out. It also holds what the
proofs about the compiler need of expressions: functions defined by recursion over the nodes
exist and have their defining equation (`Recursion`, `RecursionDown`; the
library's theorems for that take an operator as parameter), a node is the operand of one
other (`OneParent`), which lists apply to an operand and what they keep of it (`ApplyingIs`,
`RemainingOfOperands`), and that an expression with a meaning has one answer at every node
(`AnswersAre`).

**`QueryCompilerProofs`** proves all invariants of `QueryCompiler`, among them `LimitsKept` and
`AnswersQuery`, for every set of expressions, every listing, resolved or not, every limit and all constraints, from the
assumptions of the three modules; `AnswersQuery` with its two exceptions. It has four invariants, each on top of the first and the
last also on top of the third.

- `Shaped` is about the shape of the instructions in each phase, and gives `TypeOK` and
  `OperandsDefined`: they are numbered from 0 until the last pass and sorted in it; operands come
  before what uses them and nothing is used twice (`WellFormed`); every node visited has a
  register, and the registers that no instruction has used yet are those of the nodes no other
  node visited has as operand (`Converting`). The last is why a binary operation, whose operands
  the model takes from `out`, never shares one; without it, `remove_nop`, which gives the
  register of a Nop to the instruction it copies, could pull that instruction away from another
  user.
- `Simplified` says of each pass what it has settled up to the place it is at and why later
  steps keep it, and gives `NothingRedundant`: toggles are never made, a filter is only cleared,
  and behind a Nop that is deleted the operand of a toggle is again no toggle (`OverToggle`).
- `Merging` follows a list of constraints down the expression, and gives `LimitsKept`. Every node
  has its instruction, computed from the registers of the same operands (`Linked`). What is on the
  stack belongs to the last list and is on its way to something the list applies to, with the filter
  that the toggles in between make of it (`Handing`, `KeptBy`). There are registers that it has
  reached, such that its way on from there is on the stack (`Reached`), and each request or page
  carries exactly what the lists that have reached it give (`Carrying`): of limits the strictest,
  of namespaces the intersection, of the rest a value one of them has. When the stack is empty the list has
  therefore reached everything it applies to (`AllReached`), and when the conversion ends
  every list has (`Complete`).
- `Answering` says, of an expression for which an answer is claimed (`Claimed`), that the registers *could* have values U that each instruction computes from
  those of its operands, with the answer of the query in the last one, and gives `AnswersQuery`. After the
  conversion U is the answer of each node as far as the filters pushed into it leave something
  of it (`Remaining`): in a request or page the filter has been applied, or there is none where
  redirects are resolved, and set operations and toggles commute with what is pushed through them
  (`NodeValued`). No pass needs the values it
  found: `Talk` gives the register between two toggles the value before both, `Clear` makes what
  an empty register is computed from empty, and until an instruction on the stack is cleared it may
  contradict U. Both change a register that only one instruction reads; that is `WellFormed` again.
  Since the operands of every request have a value that may be asked about, the solver finds U
  and does not give up. What is cut short remains so (`SolverGoesOn`), so nothing is
  claimed after a cut. A legal query is not rejected because whatever has been merged into an
  instruction comes from lists that agree with the next one (`LegalIsConverted`).

**Only model-checked:** all liveness properties (fairness and ENABLED are out of the
prover's reach), and the five disagreements, which are counterexamples. `Meaning`
and the closures that `ApiSolver` is measured against are definitions: that they are the right ones is for
the reader to judge (section 2).

## 5. Not modelled

- The grammar (`parser/grammar.lalrpop`, generated parser) and JSON parsing: a page parses
  or does not, and the numbers of a query fit an `i64` or do not.
- What one operation lists is a constant in `QueryCompiler` (`Listing`, `Resolved`) and the subject of
  `ApiSolver`. The two are not composed: the meaning of an expression supposes a wiki that does not
  change while the query is solved. Nothing is claimed of the answer when a limit has cut a listing
  short, nor when a namespace filter meets the resolution of redirects (section 2). In one call of
  `ApiSolver` a limit that was reached excuses whatever is missing, also what was filtered out
  after it had been counted. Titles of negative namespaces are left out.
- A task page that flickers between readable and not may miss every time of its schedule: the
  liveness property is about pages that stay readable. A page with an invalid target or a number
  that overflows is lost until it leaves the directory and comes back; that is the code as it is.
- That no edit is anonymous is no property: it rests on the assertion in every request alone, and
  nothing else in the model could break it.
- `RedirectFilterStrategy` of links and members: the wiki cannot filter those, and the parser
  refuses the constraint there.
- How often the finder looks at the configuration, and timeouts of single requests, which the
  client library decides.
- Command line, files, logging, the wording of pages and summaries.
- Edits in flight when the process ends.

## 6. Plan

Done, in this order: `TaskRoutines` and its proofs (the heart of the bot), `ApiService`,
`TargetPage` / `PageWriter` and its proofs, the query modules, `ApiSolver`
and its proofs, `CronTimer` and its proofs, the proofs of `ApiService`, `PageContentProofs`, `QueryCompilerProofs`.

Next, in order of importance:

1. Composition of `PageWriter` with `TaskRoutines`: the outline of the writer in
   `TaskRoutines` as an abstraction of `PageWriter`.
2. `QueryCompiler`: what an answer is worth after a limit has cut a listing, as a set of possible
   answers; the composition with `ApiSolver` for a wiki that changes.
3. The order of main, finder and checker at ctrl-c, with edits in flight.
