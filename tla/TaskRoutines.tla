----------------------------- MODULE TaskRoutines -----------------------------
(***************************************************************************)
(* The scheduling core of the page list bot: the task finder                *)
(* (src/src/routine/taskfinder.rs), the task runners it spawns and aborts   *)
(* (src/src/routine/taskrunner.rs), the four globals they share, and the    *)
(* outline of the page writer a runner calls (PageWriter.tla has the rest). *)
(*                                                                          *)
(* One step of a routine is what it does between two suspension points that *)
(* another actor can observe.  The wiki is external: editors change the     *)
(* configuration page, the task directory and the task pages at any time,   *)
(* requests fail, and an edit that was sent is carried out later.           *)
(*                                                                          *)
(* A published configuration is named by its position in "published", the   *)
(* distinct configurations the finder fetched, oldest first; 0 names the    *)
(* values TaskFinder::new() gives the globals.                              *)
(***************************************************************************)
EXTENDS Naturals, Sequences, FiniteSets

CONSTANTS
    PageIds,      \* ids of the pages that may become tasks
    Slots,        \* incarnations of the runner of one page that may coexist
    NoSlot,       \* "the page has no entry in task_map"
    Configs,      \* site configurations [activate, denyns]
    Tasks,        \* task definitions [activate, cron, expr, eager, output]
    Unreadable,   \* a page that is missing or does not parse
    Wikitext,     \* a page whose content model is not json
    NsOf,         \* namespace of each target title
    NoNs,         \* "the title is invalid": the reply has no page object
    Dirs,         \* the sets of pages editors may put in the task directory
    TaskPages,    \* the contents editors may give a task page
    SitePages,    \* the contents editors may give the configuration page
    MaxEdits,     \* bound on editor actions
    MaxFaults     \* bound on failed requests and on wake times that pass at once

Targets == DOMAIN NsOf
CronKinds == {"valid", "invalid", "exhausted"}
Exprs == {"fits", "overflows"}    \* do the numbers of the query fit an i64?
Results == {"none", "ok", "failed"}

ASSUME TaskRoutinesAssumption ==
    /\ NoSlot \notin Slots
    /\ \A c \in Configs : c.activate \in BOOLEAN
    /\ Tasks \subseteq [activate : BOOLEAN, cron : CronKinds, expr : Exprs,
                        eager : BOOLEAN, output : Seq(Targets)]
    /\ Unreadable \notin Tasks \cup Configs
    /\ Wikitext \notin Tasks \cup {Unreadable}
    /\ Dirs \subseteq SUBSET PageIds
    /\ TaskPages \subseteq Tasks \cup {Unreadable, Wikitext}
    /\ SitePages \subseteq Configs \cup {Unreadable}
    /\ MaxEdits \in Nat
    /\ MaxFaults \in Nat

VARIABLES
    (* the wiki *)
    site,         \* content of the configuration page
    dir,          \* pages in the task directory
    tasks,        \* tasks[p]: content of page p
    inflight,     \* edits sent to the server and not yet handled
    edits,        \* editor actions left
    faults,       \* failed requests, and wake times that pass at once, left
    (* TaskFinder *)
    finder,       \* where the finder routine is
    published,    \* the configurations fetched so far
    activated,    \* *global_activate
    global,       \* the publication each global was last written from
    pool,         \* task_pool: pages of the last listing
    task_map,     \* task_map[p]: slot of the runner of p
    (* TaskRunner *)
    status,       \* of the spawned tokio task
    pc,           \* where the runner routine is
    aligned,      \* aligned_to_cron
    info,         \* the task definition fetched last
    view,         \* the publication of each global, as this run read it
    out,          \* index of the output format being written
    result,       \* what QueryExecutor::execute has cached
    late          \* auxiliary: edits sent after the runner was aborted

wiki       == <<site, dir, tasks, edits>>
finderVars == <<finder, published, activated, global, pool, task_map>>
runnerVars == <<status, pc, aligned, info, view, out, result, late>>
vars == <<site, dir, tasks, inflight, edits, faults, finderVars, runnerVars>>

Runners == PageIds \X Slots

FinderPlaces == {"config", "activate", "default", "denyns", "resultheader",
                 "tasks", "map", "off", "asleep", "panicked"}
(* Where a runner waits for the network or a timer: a poll that finds the   *)
(* abort flag set there drops the routine.  At the other places the runner  *)
(* is in the middle of a poll and abort() only takes effect when it ends.   *)
Waiting == {"fetch", "target", "query", "original", "editing", "asleep"}
Polling == {"activate", "default", "denyns", "resultheader", "edit", "cron"}
Writing == {"target", "query", "original", "edit", "editing"}
RunnerPlaces == Waiting \cup Polling

Globals == {"activate", "default", "denyns", "resultheader"}
View == [Globals -> Nat]
NoView == [g \in Globals |-> 0]
Edit == [runner : Runners, target : Targets, activate : Nat, denyns : Nat]

TypeOK ==
    /\ site \in Configs \cup {Unreadable}
    /\ dir \in SUBSET PageIds
    /\ tasks \in [PageIds -> Tasks \cup {Unreadable, Wikitext}]
    /\ inflight \subseteq Edit
    /\ edits \in Nat
    /\ faults \in Nat
    /\ finder \in FinderPlaces
    /\ published \in Seq(Configs)
    /\ activated \in BOOLEAN
    /\ global \in View
    /\ pool \in SUBSET PageIds
    /\ task_map \in [PageIds -> Slots \cup {NoSlot}]
    /\ status \in [Runners -> {"none", "live", "aborted", "panicked"}]
    /\ pc \in [Runners -> RunnerPlaces]
    /\ aligned \in [Runners -> BOOLEAN]
    /\ info \in [Runners -> Tasks \cup {Unreadable}]
    /\ view \in [Runners -> View]
    /\ out \in [Runners -> Nat]
    /\ \A r \in Runners : pc[r] \in Writing =>
         info[r] \in Tasks /\ out[r] \in 1..Len(info[r].output)
    /\ result \in [Runners -> Results]
    /\ late \in [Runners -> Nat]

Init ==
    /\ site \in SitePages
    /\ dir \in Dirs
    /\ tasks \in [PageIds -> TaskPages]
    /\ inflight = {}
    /\ edits = MaxEdits
    /\ faults = MaxFaults
    /\ finder = "config"
    /\ published = <<>>
    /\ activated = FALSE
    /\ global = NoView
    /\ pool = {}
    /\ task_map = [p \in PageIds |-> NoSlot]
    /\ status = [r \in Runners |-> "none"]
    /\ pc = [r \in Runners |-> "fetch"]
    /\ aligned = [r \in Runners |-> FALSE]
    /\ info = [r \in Runners |-> Unreadable]
    /\ view = [r \in Runners |-> NoView]
    /\ out = [r \in Runners |-> 0]
    /\ result = [r \in Runners |-> "none"]
    /\ late = [r \in Runners |-> 0]

-----------------------------------------------------------------------------
(* The wiki: editors and the server.                                        *)

EditorAction == edits > 0 /\ edits' = edits - 1

EditSite ==
    /\ EditorAction
    /\ \E c \in SitePages \ {site} : site' = c
    /\ UNCHANGED <<dir, tasks, inflight, faults, finderVars, runnerVars>>

EditDir ==
    /\ EditorAction
    /\ \E d \in Dirs \ {dir} : dir' = d
    /\ UNCHANGED <<site, tasks, inflight, faults, finderVars, runnerVars>>

EditTask(p) ==
    /\ EditorAction
    /\ \E t \in TaskPages \ {tasks[p]} : tasks' = [tasks EXCEPT ![p] = t]
    /\ UNCHANGED <<site, dir, inflight, faults, finderVars, runnerVars>>

(* The server carries out an edit, rejects it, or it is lost.               *)
HandleEdit(e) ==
    /\ inflight' = inflight \ {e}
    /\ UNCHANGED <<wiki, faults, finderVars, runnerVars>>

(* A request that reaches no useful answer, or a wake time that passes      *)
(* before the clock is read again.                                          *)
Outage == faults > 0 /\ faults' = faults - 1

-----------------------------------------------------------------------------
(* TaskFinder.                                                              *)

FinderGoesTo(from, to) == finder = from /\ finder' = to

Latest == Len(published)

FetchConfig ==
    /\ FinderGoesTo("config", "activate")
    /\ site \in Configs
    /\ published' = IF Latest > 0 /\ published[Latest] = site
                    THEN published ELSE Append(published, site)
    /\ UNCHANGED <<wiki, inflight, faults, activated, global, pool, task_map,
                   runnerVars>>

(* Mutant: the error path goes on to the task list. *)
FetchConfigFails_ListsTasks ==
    /\ FinderGoesTo("config", "tasks")
    /\ site = Unreadable \/ faults > 0
    /\ UNCHANGED <<wiki, inflight, faults, published, activated, global, pool,
                   task_map, runnerVars>>

FetchConfigFails ==
    /\ FinderGoesTo("config", "off")
    /\ \/ site = Unreadable /\ UNCHANGED faults
       \/ Outage
    /\ UNCHANGED <<wiki, inflight, published, activated, global, pool, task_map,
                   runnerVars>>

WriteActivate ==
    /\ FinderGoesTo("activate", "default")
    /\ activated' = published[Latest].activate
    /\ global' = [global EXCEPT !["activate"] = Latest]
    /\ UNCHANGED <<wiki, inflight, faults, published, pool, task_map, runnerVars>>

WriteDefault ==
    /\ FinderGoesTo("default", "denyns")
    /\ global' = [global EXCEPT !["default"] = Latest]
    /\ UNCHANGED <<wiki, inflight, faults, published, activated, pool, task_map,
                   runnerVars>>

(* Mutant: the list is only taken over from a configuration that is active. *)
WriteDenied_IfActive ==
    /\ FinderGoesTo("denyns", "resultheader")
    /\ global' = IF activated THEN [global EXCEPT !["denyns"] = Latest] ELSE global
    /\ UNCHANGED <<wiki, inflight, faults, published, activated, pool, task_map,
                   runnerVars>>

WriteDenied ==
    /\ FinderGoesTo("denyns", "resultheader")
    /\ global' = [global EXCEPT !["denyns"] = Latest]
    /\ UNCHANGED <<wiki, inflight, faults, published, activated, pool, task_map,
                   runnerVars>>

WriteHeader ==
    /\ FinderGoesTo("resultheader", "tasks")
    /\ global' = [global EXCEPT !["resultheader"] = Latest]
    /\ UNCHANGED <<wiki, inflight, faults, published, activated, pool, task_map,
                   runnerVars>>

(* The generator over the directory lists the pages; only those with the    *)
(* json content model enter the pool.                                       *)
ListTasks ==
    /\ FinderGoesTo("tasks", "map")
    /\ dir # {}
    /\ pool' = {p \in dir : tasks[p] # Wikitext}
    /\ UNCHANGED <<wiki, inflight, faults, published, activated, global, task_map,
                   runnerVars>>

ListTasksFails ==
    /\ FinderGoesTo("tasks", "off")
    /\ Outage
    /\ UNCHANGED <<wiki, inflight, published, activated, global, pool, task_map,
                   runnerVars>>

(* A generator that matches no page answers without "query": the unwrap of  *)
(* as_array() panics and the finder routine ends.                           *)
FinderPanics ==
    /\ FinderGoesTo("tasks", "panicked")
    /\ dir = {}
    /\ UNCHANGED <<wiki, inflight, faults, published, activated, global, pool,
                   task_map, runnerVars>>

(* Mutant: a failed fetch leaves the bot activated. *)
SwitchOff_Keeps ==
    /\ FinderGoesTo("off", "asleep")
    /\ UNCHANGED <<wiki, inflight, faults, published, activated, global, pool,
                   task_map, runnerVars>>

SwitchOff ==
    /\ FinderGoesTo("off", "asleep")
    /\ activated' = FALSE
    /\ UNCHANGED <<wiki, inflight, faults, published, global, pool, task_map,
                   runnerVars>>

FinderWakes ==
    /\ FinderGoesTo("asleep", "config")
    /\ UNCHANGED <<wiki, inflight, faults, published, activated, global, pool,
                   task_map, runnerVars>>

(* Mutant: dropping the handle of a routine detaches it, as tokio does. *)
AfterStop_Detaches(s) == s

(* Dropping a TaskRunner aborts its routine; abort() on a routine that has  *)
(* ended does nothing.                                                      *)
AfterStop(s) == IF s = "live" THEN "aborted" ELSE "none"

(* Mutant: pages that are no longer listed are not retained out. *)
Entries_KeepsAll(p) ==
    IF task_map[p] # NoSlot THEN {task_map[p]}
    ELSE IF p \notin pool THEN {NoSlot}
    ELSE {s \in Slots : status[<<p, s>>] = "none"}

(* The entry of page p after retain and or_insert_with: kept, removed, or   *)
(* a runner in a slot no earlier incarnation still occupies.                *)
Entries(p) ==
    IF p \notin pool THEN {NoSlot}
    ELSE IF task_map[p] # NoSlot THEN {task_map[p]}
    ELSE {s \in Slots : status[<<p, s>>] = "none"}

UpdateTaskMap ==
    /\ FinderGoesTo("map", "asleep")
    /\ \E new \in [PageIds -> Slots \cup {NoSlot}] :
        /\ \A p \in PageIds : new[p] \in Entries(p)
        /\ task_map' = new
        /\ status' = [r \in Runners |->
             IF task_map[r[1]] = new[r[1]] THEN status[r]
             ELSE IF task_map[r[1]] = r[2] THEN AfterStop(status[r])
             ELSE IF new[r[1]] = r[2] THEN "live"
             ELSE status[r]]
    /\ UNCHANGED <<wiki, inflight, faults, published, activated, global, pool,
                   pc, aligned, info, view, out, result, late>>

FinderStep ==
    \/ FetchConfig \/ FetchConfigFails
    \/ WriteActivate \/ WriteDefault \/ WriteDenied \/ WriteHeader
    \/ ListTasks \/ ListTasksFails \/ FinderPanics
    \/ UpdateTaskMap \/ SwitchOff \/ FinderWakes

-----------------------------------------------------------------------------
(* TaskRunner.                                                              *)

(* Mutant: the abort flag is not looked at. *)
Wakes_Aborted(r, place) == pc[r] = place /\ status[r] \in {"live", "aborted"}

(* The reply or the timer wakes the routine only if it was not aborted; a   *)
(* poll in progress goes on regardless.                                     *)
Wakes(r, place) == pc[r] = place /\ status[r] = "live"
Polls(r, place) == pc[r] = place /\ status[r] \in {"live", "aborted"}

GoesTo(r, place) == pc' = [pc EXCEPT ![r] = place]

(* The routine is dropped or unwinds: its locals are gone.                  *)
Ends(r, how) ==
    /\ status' = [status EXCEPT ![r] = how]
    /\ pc' = [pc EXCEPT ![r] = "fetch"]
    /\ aligned' = [aligned EXCEPT ![r] = FALSE]
    /\ info' = [info EXCEPT ![r] = Unreadable]
    /\ view' = [view EXCEPT ![r] = NoView]
    /\ out' = [out EXCEPT ![r] = 0]
    /\ result' = [result EXCEPT ![r] = "none"]
    /\ late' = [late EXCEPT ![r] = 0]

FetchTask(r) ==
    /\ Wakes(r, "fetch")
    /\ tasks[r[1]] \in Tasks
    /\ info' = [info EXCEPT ![r] = tasks[r[1]]]
    /\ GoesTo(r, "activate")
    /\ UNCHANGED <<wiki, inflight, faults, finderVars, status, aligned, view, out,
                   result, late>>

FetchTaskFails(r) ==
    /\ Wakes(r, "fetch")
    /\ \/ tasks[r[1]] \notin Tasks /\ UNCHANGED faults
       \/ Outage
    /\ aligned' = [aligned EXCEPT ![r] = FALSE]
    /\ GoesTo(r, "asleep")
    /\ UNCHANGED <<wiki, inflight, finderVars, status, info, view, out, result,
                   late>>

MayRun(r) == activated /\ info[r].activate /\ aligned[r]

ReadActivate(r) ==
    /\ Polls(r, "activate")
    /\ IF MayRun(r)
       THEN /\ GoesTo(r, "default")
            /\ view' = [view EXCEPT ![r]["activate"] = global["activate"]]
       ELSE GoesTo(r, "cron") /\ UNCHANGED view
    /\ UNCHANGED <<wiki, inflight, faults, finderVars, status, aligned, info, out,
                   result, late>>

ReadDefault(r) ==
    /\ Polls(r, "default")
    /\ view' = [view EXCEPT ![r]["default"] = global["default"]]
    /\ GoesTo(r, "denyns")
    /\ UNCHANGED <<wiki, inflight, faults, finderVars, status, aligned, info, out,
                   result, late>>

ReadDenied(r) ==
    /\ Polls(r, "denyns")
    /\ view' = [view EXCEPT ![r]["denyns"] = global["denyns"]]
    /\ GoesTo(r, "resultheader")
    /\ UNCHANGED <<wiki, inflight, faults, finderVars, status, aligned, info, out,
                   result, late>>

(* Mutant: off by one at the last output format. *)
NextOutput_OneMore(r) ==
    IF out[r] <= Len(info[r].output)
    THEN GoesTo(r, "target") /\ out' = [out EXCEPT ![r] = @ + 1]
    ELSE GoesTo(r, "cron") /\ UNCHANGED out

(* PageWriter::start walks the output formats in order; after the last one  *)
(* the runner goes on to its cron schedule.                                 *)
NextOutput(r) ==
    IF out[r] < Len(info[r].output)
    THEN GoesTo(r, "target") /\ out' = [out EXCEPT ![r] = @ + 1]
    ELSE GoesTo(r, "cron") /\ UNCHANGED out

ReadHeader(r) ==
    /\ Polls(r, "resultheader")
    /\ view' = [view EXCEPT ![r]["resultheader"] = global["resultheader"]]
    /\ NextOutput(r)
    /\ UNCHANGED <<wiki, inflight, faults, finderVars, status, aligned, info,
                   result, late>>

Target(r) == info[r].output[out[r]]

(* Namespaces denied by publication n.                                      *)
DeniedBy(n) == IF n = 0 THEN {} ELSE published[n].denyns

Denied(r) == NsOf[Target(r)] \in DeniedBy(view[r]["denyns"])

(* The target is missing, a redirect, or in a denied namespace, or the      *)
(* request for it failed.                                                   *)
SkipTarget(r) ==
    /\ Wakes(r, "target")
    /\ \/ NsOf[Target(r)] # NoNs /\ UNCHANGED faults
       \/ Outage
    /\ NextOutput(r)
    /\ UNCHANGED <<wiki, inflight, finderVars, status, aligned, info, view, result,
                   late>>

TargetPanics(r) ==
    /\ Wakes(r, "target")
    /\ NsOf[Target(r)] = NoNs
    /\ Ends(r, "panicked")
    /\ UNCHANGED <<wiki, inflight, faults, finderVars>>

(* With a result, or in eager mode, the content is at hand; otherwise the   *)
(* original content is fetched to change only its header.                   *)
Compose(r, res) ==
    GoesTo(r, IF res = "ok" \/ info[r].eager THEN "edit" ELSE "original")

(* The query was answered, failed or timed out; the executor keeps that. A  *)
(* query that does not parse, or names its pages, needs no request at all.  *)
GotResult(r) ==
    \E res \in {"ok", "failed"} :
        /\ result' = [result EXCEPT ![r] = res]
        /\ Compose(r, res)

(* The target may be written to.                                            *)
MayWrite(r) ==
    /\ Wakes(r, "target")
    /\ NsOf[Target(r)] # NoNs
    /\ ~Denied(r)

UseTarget(r) ==
    /\ MayWrite(r)
    /\ \/ /\ result[r] = "none"
          /\ info[r].expr = "fits"
          /\ \/ GoesTo(r, "query") /\ UNCHANGED result
             \/ GotResult(r)
       \/ result[r] # "none" /\ Compose(r, result[r]) /\ UNCHANGED result
    /\ UNCHANGED <<wiki, inflight, faults, finderVars, status, aligned, info, view,
                   out, late>>

(* The parser unwraps the conversion of a number (grammar.lalrpop:71).      *)
QueryPanics(r) ==
    /\ MayWrite(r)
    /\ result[r] = "none"
    /\ info[r].expr = "overflows"
    /\ Ends(r, "panicked")
    /\ UNCHANGED <<wiki, inflight, faults, finderVars>>

Execute(r) ==
    /\ Wakes(r, "query")
    /\ GotResult(r)
    /\ UNCHANGED <<wiki, inflight, faults, finderVars, status, aligned, info, view,
                   out, late>>

FetchOriginal(r) ==
    /\ Wakes(r, "original")
    /\ GoesTo(r, "edit")
    /\ UNCHANGED <<wiki, inflight, faults, finderVars, status, aligned, info, view,
                   out, result, late>>

FetchOriginalFails(r) ==
    /\ Wakes(r, "original")
    /\ Outage
    /\ NextOutput(r)
    /\ UNCHANGED <<wiki, inflight, finderVars, status, aligned, info, view, result,
                   late>>

ThisEdit(r) == [runner |-> r, target |-> Target(r),
                activate |-> view[r]["activate"], denyns |-> view[r]["denyns"]]

SendEdit(r) ==
    /\ Polls(r, "edit")
    /\ inflight' = inflight \cup {ThisEdit(r)}
    /\ late' = IF status[r] = "aborted" THEN [late EXCEPT ![r] = @ + 1] ELSE late
    /\ GoesTo(r, "editing")
    /\ UNCHANGED <<wiki, faults, finderVars, status, aligned, info, view, out,
                   result>>

(* The reply to the edit, or a failed request whose edit may still be on    *)
(* its way; the runner treats both alike.                                   *)
EditReply(r) ==
    /\ Wakes(r, "editing")
    /\ \/ ThisEdit(r) \notin inflight /\ UNCHANGED faults
       \/ Outage
    /\ NextOutput(r)
    /\ UNCHANGED <<wiki, inflight, finderVars, status, aligned, info, view, result,
                   late>>

(* Mutant: a schedule that parses does not align the runner. *)
Schedule_NeverAligns(r) ==
    /\ Polls(r, "cron")
    /\ info[r].cron # "exhausted"
    /\ aligned' = [aligned EXCEPT ![r] = FALSE]
    /\ GoesTo(r, "asleep")
    /\ UNCHANGED <<wiki, inflight, faults, finderVars, status, info, view, out,
                   result, late>>

(* A schedule that parses and has a next time aligns the runner; one that   *)
(* does not parse is retried in ten minutes.                                *)
Schedule(r) ==
    /\ Polls(r, "cron")
    /\ info[r].cron # "exhausted"
    /\ aligned' = [aligned EXCEPT ![r] = (info[r].cron = "valid")]
    /\ GoesTo(r, "asleep")
    /\ UNCHANGED <<wiki, inflight, faults, finderVars, status, info, view, out,
                   result, late>>

(* The routine panics while it may already be aborted.                      *)
PollPanics(r) == Ends(r, IF status[r] = "live" THEN "panicked" ELSE "none")

(* A schedule without a next time: the unwrap of upcoming().next() panics.  *)
SchedulePanics(r) ==
    /\ Polls(r, "cron")
    /\ info[r].cron = "exhausted"
    /\ PollPanics(r)
    /\ UNCHANGED <<wiki, inflight, faults, finderVars>>

(* The next time has passed when the clock is read for the duration of the  *)
(* sleep: the unwrap of to_std() panics.  CronTimer.tla has the clocks.     *)
DurationPanics(r) ==
    /\ Polls(r, "cron")
    /\ info[r].cron = "valid"
    /\ Outage
    /\ PollPanics(r)
    /\ UNCHANGED <<wiki, inflight, finderVars>>

(* The iteration's locals go out of scope; only aligned_to_cron lives on.   *)
RunnerWakes(r) ==
    /\ Wakes(r, "asleep")
    /\ GoesTo(r, "fetch")
    /\ info' = [info EXCEPT ![r] = Unreadable]
    /\ view' = [view EXCEPT ![r] = NoView]
    /\ out' = [out EXCEPT ![r] = 0]
    /\ result' = [result EXCEPT ![r] = "none"]
    /\ UNCHANGED <<wiki, inflight, faults, finderVars, status, aligned, late>>

DropAborted(r) ==
    /\ status[r] = "aborted"
    /\ Ends(r, "none")
    /\ UNCHANGED <<wiki, inflight, faults, finderVars>>

RunnerStep(r) ==
    \/ FetchTask(r) \/ FetchTaskFails(r)
    \/ ReadActivate(r) \/ ReadDefault(r) \/ ReadDenied(r) \/ ReadHeader(r)
    \/ SkipTarget(r) \/ TargetPanics(r) \/ UseTarget(r) \/ QueryPanics(r)
    \/ Execute(r) \/ FetchOriginal(r) \/ FetchOriginalFails(r)
    \/ SendEdit(r) \/ EditReply(r)
    \/ Schedule(r) \/ SchedulePanics(r) \/ DurationPanics(r)
    \/ RunnerWakes(r) \/ DropAborted(r)

-----------------------------------------------------------------------------
Next ==
    \/ EditSite
    \/ EditDir
    \/ \E p \in PageIds : EditTask(p)
    \/ \E e \in inflight : HandleEdit(e)
    \/ FinderStep
    \/ \E r \in Runners : RunnerStep(r)

Spec == Init /\ [][Next]_vars

(* tokio polls every routine that can go on, timers fire and requests are   *)
(* answered or fail; editors owe nothing.                                   *)
Fairness ==
    /\ WF_vars(FinderStep)
    /\ \A r \in Runners : WF_vars(RunnerStep(r))
    /\ WF_vars(\E e \in inflight : HandleEdit(e))

FairSpec == Spec /\ Fairness
-----------------------------------------------------------------------------
(* Safety.                                                                  *)

(* "kill all tasks whose id does not live in the pool" (taskfinder.rs:137): *)
(* every routine that still accepts wake-ups is the one in task_map, so     *)
(* nothing runs that a later listing could not stop.                        *)
NoOrphanRunner == \A r \in Runners : status[r] = "live" => task_map[r[1]] = r[2]

(* A runner that was removed from task_map while it works sends at most the *)
(* edit of the poll it was in (taskrunner.rs:151, abort on drop).           *)
OneEditAfterAbort == \A r \in Runners : late[r] <= 1

(* The places of a run after it has read each of the globals.               *)
AfterDenied   == Writing \cup {"resultheader"}
AfterDefault  == AfterDenied \cup {"denyns"}
AfterActivate == AfterDefault \cup {"default"}

(* A run never works with the values of TaskFinder::new() (no time, nothing *)
(* denied): each global it has read came from a fetched configuration,      *)
(* although the finder writes and the runner reads them one by one.         *)
NoConstructorDefaults ==
    \A r \in Runners :
        /\ pc[r] \in AfterActivate => view[r]["activate"] \in 1..Latest
        /\ pc[r] \in AfterDefault => view[r]["default"] \in 1..Latest
        /\ pc[r] \in AfterDenied => view[r]["denyns"] \in 1..Latest
        /\ pc[r] \in Writing => view[r]["resultheader"] \in 1..Latest

(* The four globals are written and read one at a time.  Even so, an edit   *)
(* the bot sends was switched on by a published configuration, and respects *)
(* a list of denied namespaces at most one publication older than that one. *)
EditUnderRecentConfig ==
    \A e \in inflight :
        /\ e.activate \in 1..Latest /\ published[e.activate].activate
        /\ e.denyns \in 1..Latest /\ e.denyns + 1 >= e.activate
        /\ NsOf[e.target] \notin DeniedBy(e.denyns)

(* Stronger, and not so: some single configuration allowed the edit.        *)
(* pagewriter.rs:167 calls the target "Not ... in a denied namespace", but  *)
(* a run that reads global_activate after and global_denied_namespace       *)
(* before the finder's update mixes two configurations.                     *)
EditAllowedBySomeConfig ==
    \A e \in inflight : \E n \in 1..Latest :
        published[n].activate /\ NsOf[e.target] \notin published[n].denyns

-----------------------------------------------------------------------------
(* Liveness.                                                                *)

Running(r) == pc[r] \in AfterActivate

(* "we always set the global activated to false to prevent any accidents"   *)
(* (taskfinder.rs:150,158): once the configuration page stays switched off  *)
(* or unreadable, runs end and no new one begins.                           *)
SwitchedOff == site = Unreadable \/ (site \in Configs /\ ~site.activate)
EmergencyStop == <>[]SwitchedOff => <>[](\A r \in Runners : ~Running(r))

(* "kill all tasks whose id does not live in the pool" (taskfinder.rs:137): *)
(* a page that is taken out of the directory, or loses the json content     *)
(* model, for good loses its runner for good, if the configuration page can *)
(* be read.                                                                 *)
Delisted(p) == p \notin dir \/ tasks[p] = Wikitext
RemovedTaskStops ==
    \A p \in PageIds :
        <>[](Delisted(p) /\ site \in Configs)
            => <>[](\A s \in Slots : status[<<p, s>>] = "none")

(* A task that stays listed, active and on a valid schedule while the bot   *)
(* stays switched on.                                                       *)
Wanted(p) ==
    /\ site \in Configs /\ site.activate
    /\ p \in dir
    /\ tasks[p] \in Tasks /\ tasks[p].activate /\ tasks[p].cron = "valid"

RunsAgainAndAgain(p) == []<>(\E s \in Slots : pc[<<p, s>>] = "default")

(* The entry of p in task_map is a routine that is dead.                    *)
DeadEntry(p) == \E s \in Slots : task_map[p] = s /\ status[<<p, s>>] = "panicked"

(* A wanted task is run again and again whatever requests failed, switches  *)
(* were thrown, or times and contents its page had before ("retry in 10     *)
(* minutes", taskrunner.rs:133,140), except that a page is lost for good if *)
(* task_map (taskfinder.rs:137-146) still holds a routine that panicked: a  *)
(* page that left the listing since then is run again.                      *)
LostOnlyByPanic ==
    \A p \in PageIds :
        <>[]Wanted(p) => RunsAgainAndAgain(p) \/ <>[]DeadEntry(p)

(* Stronger, and not so where a schedule may be exhausted: nothing a page   *)
(* held before keeps a wanted task from running.                            *)
TaskKeepsRunning == \A p \in PageIds : <>[]Wanted(p) => RunsAgainAndAgain(p)
=============================================================================
