------------------------------- MODULE CronTimer -------------------------------
(***************************************************************************)
(* When the runner of one task runs it (routine/taskrunner.rs).  The times  *)
(* of the schedule are times of the wall clock; the sleep until the next    *)
(* one is measured by the monotonic clock.  The wall clock may be set at    *)
(* any time, or jump ahead after the machine was suspended; the run may     *)
(* take longer than it is to the next time; the page of the task may be     *)
(* edited, unreadable or out of reach; the runner may be aborted, or the    *)
(* whole process stopped, and started again.                                *)
(*                                                                          *)
(* TaskRoutines has what a run does and how runners come and go; here a run *)
(* is something that takes time.  The unit of time is whatever tells two    *)
(* readings of the clock apart.                                             *)
(***************************************************************************)
EXTENDS Integers

CONSTANTS
    Occurrences,  \* times of each schedule that can be parsed
    Tasks,        \* task definitions [activate, cron]
    RetryDelay,   \* ten minutes
    None,         \* no task definition
    MaxTime,      \* bound on the time of the wall clock
    MaxJumps,     \* bound on how often it is set
    MaxEdits,     \* bound on editors' changes
    MaxRestarts   \* bound on how often the runner is started again

Schedules == DOMAIN Occurrences

ASSUME CronTimerAssumption ==
    /\ \A c \in Schedules : Occurrences[c] \subseteq Nat
    /\ \A t \in Tasks : t.activate \in BOOLEAN
    /\ None \notin Tasks
    /\ RetryDelay \in Nat /\ MaxTime \in Nat
    /\ MaxJumps \in Nat /\ MaxEdits \in Nat /\ MaxRestarts \in Nat

VARIABLES
    now,          \* the wall clock
    page,         \* the definition on the task's page, None if it is unreadable
    task,         \* the definition fetched last
    place,        \* where the runner is
    aligned,      \* aligned_to_cron
    planned,      \* the first reading of the clock, from which waketime was found
    waketime,     \* Never while the runner does not sleep to a time of a schedule
    left,         \* what is left of the sleep, by the monotonic clock
    jumps, edits, restarts,  \* bounds that are left
    (* auxiliary *)
    shift,        \* by how much the wall clock was set since the sleep began
    setback,      \* whether the wall clock was ever set back
    last,         \* the latest time of a schedule that a run was started for
    fresh         \* whether no run was started since the page was edited

clock == <<now, jumps, setback>>
runner == <<task, place, aligned, planned, waketime>>
vars == <<clock, page, runner, left, edits, restarts, shift, last, fresh>>

Never == -1
Times == 0 .. MaxTime
Places == {"fetch", "run", "plan", "measure", "asleep", "panicked"}

(* Types; a sleep has no negative length.                                   *)
TypeOK ==
    /\ now \in Times
    /\ page \in Tasks \cup {None}
    /\ task \in Tasks \cup {None}
    /\ place \in Places
    /\ place \in {"run", "plan", "measure"} => task \in Tasks
    /\ place = "measure" => task.cron \in Schedules
    /\ aligned \in BOOLEAN
    /\ planned \in Times
    /\ waketime \in Nat \cup {Never}
    /\ left \in Nat
    /\ jumps \in Nat /\ edits \in Nat /\ restarts \in Nat
    /\ shift \in Int
    /\ setback \in BOOLEAN
    /\ last \in Nat \cup {Never}
    /\ fresh \in BOOLEAN

Init ==
    /\ now \in Times
    /\ page \in Tasks \cup {None}
    /\ task = None
    /\ place = "fetch"
    /\ aligned = FALSE
    /\ planned = now
    /\ waketime = Never
    /\ left = 0
    /\ jumps = MaxJumps /\ edits = MaxEdits /\ restarts = MaxRestarts
    /\ shift = 0
    /\ setback = FALSE
    /\ last = Never
    /\ fresh = TRUE

-----------------------------------------------------------------------------
(* The environment.                                                         *)

(* Time passes on both clocks.  A sleep never ends early, but may end late. *)
Tick ==
    /\ now < MaxTime /\ now' = now + 1
    /\ left' = IF left > 0 THEN left - 1 ELSE 0
    /\ UNCHANGED <<page, runner, jumps, edits, restarts, shift, setback, last, fresh>>

(* The wall clock is set, or the machine was suspended.                     *)
SetClock ==
    /\ jumps > 0 /\ jumps' = jumps - 1
    /\ now' \in Times \ {now}
    /\ shift' = shift + (now' - now)
    /\ setback' = (setback \/ now' < now)
    /\ UNCHANGED <<page, runner, left, edits, restarts, last, fresh>>

EditPage ==
    /\ edits > 0 /\ edits' = edits - 1
    /\ page' \in (Tasks \cup {None}) \ {page}
    /\ fresh' = TRUE
    /\ UNCHANGED <<clock, runner, left, restarts, shift, last>>

(* The runner is started, after a panic, an abort or the end of the process.*)
Restart ==
    /\ restarts > 0 /\ restarts' = restarts - 1
    /\ place' = "fetch" /\ aligned' = FALSE /\ task' = None
    /\ waketime' = Never /\ left' = 0
    /\ UNCHANGED <<clock, page, planned, edits, shift, last, fresh>>

-----------------------------------------------------------------------------
(* The runner.                                                              *)

Stays == UNCHANGED <<clock, page, edits, restarts>>

(* Mutant: a task keeps the schedule it was first seen with. *)
Fetched_KeepsCron ==
    IF task = None THEN page ELSE [page EXCEPT !.cron = task.cron]

(* What serde_json makes of the page.                                       *)
Fetched == page

(* Mutant: a task that could not be read stays aligned. *)
Retry_Aligned ==
    /\ place' = "asleep" /\ left' = RetryDelay
    /\ waketime' = Never
    /\ UNCHANGED <<aligned, planned>>

(* Ten minutes later; the runner has to be aligned again.                   *)
Retry ==
    /\ place' = "asleep" /\ left' = RetryDelay
    /\ aligned' = FALSE
    /\ waketime' = Never
    /\ UNCHANGED planned

FetchFails ==
    /\ place = "fetch"
    /\ Retry
    /\ UNCHANGED <<task, shift, last, fresh>> /\ Stays

(* The task is run if the bot and the task are activated and this is a time *)
(* of its schedule.                                                         *)
StartRun ==
    /\ place = "fetch" /\ page \in Tasks
    /\ page.activate /\ aligned
    /\ place' = "run"
    /\ task' = Fetched
    /\ last' = IF waketime > last THEN waketime ELSE last
    /\ fresh' = FALSE
    /\ UNCHANGED <<aligned, planned, waketime, left, shift>> /\ Stays

(* It is not run, if only because the finder has switched the bot off.      *)
SkipRun ==
    /\ place = "fetch" /\ page \in Tasks
    /\ place' = "plan"
    /\ task' = Fetched
    /\ UNCHANGED <<aligned, planned, waketime, left, shift, last, fresh>> /\ Stays

EndRun ==
    /\ place = "run" /\ place' = "plan"
    /\ UNCHANGED <<task, aligned, planned, waketime, left, shift, last, fresh>> /\ Stays

(* An invalid target, or a number in the query that overflows: the writer   *)
(* or the parser panics (pagewriter.rs:151, :164, grammar.lalrpop:71).      *)
RunPanics ==
    /\ place = "run" /\ place' = "panicked"
    /\ UNCHANGED <<task, aligned, planned, waketime, left, shift, last, fresh>> /\ Stays

(* The schedule cannot be parsed.                                           *)
NoSchedule ==
    /\ place = "plan" /\ task.cron \notin Schedules
    /\ Retry
    /\ UNCHANGED <<task, shift, last, fresh>> /\ Stays

(* Mutant: the present is a time to come. *)
Ahead_Inclusive == {o \in Occurrences[task.cron] : o >= now}

(* schedule.upcoming(): only times after the reading.                       *)
Ahead == {o \in Occurrences[task.cron] : o > now}

(* The first reading of the clock.                                          *)
Plan ==
    /\ place = "plan" /\ task.cron \in Schedules
    /\ place' = "measure"
    /\ planned' = now
    /\ \E o \in Ahead : waketime' = o /\ \A u \in Ahead : o <= u
    /\ UNCHANGED <<task, aligned, left, shift, last, fresh>> /\ Stays

(* next() is None: unwrap() panics.                                         *)
PlanPanics ==
    /\ place = "plan" /\ task.cron \in Schedules
    /\ Ahead = {}
    /\ place' = "panicked"
    /\ planned' = now
    /\ UNCHANGED <<task, aligned, waketime, left, shift, last, fresh>> /\ Stays

(* Mutant: a negative duration is accepted. *)
InTime_Always == TRUE

(* signed_duration_since(now).to_std() is no error.                         *)
InTime == waketime >= now

(* Mutant: the duration counts from the first reading. *)
Duration_FromPlan == waketime - planned

Duration == waketime - now

(* The second reading.                                                      *)
Measure ==
    /\ place = "measure" /\ InTime
    /\ place' = "asleep"
    /\ left' = Duration
    /\ aligned' = TRUE
    /\ shift' = 0
    /\ UNCHANGED <<task, planned, waketime, last, fresh>> /\ Stays

MeasurePanics ==
    /\ place = "measure" /\ ~InTime
    /\ place' = "panicked"
    /\ UNCHANGED <<task, aligned, planned, waketime, left, shift, last, fresh>> /\ Stays

Wake ==
    /\ place = "asleep" /\ left = 0
    /\ place' = "fetch"
    /\ UNCHANGED <<task, aligned, planned, waketime, left, shift, last, fresh>> /\ Stays

Next ==
    \/ Tick \/ SetClock \/ EditPage \/ Restart
    \/ FetchFails \/ StartRun \/ SkipRun \/ EndRun \/ RunPanics
    \/ NoSchedule \/ Plan \/ PlanPanics \/ Measure \/ MeasurePanics \/ Wake

Spec == Init /\ [][Next]_vars
-----------------------------------------------------------------------------
Starts == place = "fetch" /\ place' = "run"

(* taskrunner.rs:97: "only if ... the runner is aligned to cron".  A run    *)
(* starts for a time of a schedule that the runner has slept to, never on   *)
(* the way out of a failure or a restart; and it starts no sooner than that *)
(* time, but for what the wall clock was set by while it slept.             *)
RunsOnTime == [][Starts => waketime # Never /\ now - shift >= waketime]_vars

(* While the wall clock is not set back, no time is run for twice, whether  *)
(* the run is over at once, is aborted, or the process is stopped and       *)
(* started again right after it (taskrunner.rs:124, :128).                  *)
NoTimeTwice == [][Starts /\ ~setback => waketime > last]_vars

(* While the runner sleeps to a time of its schedule, none passes, unless   *)
(* the wall clock was set: times are only lost to runs that take too long,  *)
(* to failures and to restarts.                                             *)
SleepsThroughNothing ==
    place = "asleep" /\ waketime # Never /\ left > 0 /\ shift = 0 =>
      \A o \in Occurrences[task.cron] : ~(planned < o /\ o <= now)

(* The definition is only looked at when the runner wakes: after an edit,   *)
(* one run may start at a time that is none of the new schedule's, but no   *)
(* second one.                                                              *)
OneStaleRun ==
    [][Starts /\ ~fresh => waketime \in Occurrences[page.cron]]_vars
=============================================================================
