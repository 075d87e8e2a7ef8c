--------------------------- MODULE CronTimerProofs ---------------------------
(***************************************************************************)
(* Proofs about CronTimer for any schedules, however often the clock is     *)
(* set, the page is edited and the runner is started again.                 *)
(***************************************************************************)
EXTENDS CronTimer, TLAPS

-----------------------------------------------------------------------------
(* The invariant.                                                           *)

(* The time that was planned is the first of the schedule after the first   *)
(* reading; at the second reading it is the next one still.                 *)
Planned ==
    place = "measure" \/ (place = "asleep" /\ waketime # Never) =>
      /\ task \in Tasks /\ task.cron \in Schedules
      /\ waketime \in Occurrences[task.cron]
      /\ planned < waketime
      /\ \A o \in Occurrences[task.cron] : planned < o => waketime <= o

(* The sleep ends when the planned time has come on a clock that is not     *)
(* set; only an aligned runner was asleep for one.                          *)
Punctual ==
    /\ place = "asleep" /\ waketime # Never =>
         /\ left > 0 => now - shift + left = waketime
         /\ left = 0 => now - shift >= waketime
    /\ place = "fetch" /\ waketime # Never => now - shift >= waketime
    /\ place \in {"fetch", "asleep"} /\ aligned => waketime # Never

(* Unless the clock was set back, all runs were for times that have passed, *)
(* and the next one will be for a later time.                               *)
Forward ==
    ~setback =>
      /\ last <= now
      /\ shift >= 0
      /\ place \in {"measure", "asleep", "fetch"} /\ waketime # Never => waketime > last

(* After a run, and until the next edit, the runner knows the page as it is.*)
UpToDate ==
    ~fresh =>
      /\ place \in {"run", "plan", "measure"} => task = page
      /\ place \in {"fetch", "asleep"} /\ waketime # Never =>
           page \in Tasks /\ page.cron \in Schedules /\ waketime \in Occurrences[page.cron]

IInv == TypeOK /\ Planned /\ Punctual /\ Forward /\ UpToDate

LEMMA InvInit == Init => IInv
  <1> SUFFICES ASSUME Init PROVE IInv
    OBVIOUS
  <1>1. TypeOK
    <2>1. now \in Times /\ planned \in Times /\ place \in Places
      BY DEF Init, Times, Places
    <2>2. /\ jumps \in Nat /\ edits \in Nat /\ restarts \in Nat
          /\ left \in Nat /\ shift \in Int
      BY CronTimerAssumption DEF Init
    <2> QED
      BY <2>1, <2>2 DEF Init, TypeOK
  <1>2. Planned /\ Punctual /\ UpToDate
    BY DEF Init, Planned, Punctual, UpToDate
  <1>3. Forward
    BY <1>1 DEF Init, Forward, Never, TypeOK, Times
  <1> QED
    BY <1>1, <1>2, <1>3 DEF IInv

-----------------------------------------------------------------------------
(* The environment.                                                         *)

LEMMA InvTick == IInv /\ Tick => IInv'
  <1> SUFFICES ASSUME IInv, Tick PROVE IInv'
    OBVIOUS
  <1>1. /\ UNCHANGED <<page, task, place, aligned, planned, waketime, jumps, edits,
                       restarts, shift, setback, last, fresh>>
        /\ now < MaxTime /\ now' = now + 1
        /\ left' = IF left > 0 THEN left - 1 ELSE 0
    BY DEF Tick, runner
  <1>2. TypeOK'
    BY <1>1, CronTimerAssumption DEF IInv, TypeOK, Times
  <1>3. Planned' /\ UpToDate'
    BY <1>1 DEF IInv, Planned, UpToDate
  <1>4. Punctual' /\ Forward'
    BY <1>1, CronTimerAssumption DEF IInv, TypeOK, Times, Punctual, Forward, Never
  <1> QED
    BY <1>2, <1>3, <1>4 DEF IInv

LEMMA InvSetClock == IInv /\ SetClock => IInv'
  <1> SUFFICES ASSUME IInv, SetClock PROVE IInv'
    OBVIOUS
  <1>1. /\ UNCHANGED <<page, task, place, aligned, planned, waketime, left, edits,
                       restarts, last, fresh>>
        /\ now' \in Times /\ jumps' \in Nat
        /\ shift' = shift + (now' - now)
        /\ setback' \in BOOLEAN /\ (~setback' => ~setback /\ ~(now' < now))
    <2>1. setback' = (setback \/ now' < now)
      BY DEF SetClock
    <2>2. setback' \in BOOLEAN /\ (~setback' => ~setback /\ ~(now' < now))
      BY ONLY <2>1
    <2> QED
      BY <2>2 DEF SetClock, runner, IInv, TypeOK
  <1>2. TypeOK'
    BY <1>1, CronTimerAssumption DEF IInv, TypeOK, Times
  <1>3. Planned' /\ UpToDate'
    BY <1>1 DEF IInv, Planned, UpToDate
  <1>4. /\ now \in Int /\ now' \in Int /\ shift \in Int
        /\ last \in Int /\ waketime \in Int
    BY <1>1, CronTimerAssumption DEF IInv, TypeOK, Times, Never
  <1>5. shift' = shift + (now' - now) /\ shift' \in Int
    BY <1>1, <1>2 DEF TypeOK
  <1>6. now' - shift' = now - shift
    <2> DEFINE n == now'
    <2> DEFINE s == shift'
    <2>1. n \in Int /\ s \in Int /\ s = shift + (n - now)
      BY <1>4, <1>5
    <2> HIDE DEF n, s
    <2>2. n - s = now - shift
      BY <1>4, <2>1
    <2> QED
      BY <2>2 DEF n, s
  <1>7. Punctual'
    BY <1>1, <1>6 DEF IInv, Punctual
  <1>8. Forward'
    <2> SUFFICES ASSUME ~setback'
                 PROVE  /\ last <= now' /\ shift' >= 0
                        /\ place \in {"measure", "asleep", "fetch"} /\ waketime # Never
                             => waketime > last
      BY <1>1 DEF Forward
    <2>1. ~setback /\ ~(now' < now)
      BY <1>1
    <2>2. last <= now /\ shift >= 0
      BY <2>1 DEF IInv, Forward
    <2>3. last <= now' /\ shift' >= 0
      <3> DEFINE n == now'
      <3> DEFINE s == shift'
      <3>1. n \in Int /\ s \in Int /\ s = shift + (n - now) /\ ~(n < now)
        BY <1>4, <1>5, <2>1
      <3> HIDE DEF n, s
      <3>2. last <= n /\ s >= 0
        BY <1>4, <2>2, <3>1
      <3> QED
        BY <3>2 DEF n, s
    <2> QED
      BY <2>1, <2>3 DEF IInv, Forward
  <1> QED
    BY <1>2, <1>3, <1>7, <1>8 DEF IInv

LEMMA InvEditPage == IInv /\ EditPage => IInv'
  <1> SUFFICES ASSUME IInv, EditPage PROVE IInv'
    OBVIOUS
  <1>1. /\ UNCHANGED <<now, jumps, setback, task, place, aligned, planned, waketime,
                       left, restarts, shift, last>>
        /\ page' \in Tasks \cup {None} /\ edits' \in Nat /\ fresh' = TRUE
    BY DEF EditPage, clock, runner, IInv, TypeOK
  <1>2. TypeOK'
    BY <1>1 DEF IInv, TypeOK
  <1> QED
    BY <1>1, <1>2 DEF IInv, Planned, Punctual, Forward, UpToDate

LEMMA InvRestart == IInv /\ Restart => IInv'
  <1> SUFFICES ASSUME IInv, Restart PROVE IInv'
    OBVIOUS
  <1>1. /\ UNCHANGED <<now, jumps, setback, page, planned, edits, shift, last, fresh>>
        /\ place' = "fetch" /\ aligned' = FALSE /\ task' = None
        /\ waketime' = Never /\ left' = 0 /\ restarts' \in Nat
    BY DEF Restart, clock, IInv, TypeOK
  <1>2. TypeOK'
    BY <1>1 DEF IInv, TypeOK, Places
  <1> QED
    BY <1>1, <1>2 DEF IInv, Planned, Punctual, Forward, UpToDate

-----------------------------------------------------------------------------
(* The runner.                                                              *)

LEMMA InvRetry ==
    ASSUME IInv, FetchFails \/ NoSchedule
    PROVE  IInv'
  <1>1. /\ UNCHANGED <<now, jumps, setback, page, edits, restarts, task, planned,
                       shift, last, fresh>>
        /\ place' = "asleep" /\ aligned' = FALSE
        /\ waketime' = Never /\ left' = RetryDelay
    BY DEF FetchFails, NoSchedule, Retry, Stays, clock
  <1>2. TypeOK'
    BY <1>1, CronTimerAssumption DEF IInv, TypeOK, Places
  <1> QED
    BY <1>1, <1>2 DEF IInv, Planned, Punctual, Forward, UpToDate

LEMMA InvStartRun == IInv /\ StartRun => IInv'
  <1> SUFFICES ASSUME IInv, StartRun PROVE IInv'
    OBVIOUS
  <1>1. /\ UNCHANGED <<now, jumps, setback, page, edits, restarts, aligned, planned,
                       waketime, left, shift>>
        /\ place = "fetch" /\ aligned /\ page \in Tasks
        /\ place' = "run" /\ task' = page /\ fresh' = FALSE
        /\ last' = IF waketime > last THEN waketime ELSE last
    BY DEF StartRun, Fetched, Stays, clock
  <1>2. waketime # Never /\ now - shift >= waketime
    BY <1>1 DEF IInv, Punctual
  <1>3. TypeOK'
    BY <1>1 DEF IInv, TypeOK, Places
  <1>4. Forward'
    BY <1>1, <1>2 DEF IInv, TypeOK, Times, Forward, Never
  <1> QED
    BY <1>1, <1>3, <1>4 DEF IInv, Planned, Punctual, UpToDate

LEMMA InvGoesOn ==
    ASSUME IInv, SkipRun \/ EndRun \/ RunPanics \/ PlanPanics \/ MeasurePanics
    PROVE  IInv'
  <1>1. /\ UNCHANGED <<now, jumps, setback, page, edits, restarts, aligned,
                       waketime, left, shift, last, fresh>>
        /\ \/ place' = "plan" /\ task' \in Tasks /\ planned' = planned
           \/ place' = "panicked" /\ task' = task /\ planned' \in {planned, now}
        /\ place' = "plan" /\ ~fresh => task' = page
    BY DEF SkipRun, EndRun, RunPanics, PlanPanics, MeasurePanics, Fetched, Stays, clock, IInv,
           TypeOK, UpToDate
  <1>2. TypeOK'
    BY <1>1 DEF IInv, TypeOK, Places
  <1> QED
    BY <1>1, <1>2 DEF IInv, Planned, Punctual, Forward, UpToDate

LEMMA InvPlan == IInv /\ Plan => IInv'
  <1> SUFFICES ASSUME IInv, Plan PROVE IInv'
    OBVIOUS
  <1>1. /\ UNCHANGED <<now, jumps, setback, page, edits, restarts, task, aligned,
                       left, shift, last, fresh>>
        /\ place = "plan" /\ place' = "measure"
        /\ task \in Tasks /\ task.cron \in Schedules
        /\ planned' = now /\ waketime' \in Ahead /\ \A u \in Ahead : waketime' <= u
    BY DEF Plan, Stays, clock, IInv, TypeOK
  <1>2. /\ waketime' \in Occurrences[task.cron] /\ waketime' > now /\ waketime' \in Nat
        /\ \A o \in Occurrences[task.cron] : now < o => waketime' <= o
    BY <1>1, CronTimerAssumption DEF Ahead, IInv, TypeOK, Times
  <1>3. TypeOK'
    BY <1>1, <1>2 DEF IInv, TypeOK, Places
  <1>4. Planned'
    BY <1>1, <1>2 DEF Planned
  <1>5. Forward'
    BY <1>1, <1>2 DEF IInv, TypeOK, Times, Forward, Never
  <1> QED
    BY <1>1, <1>3, <1>4, <1>5 DEF IInv, Punctual, UpToDate

LEMMA InvMeasure == IInv /\ Measure => IInv'
  <1> SUFFICES ASSUME IInv, Measure PROVE IInv'
    OBVIOUS
  <1>1. /\ UNCHANGED <<now, jumps, setback, page, edits, restarts, task, planned,
                       waketime, last, fresh>>
        /\ place = "measure" /\ waketime >= now
        /\ place' = "asleep" /\ left' = waketime - now /\ aligned' = TRUE /\ shift' = 0
    BY DEF Measure, InTime, Duration, Stays, clock
  <1>2. /\ task \in Tasks /\ task.cron \in Schedules
        /\ waketime \in Occurrences[task.cron] /\ waketime \in Nat
    BY <1>1, CronTimerAssumption DEF IInv, Planned
  <1>3. TypeOK'
    BY <1>1, <1>2 DEF IInv, TypeOK, Places, Times
  <1>4. Planned'
    BY <1>1 DEF IInv, Planned
  <1>5. Punctual'
    BY <1>1, <1>2 DEF IInv, TypeOK, Times, Punctual, Never
  <1>6. Forward' /\ UpToDate'
    BY <1>1, <1>2 DEF IInv, Forward, UpToDate
  <1> QED
    BY <1>3, <1>4, <1>5, <1>6 DEF IInv

LEMMA InvWake == IInv /\ Wake => IInv'
  <1> SUFFICES ASSUME IInv, Wake PROVE IInv'
    OBVIOUS
  <1>1. /\ UNCHANGED <<now, jumps, setback, page, edits, restarts, task, aligned,
                       planned, waketime, left, shift, last, fresh>>
        /\ place = "asleep" /\ left = 0 /\ place' = "fetch"
    BY DEF Wake, Stays, clock
  <1>2. TypeOK'
    BY <1>1 DEF IInv, TypeOK, Places
  <1> QED
    BY <1>1, <1>2 DEF IInv, Planned, Punctual, Forward, UpToDate

LEMMA InvNext == IInv /\ [Next]_vars => IInv'
  <1> SUFFICES ASSUME IInv, [Next]_vars PROVE IInv'
    OBVIOUS
  <1>1. CASE UNCHANGED vars
    BY <1>1 DEF vars, clock, runner, IInv, TypeOK, Planned, Punctual, Forward, UpToDate
  <1>2. CASE Next
    BY <1>2, InvTick, InvSetClock, InvEditPage, InvRestart, InvRetry, InvStartRun,
       InvGoesOn, InvPlan, InvMeasure, InvWake DEF Next
  <1> QED
    BY <1>1, <1>2

LEMMA Invariant == Spec => []IInv
  BY InvInit, InvNext, PTL DEF Spec

-----------------------------------------------------------------------------
(* The state of the runner has its type; no sleep has a negative length.    *)
THEOREM TypeCorrect == Spec => []TypeOK
  BY Invariant, PTL DEF IInv

(* However the clock is set, no time of the schedule passes while the       *)
(* runner sleeps on a clock that was left alone.                            *)
THEOREM NothingSleptThrough == Spec => []SleepsThroughNothing
  <1>1. IInv => SleepsThroughNothing
    <2> SUFFICES ASSUME IInv, place = "asleep", waketime # Never, left > 0, shift = 0,
                        NEW o \in Occurrences[task.cron], planned < o
                 PROVE  ~(o <= now)
      BY DEF SleepsThroughNothing
    <2>1. task.cron \in Schedules /\ waketime <= o /\ waketime = now + left
      BY DEF IInv, TypeOK, Times, Planned, Punctual
    <2>2. o \in Nat
      BY <2>1, CronTimerAssumption
    <2> QED
      BY <2>1, <2>2 DEF IInv, TypeOK, Times
  <1> QED
    BY <1>1, Invariant, PTL

(* A step that starts a run.                                                *)
LEMMA StartsMeans ==
    ASSUME IInv, [Next]_vars, Starts
    PROVE  StartRun
  BY DEF Next, Starts, vars, clock, runner, Tick, SetClock, EditPage, Restart, FetchFails,
         NoSchedule, Retry, SkipRun, EndRun, RunPanics, Plan, PlanPanics, Measure, MeasurePanics, Wake

(* Runs start after a sleep to a time of a schedule, and not before it.     *)
THEOREM AlwaysOnTime == Spec => RunsOnTime
  <1>1. ASSUME IInv, [Next]_vars
        PROVE  [Starts => waketime # Never /\ now - shift >= waketime]_vars
    <2> SUFFICES ASSUME Starts PROVE waketime # Never /\ now - shift >= waketime
      OBVIOUS
    <2>1. place = "fetch" /\ aligned
      BY <1>1, StartsMeans DEF StartRun
    <2> QED
      BY <1>1, <2>1 DEF IInv, Punctual
  <1> QED
    BY <1>1, Invariant, PTL DEF Spec, RunsOnTime

(* No time is run for twice while the clock is not set back.                *)
THEOREM NeverTwice == Spec => NoTimeTwice
  <1>1. ASSUME IInv, [Next]_vars
        PROVE  [Starts /\ ~setback => waketime > last]_vars
    <2> SUFFICES ASSUME Starts, ~setback PROVE waketime > last
      OBVIOUS
    <2>1. place = "fetch" /\ aligned
      BY <1>1, StartsMeans DEF StartRun
    <2> QED
      BY <1>1, <2>1 DEF IInv, Punctual, Forward
  <1> QED
    BY <1>1, Invariant, PTL DEF Spec, NoTimeTwice

(* After an edit at most one run starts at a time of an earlier schedule.   *)
THEOREM StaleOnce == Spec => OneStaleRun
  <1>1. ASSUME IInv, [Next]_vars
        PROVE  [Starts /\ ~fresh => waketime \in Occurrences[page.cron]]_vars
    <2> SUFFICES ASSUME Starts, ~fresh PROVE waketime \in Occurrences[page.cron]
      OBVIOUS
    <2>1. place = "fetch" /\ aligned
      BY <1>1, StartsMeans DEF StartRun
    <2> QED
      BY <1>1, <2>1 DEF IInv, Punctual, UpToDate
  <1> QED
    BY <1>1, Invariant, PTL DEF Spec, OneStaleRun
=============================================================================
