-------------------------- MODULE TaskRoutinesProofs --------------------------
(***************************************************************************)
(* The safety properties of TaskRoutines, proved for every set of pages,    *)
(* slots, tasks and configurations.  IInv is the inductive invariant: none  *)
(* of the properties is inductive by itself.  EditUnderRecentConfig, for    *)
(* one, needs that the finder writes the globals in the order in which a    *)
(* run reads them, and that a run only exists after a complete update.      *)
(***************************************************************************)
EXTENDS TaskRoutines, TLAPS

(* Between two updates the four globals stand for one publication; during   *)
(* an update they fall, in the order of writing, by at most one.            *)
GlobalsInOrder ==
    /\ global["activate"] <= Latest
    /\ global["default"] <= global["activate"]
    /\ global["denyns"] <= global["default"]
    /\ global["resultheader"] <= global["denyns"]
    /\ Latest <= global["resultheader"] + 1
    /\ finder # "activate" => global["activate"] = Latest
    /\ finder \notin {"activate", "default"} => global["default"] = Latest
    /\ finder \notin {"activate", "default", "denyns"} => global["denyns"] = Latest
    /\ finder \notin {"activate", "default", "denyns", "resultheader"}
         => global["resultheader"] = Latest
    /\ finder \in {"activate", "default", "denyns", "resultheader", "tasks", "map"}
         => Latest >= 1

(* The switch is on only if the publication it was written from is on.      *)
ActivatedByConfig ==
    activated => global["activate"] >= 1 /\ published[global["activate"]].activate

(* A routine is only spawned after all the globals were written.            *)
SpawnedAfterUpdate ==
    \A r \in Runners : status[r] # "none" => global["resultheader"] >= 1

(* task_map only holds runners it has not dropped.                          *)
MapHolds ==
    \A p \in PageIds, s \in Slots :
        task_map[p] = s => status[<<p, s>>] \in {"live", "panicked"}

(* The one edit after an abort ends the poll it was sent in.                *)
LateEdit ==
    \A r \in Runners :
        \/ late[r] = 0
        \/ late[r] = 1 /\ status[r] = "aborted" /\ pc[r] = "editing"

(* What the locals of a run hold before its first output format.            *)
RunData ==
    \A r \in Runners :
        /\ pc[r] = "fetch" => out[r] = 0
        /\ pc[r] \in {"activate", "default", "denyns", "resultheader"}
             => info[r] \in Tasks /\ out[r] = 0

(* What run r knows of the globals at the place where it is.                *)
ViewOf(r) ==
    /\ pc[r] \in AfterActivate =>
         /\ view[r]["activate"] \in 1..Latest
         /\ published[view[r]["activate"]].activate
    /\ pc[r] \in AfterDefault => view[r]["default"] \in 1..Latest
    /\ pc[r] \in AfterDenied =>
         /\ view[r]["denyns"] \in 1..Latest
         /\ view[r]["denyns"] + 1 >= view[r]["activate"]
    /\ pc[r] \in Writing => view[r]["resultheader"] \in 1..Latest

RunView == \A r \in Runners : ViewOf(r)

(* Past the check of its namespace a target is not denied.                  *)
TargetAllowed ==
    \A r \in Runners :
        pc[r] \in {"query", "original", "edit", "editing"} => ~Denied(r)

IInv ==
    /\ TypeOK
    /\ GlobalsInOrder
    /\ ActivatedByConfig
    /\ SpawnedAfterUpdate
    /\ MapHolds
    /\ NoOrphanRunner
    /\ LateEdit
    /\ RunData
    /\ RunView
    /\ TargetAllowed
    /\ EditUnderRecentConfig

-----------------------------------------------------------------------------
(* Who changes what.                                                        *)

(* The routine of r panics.                                                 *)
Panics(r) ==
    TargetPanics(r) \/ QueryPanics(r) \/ SchedulePanics(r) \/ DurationPanics(r)

EditorStep == EditSite \/ EditDir \/ \E p \in PageIds : EditTask(p)

(* Editors change neither the bot nor its edits, the server only handles    *)
(* edits, the finder leaves the runners alone except for starting and       *)
(* stopping them, and a runner changes nothing of the finder.               *)
LEMMA StepCases ==
    ASSUME [Next]_vars
    PROVE  \/ EditorStep /\ UNCHANGED <<inflight, faults, finderVars, runnerVars>>
           \/ UNCHANGED vars
           \/ (\E e \in inflight : HandleEdit(e)) /\ UNCHANGED <<wiki, faults, finderVars, runnerVars>>
           \/ FinderStep /\ ~UpdateTaskMap /\ UNCHANGED <<wiki, inflight, task_map, runnerVars>>
           \/ UpdateTaskMap
           \/ \E r \in Runners : RunnerStep(r) /\ UNCHANGED <<wiki, finderVars>>
<1>1. CASE EditorStep
  BY <1>1 DEF EditorStep, EditSite, EditDir, EditTask
<1>2. CASE \E e \in inflight : HandleEdit(e)
  BY <1>2 DEF HandleEdit
<1>3. CASE FinderStep /\ ~UpdateTaskMap
  BY <1>3 DEF FinderStep, FetchConfig, FetchConfigFails, WriteActivate,
    WriteDefault, WriteDenied, WriteHeader, ListTasks, ListTasksFails,
    FinderPanics, SwitchOff, FinderWakes, wiki
<1>4. ASSUME NEW r \in Runners, RunnerStep(r)
      PROVE  UNCHANGED <<wiki, finderVars>>
  BY <1>4 DEF RunnerStep, FetchTask, FetchTaskFails, ReadActivate, ReadDefault,
    ReadDenied, ReadHeader, SkipTarget, TargetPanics, UseTarget, QueryPanics,
    Execute, FetchOriginal, FetchOriginalFails, SendEdit, EditReply, Schedule,
    SchedulePanics, DurationPanics, RunnerWakes, DropAborted
<1> QED
  BY <1>1, <1>2, <1>3, <1>4 DEF Next, EditorStep, FinderStep
-----------------------------------------------------------------------------
(* Types.                                                                   *)

LEMMA FinderTypes ==
    ASSUME IInv, FinderStep
    PROVE  TypeOK'
<1> USE TaskRoutinesAssumption DEF IInv, TypeOK, FinderGoesTo, FinderPlaces,
        runnerVars, wiki
<1>1. CASE FetchConfig
  BY <1>1 DEF FetchConfig, Latest
<1>2. CASE FetchConfigFails
  BY <1>2 DEF FetchConfigFails, Outage
<1>3. CASE WriteActivate
  BY <1>3 DEF WriteActivate, Latest, GlobalsInOrder, View, Globals
<1>4. CASE WriteDefault
  <2>1. global' \in View
    BY <1>4 DEF WriteDefault, Latest, View, Globals
  <2> QED
    BY <1>4, <2>1 DEF WriteDefault
<1>5. CASE WriteDenied
  <2>1. global' \in View
    BY <1>5 DEF WriteDenied, Latest, View, Globals
  <2> QED
    BY <1>5, <2>1 DEF WriteDenied
<1>6. CASE WriteHeader
  <2>1. global' \in View
    BY <1>6 DEF WriteHeader, Latest, View, Globals
  <2> QED
    BY <1>6, <2>1 DEF WriteHeader
<1>7. CASE ListTasks
  BY <1>7 DEF ListTasks
<1>8. CASE ListTasksFails
  BY <1>8 DEF ListTasksFails, Outage
<1>9. CASE FinderPanics
  BY <1>9 DEF FinderPanics
<1>10. CASE UpdateTaskMap
  BY <1>10 DEF UpdateTaskMap, AfterStop
<1>11. CASE SwitchOff
  BY <1>11 DEF SwitchOff
<1>12. CASE FinderWakes
  BY <1>12 DEF FinderWakes
<1> QED
  BY <1>1, <1>2, <1>3, <1>4, <1>5, <1>6, <1>7, <1>8, <1>9, <1>10, <1>11, <1>12
     DEF FinderStep

LEMMA RunnerTypes ==
    ASSUME IInv, NEW r \in Runners, RunnerStep(r)
    PROVE  TypeOK'
<1> USE TaskRoutinesAssumption DEF IInv, TypeOK, GoesTo, finderVars, wiki,
        RunnerPlaces, Waiting, Polling, Writing
<1>0. \A t \in Tasks : Len(t.output) \in Nat
  OBVIOUS
<1>a. ASSUME NextOutput(r), info[r] \in Tasks,
             UNCHANGED <<wiki, inflight, finderVars, status, aligned, info, late>>,
             view' \in [Runners -> View], result' \in [Runners -> Results],
             faults' \in Nat
      PROVE  TypeOK'
  <2>1. CASE out[r] < Len(info[r].output)
    <3>1. pc' = [pc EXCEPT ![r] = "target"] /\ out' = [out EXCEPT ![r] = @ + 1]
      BY <1>a, <2>1 DEF NextOutput
    <3>2. pc' \in [Runners -> RunnerPlaces] /\ out' \in [Runners -> Nat]
      BY <3>1
    <3>3. ASSUME NEW q \in Runners, pc'[q] \in Writing
          PROVE  info'[q] \in Tasks /\ out'[q] \in 1..Len(info'[q].output)
      BY <1>a, <1>0, <2>1, <3>1, <3>3
    <3> QED
      BY <1>a, <3>2, <3>3
  <2>2. CASE ~(out[r] < Len(info[r].output))
    BY <1>a, <2>2, ZenonT(40) DEF NextOutput
  <2> QED
    BY <2>1, <2>2
<1>1. CASE FetchTask(r)
  BY <1>1 DEF FetchTask, Wakes
<1>2. CASE FetchTaskFails(r)
  BY <1>2 DEF FetchTaskFails, Wakes, Outage
<1>3. CASE ReadActivate(r)
  <2>1. CASE MayRun(r)
    <3>1. /\ Polls(r, "activate") /\ GoesTo(r, "default")
          /\ view' = [view EXCEPT ![r]["activate"] = global["activate"]]
          /\ UNCHANGED <<wiki, inflight, faults, finderVars, status, aligned, info,
                         out, result, late>>
      BY <1>3, <2>1 DEF ReadActivate
    <3> QED
      BY <3>1 DEF Polls, View, Globals
  <2>2. CASE ~MayRun(r)
    BY <1>3, <2>2, ZenonT(40) DEF ReadActivate, Polls
  <2> QED
    BY <2>1, <2>2
<1>4. CASE ReadDefault(r)
  BY <1>4 DEF ReadDefault, Polls, View, Globals
<1>5. CASE ReadDenied(r)
  BY <1>5 DEF ReadDenied, Polls, View, Globals
<1>6. CASE ReadHeader(r)
  BY <1>6, <1>a DEF ReadHeader, Polls, RunData, View, Globals
<1>7. CASE SkipTarget(r)
  BY <1>7, <1>a DEF SkipTarget, Wakes, Outage
<1>8. CASE TargetPanics(r)
  BY <1>8 DEF TargetPanics, Ends, View, NoView, Results
<1>20. CASE QueryPanics(r)
  BY <1>20 DEF QueryPanics, Ends, View, NoView, Results
<1>9. CASE UseTarget(r)
  <2>1. result' \in [Runners -> Results]
    BY <1>9 DEF UseTarget, GotResult, Results
  <2>3. pc' \in [Runners -> RunnerPlaces]
    BY <1>9 DEF UseTarget, GotResult, Compose
  <2>2. \A q \in Runners : pc'[q] \in Writing => pc[q] \in Writing
    BY <1>9 DEF UseTarget, MayWrite, Wakes, GotResult, Compose
  <2> QED
    BY <1>9, <2>1, <2>2, <2>3 DEF UseTarget
<1>10. CASE Execute(r)
  BY <1>10 DEF Execute, Wakes, GotResult, Compose, Results
<1>11. CASE FetchOriginal(r)
  BY <1>11 DEF FetchOriginal, Wakes
<1>12. CASE FetchOriginalFails(r)
  BY <1>12, <1>a DEF FetchOriginalFails, Wakes, Outage
<1>13. CASE SendEdit(r)
  <2>1. ThisEdit(r) \in Edit
    BY <1>13, <1>0 DEF SendEdit, Polls, ThisEdit, Target, Edit, View, Globals
  <2> QED
    BY <1>13, <2>1 DEF SendEdit, Polls
<1>14. CASE EditReply(r)
  BY <1>14, <1>a DEF EditReply, Wakes, Outage
<1>15. CASE Schedule(r)
  BY <1>15 DEF Schedule, Polls
<1>16. CASE SchedulePanics(r)
  BY <1>16 DEF SchedulePanics, PollPanics, Ends, View, NoView, Results
<1>19. CASE DurationPanics(r)
  BY <1>19 DEF DurationPanics, PollPanics, Outage, Ends, View, NoView, Results
<1>17. CASE RunnerWakes(r)
  BY <1>17 DEF RunnerWakes, Wakes, View, NoView, Results
<1>18. CASE DropAborted(r)
  BY <1>18 DEF DropAborted, Ends, View, NoView, Results
<1> QED
  BY <1>1, <1>2, <1>3, <1>4, <1>5, <1>6, <1>7, <1>8, <1>9, <1>10, <1>11, <1>12,
     <1>13, <1>14, <1>15, <1>16, <1>17, <1>18, <1>19, <1>20
     DEF RunnerStep

LEMMA TypesKept ==
    ASSUME IInv, [Next]_vars
    PROVE  TypeOK'
<1> USE TaskRoutinesAssumption DEF IInv, TypeOK, finderVars, runnerVars, wiki
<1>1. CASE EditSite
  BY <1>1 DEF EditSite, EditorAction
<1>2. CASE EditDir
  BY <1>2 DEF EditDir, EditorAction
<1>3. ASSUME NEW p \in PageIds, EditTask(p)
      PROVE  TypeOK'
  BY <1>3 DEF EditTask, EditorAction
<1>4. ASSUME NEW e \in inflight, HandleEdit(e)
      PROVE  TypeOK'
  BY <1>4 DEF HandleEdit
<1>5. CASE UNCHANGED vars
  BY <1>5 DEF vars
<1> QED
  BY <1>1, <1>2, <1>3, <1>4, <1>5, FinderTypes, RunnerTypes DEF Next
-----------------------------------------------------------------------------
(* The globals.                                                             *)

LEMMA GlobalsKept ==
    ASSUME IInv, [Next]_vars
    PROVE  GlobalsInOrder' /\ ActivatedByConfig'
<1> USE DEF IInv, GlobalsInOrder, ActivatedByConfig, Latest, FinderGoesTo
<1>t. /\ published \in Seq(Configs) /\ Len(published) \in Nat
      /\ global \in [Globals -> Nat]
  BY DEF TypeOK, View
<1>1. CASE UNCHANGED <<finder, published, activated, global>>
  BY <1>1
<1>2. CASE FetchConfig
  <2>1. /\ Len(published) <= Len(published') /\ Len(published') <= Len(published) + 1
        /\ Len(published') >= 1
        /\ \A n \in 1..Len(published) : published'[n] = published[n]
    BY <1>2, <1>t DEF FetchConfig
  <2>2. global' = global /\ activated' = activated /\ finder = "config" /\ finder' = "activate"
    BY <1>2 DEF FetchConfig
  <2>3. GlobalsInOrder'
    BY <1>t, <2>1, <2>2 DEF Globals
  <2>4. ActivatedByConfig'
    BY <1>t, <2>1, <2>2 DEF Globals
  <2> QED
    BY <2>3, <2>4
<1>3. CASE WriteActivate
  BY <1>3, <1>t DEF WriteActivate, Globals
<1>4. CASE WriteDefault
  BY <1>4, <1>t DEF WriteDefault, Globals
<1>5. CASE WriteDenied
  BY <1>5, <1>t DEF WriteDenied, Globals
<1>6. CASE WriteHeader
  BY <1>6, <1>t DEF WriteHeader, Globals
<1>7. CASE FetchConfigFails \/ ListTasks \/ ListTasksFails \/ FinderPanics
           \/ UpdateTaskMap \/ FinderWakes
  BY <1>7 DEF FetchConfigFails, ListTasks, ListTasksFails, FinderPanics,
    UpdateTaskMap, FinderWakes
<1>8. CASE SwitchOff
  BY <1>8 DEF SwitchOff
<1> QED
  BY <1>1, <1>2, <1>3, <1>4, <1>5, <1>6, <1>7, <1>8, StepCases
     DEF FinderStep, finderVars, vars

-----------------------------------------------------------------------------
(* Spawning and aborting.                                                   *)

(* A step of one runner leaves the others alone; its routine goes on, or    *)
(* ends: it panics while task_map holds it, or is dropped after an abort.   *)
LEMMA RunnerFrame ==
    ASSUME IInv, NEW r \in Runners, RunnerStep(r)
    PROVE  /\ \A q \in Runners \ {r} :
                /\ status'[q] = status[q] /\ pc'[q] = pc[q] /\ info'[q] = info[q]
                /\ view'[q] = view[q] /\ out'[q] = out[q] /\ late'[q] = late[q]
           /\ \/ status'[r] = status[r] /\ status[r] \in {"live", "aborted"}
              \/ status[r] = "live" /\ status'[r] = "panicked"
              \/ status[r] = "aborted" /\ status'[r] = "none"
<1> USE DEF IInv, TypeOK
<1>1. CASE \/ FetchTask(r) \/ FetchTaskFails(r) \/ ReadActivate(r) \/ ReadDefault(r)
           \/ ReadDenied(r) \/ UseTarget(r) \/ Execute(r) \/ FetchOriginal(r)
           \/ SendEdit(r) \/ Schedule(r) \/ RunnerWakes(r)
  BY <1>1 DEF FetchTask, FetchTaskFails, ReadActivate, ReadDefault, ReadDenied,
    UseTarget, MayWrite, Execute, FetchOriginal, SendEdit, Schedule, RunnerWakes,
    GotResult, Compose, GoesTo, Wakes, Polls
<1>2. CASE \/ ReadHeader(r) \/ SkipTarget(r) \/ FetchOriginalFails(r) \/ EditReply(r)
  BY <1>2 DEF ReadHeader, SkipTarget, FetchOriginalFails, EditReply, NextOutput,
    GoesTo, Wakes, Polls
<1>3. CASE Panics(r) \/ DropAborted(r)
  BY <1>3 DEF Panics, TargetPanics, QueryPanics, SchedulePanics, DurationPanics,
    PollPanics, MayWrite, DropAborted, Ends, Wakes, Polls
<1> QED
  BY <1>1, <1>2, <1>3 DEF RunnerStep, Panics

(* A routine exists only after an update, and the globals only grow.        *)
LEMMA SpawnedKept ==
    ASSUME IInv, [Next]_vars
    PROVE  SpawnedAfterUpdate'
<1>0. TypeOK'
  BY TypesKept
<1> USE DEF IInv, SpawnedAfterUpdate
<1>t. /\ global \in [Globals -> Nat] /\ Latest \in Nat
      /\ global["resultheader"] <= Latest
  BY DEF TypeOK, View, Globals, GlobalsInOrder, Latest
<1>1. CASE global' = global /\ status' = status
  BY <1>1
<1>2. CASE FinderStep /\ ~UpdateTaskMap /\ status' = status
  <2>1. global'["resultheader"] >= global["resultheader"]
    BY <1>2, <1>t DEF FinderStep, FetchConfig, FetchConfigFails, WriteActivate,
      WriteDefault, WriteDenied, WriteHeader, ListTasks, ListTasksFails,
      FinderPanics, SwitchOff, FinderWakes, Globals
  <2> QED
    BY <1>0, <1>2, <1>t, <2>1 DEF TypeOK, View, Globals
<1>3. CASE UpdateTaskMap
  BY <1>3 DEF UpdateTaskMap, FinderGoesTo, GlobalsInOrder
<1>4. ASSUME NEW r \in Runners, RunnerStep(r), UNCHANGED finderVars
      PROVE  SpawnedAfterUpdate'
  <2>1. \A q \in Runners : status'[q] # "none" => status[q] # "none"
    BY <1>4, RunnerFrame
  <2> QED
    BY <1>4, <2>1 DEF finderVars
<1> QED
  BY <1>1, <1>2, <1>3, <1>4, StepCases DEF finderVars, runnerVars, vars

(* What one update of task_map does to the routine of page p in slot s.     *)
LEMMA MapUpdate ==
    ASSUME IInv, UpdateTaskMap, NEW p \in PageIds, NEW s \in Slots
    PROVE  /\ task_map'[p] = s => status'[<<p, s>>] \in {"live", "panicked"}
           /\ status'[<<p, s>>] = "live" => task_map'[p] = s
           /\ status[<<p, s>>] = "aborted" => status'[<<p, s>>] = "aborted"
<1> DEFINE r == <<p, s>>
<1>1. r \in Runners /\ r[1] = p /\ r[2] = s
  BY DEF Runners
<1>2. PICK new \in [PageIds -> Slots \cup {NoSlot}] :
        /\ \A q \in PageIds : new[q] \in Entries(q)
        /\ task_map' = new
        /\ status' = [q \in Runners |->
             IF task_map[q[1]] = new[q[1]] THEN status[q]
             ELSE IF task_map[q[1]] = q[2] THEN AfterStop(status[q])
             ELSE IF new[q[1]] = q[2] THEN "live"
             ELSE status[q]]
  BY DEF UpdateTaskMap
<1>3. \/ new[p] = NoSlot
      \/ new[p] = task_map[p]
      \/ task_map[p] = NoSlot /\ status[<<p, new[p]>>] = "none"
  <2>1. new[p] \in Entries(p)
    BY <1>2
  <2> QED
    BY <2>1 DEF Entries
<1>4. /\ task_map[p] = s => status[r] \in {"live", "panicked"}
      /\ status[r] = "live" => task_map[p] = s
  BY <1>1 DEF IInv, MapHolds, NoOrphanRunner
<1>5. status'[r] = IF task_map[p] = new[p] THEN status[r]
                   ELSE IF task_map[p] = s THEN AfterStop(status[r])
                   ELSE IF new[p] = s THEN "live" ELSE status[r]
  BY <1>1, <1>2
<1>6. s # NoSlot /\ task_map'[p] = new[p]
  BY <1>2, TaskRoutinesAssumption
<1>7. CASE task_map[p] = new[p]
  BY <1>4, <1>5, <1>6, <1>7
<1>8. CASE task_map[p] # new[p] /\ task_map[p] = s
  BY <1>3, <1>4, <1>5, <1>6, <1>8 DEF AfterStop
<1>9. CASE task_map[p] # new[p] /\ task_map[p] # s
  BY <1>3, <1>4, <1>5, <1>6, <1>9
<1> QED
  BY <1>7, <1>8, <1>9

LEMMA MapKept ==
    ASSUME IInv, [Next]_vars
    PROVE  MapHolds' /\ NoOrphanRunner'
<1>1. CASE UNCHANGED <<task_map, status>>
  BY <1>1 DEF IInv, MapHolds, NoOrphanRunner
<1>2. CASE UpdateTaskMap
  <2>1. MapHolds'
    BY <1>2, MapUpdate DEF MapHolds
  <2>2. ASSUME NEW r \in Runners
        PROVE  status'[r] = "live" => task_map'[r[1]] = r[2]
    <3>1. r[1] \in PageIds /\ r[2] \in Slots /\ r = <<r[1], r[2]>>
      BY DEF Runners
    <3> QED
      BY <1>2, <3>1, MapUpdate
  <2> QED
    BY <2>1, <2>2 DEF NoOrphanRunner
<1>3. ASSUME NEW r \in Runners, RunnerStep(r), UNCHANGED finderVars
      PROVE  MapHolds' /\ NoOrphanRunner'
  <2>1. \A q \in Runners :
           \/ status'[q] = status[q]
           \/ status[q] = "live" /\ status'[q] = "panicked"
           \/ status[q] = "aborted" /\ status'[q] = "none"
    BY <1>3, RunnerFrame
  <2>2. task_map' = task_map
    BY <1>3 DEF finderVars
  <2>3. MapHolds'
    BY <2>1, <2>2 DEF IInv, MapHolds, Runners
  <2>4. NoOrphanRunner'
    BY <2>1, <2>2 DEF IInv, NoOrphanRunner
  <2> QED
    BY <2>3, <2>4
<1> QED
  BY <1>1, <1>2, <1>3, StepCases DEF finderVars, runnerVars, vars

LEMMA LateKept ==
    ASSUME IInv, [Next]_vars
    PROVE  LateEdit'
<1>1. CASE UNCHANGED <<status, pc, late>>
  BY <1>1 DEF IInv, LateEdit
<1>2. CASE UpdateTaskMap
  <2>1. ASSUME NEW r \in Runners, status[r] = "aborted"
        PROVE  status'[r] = "aborted"
    <3>1. r[1] \in PageIds /\ r[2] \in Slots /\ r = <<r[1], r[2]>>
      BY DEF Runners
    <3> QED
      BY <1>2, <2>1, <3>1, MapUpdate
  <2> QED
    BY <1>2, <2>1 DEF UpdateTaskMap, IInv, LateEdit
<1>3. ASSUME NEW r \in Runners, RunnerStep(r)
      PROVE  LateEdit'
  <2>1. CASE SendEdit(r)
    BY <2>1 DEF SendEdit, Polls, GoesTo, IInv, TypeOK, LateEdit
  <2>2. CASE Panics(r) \/ DropAborted(r)
    <3>1. late'[r] = 0
      BY <2>2 DEF Panics, TargetPanics, QueryPanics, SchedulePanics,
        DurationPanics, PollPanics, DropAborted, Ends, IInv, TypeOK
    <3>2. \A q \in Runners \ {r} :
            status'[q] = status[q] /\ pc'[q] = pc[q] /\ late'[q] = late[q]
      BY <1>3, RunnerFrame
    <3> QED
      BY <3>1, <3>2 DEF IInv, LateEdit
  <2>3. CASE ~SendEdit(r) /\ ~Panics(r) /\ ~DropAborted(r)
    <3>1. late' = late /\ (status[r] = "live" \/ pc[r] # "editing")
      BY <1>3, <2>3 DEF RunnerStep, Panics, FetchTask, FetchTaskFails, ReadActivate,
        ReadDefault, ReadDenied, ReadHeader, SkipTarget, UseTarget, MayWrite, Execute,
        FetchOriginal, FetchOriginalFails, EditReply, Schedule, RunnerWakes,
        Wakes, Polls
    <3>2. \A q \in Runners \ {r} : status'[q] = status[q] /\ pc'[q] = pc[q]
      BY <1>3, RunnerFrame
    <3> QED
      BY <3>1, <3>2 DEF IInv, LateEdit
  <2> QED
    BY <2>1, <2>2, <2>3
<1> QED
  BY <1>1, <1>2, <1>3, StepCases DEF finderVars, runnerVars, vars
-----------------------------------------------------------------------------
(* What a run holds.                                                        *)

(* A publication keeps its number.                                          *)
LEMMA PublishedGrows ==
    ASSUME IInv, [Next]_vars
    PROVE  /\ Latest \in Nat /\ Latest' \in Nat /\ Latest <= Latest'
           /\ \A n \in 1..Latest :
                published'[n] = published[n] /\ DeniedBy(n)' = DeniedBy(n)
<1>t. published \in Seq(Configs) /\ Latest \in Nat
  BY DEF IInv, TypeOK, Latest
<1>1. CASE published' = published
  BY <1>t, <1>1 DEF Latest, DeniedBy
<1>2. CASE FetchConfig
  BY <1>t, <1>2 DEF FetchConfig, Latest, DeniedBy
<1>3. CASE FinderStep /\ ~FetchConfig
  <2>1. published' = published
    BY <1>3 DEF FinderStep, FetchConfigFails, WriteActivate, WriteDefault,
      WriteDenied, WriteHeader, ListTasks, ListTasksFails, FinderPanics,
      UpdateTaskMap, SwitchOff, FinderWakes
  <2> QED
    BY <1>1, <2>1
<1> QED
  BY <1>1, <1>2, <1>3, StepCases DEF finderVars, vars, FinderStep

(* The finder never touches the locals of a run.                            *)
LEMMA RunLocals ==
    ASSUME [Next]_vars
    PROVE  \/ UNCHANGED <<pc, info, view, out>>
           \/ \E r \in Runners : RunnerStep(r) /\ UNCHANGED finderVars
<1>1. CASE UpdateTaskMap
  BY <1>1 DEF UpdateTaskMap
<1> QED
  BY <1>1, StepCases DEF runnerVars, vars

LEMMA RunDataKept ==
    ASSUME IInv, [Next]_vars
    PROVE  RunData'
<1> USE DEF RunData
<1>1. CASE UNCHANGED <<pc, info, view, out>>
  BY <1>1 DEF IInv
<1>2. ASSUME NEW r \in Runners, RunnerStep(r)
      PROVE  RunData'
  <2>1. \A q \in Runners \ {r} :
          pc'[q] = pc[q] /\ info'[q] = info[q] /\ out'[q] = out[q]
    BY <1>2, RunnerFrame
  <2>2. CASE FetchTask(r) \/ ReadActivate(r) \/ ReadDefault(r) \/ ReadDenied(r)
    BY <2>2 DEF FetchTask, ReadActivate, ReadDefault, ReadDenied, GoesTo, Wakes,
      Polls, IInv, TypeOK
  <2>3. CASE ReadHeader(r) \/ SkipTarget(r) \/ FetchOriginalFails(r) \/ EditReply(r)
    <3>1. pc'[r] \in {"target", "cron"}
      BY <2>3 DEF ReadHeader, SkipTarget, FetchOriginalFails, EditReply, NextOutput,
        GoesTo, IInv, TypeOK
    <3> QED
      BY <2>1, <3>1 DEF IInv
  <2>4. CASE \/ FetchTaskFails(r) \/ UseTarget(r) \/ Execute(r) \/ FetchOriginal(r)
             \/ SendEdit(r) \/ Schedule(r)
    <3>1. pc'[r] \in {"asleep", "query", "original", "edit", "editing"}
      BY <2>4 DEF FetchTaskFails, UseTarget, Execute, FetchOriginal, SendEdit,
        Schedule, GotResult, Compose, GoesTo, IInv, TypeOK
    <3> QED
      BY <2>1, <3>1 DEF IInv
  <2>5. CASE Panics(r) \/ DropAborted(r) \/ RunnerWakes(r)
    <3>1. pc'[r] = "fetch" /\ out'[r] = 0
      BY <2>5 DEF Panics, TargetPanics, QueryPanics, SchedulePanics,
        DurationPanics, PollPanics, DropAborted, RunnerWakes, Ends,
        GoesTo, IInv, TypeOK
    <3> QED
      BY <2>1, <3>1 DEF IInv
  <2> QED
    BY <1>2, <2>2, <2>3, <2>4, <2>5 DEF RunnerStep, Panics
<1> QED
  BY <1>1, <1>2, RunLocals


(* What a run knows stays true while it does not move, whatever is published.        *)
LEMMA ViewStays ==
    ASSUME IInv, [Next]_vars, NEW r \in Runners,
           pc'[r] = pc[r], view'[r] = view[r]
    PROVE  ViewOf(r)'
<1>1. /\ Latest \in Nat /\ Latest' \in Nat /\ Latest <= Latest'
      /\ \A n \in 1..Latest : published'[n] = published[n]
  BY PublishedGrows
<1>2. ViewOf(r)
  BY DEF IInv, RunView
<1> QED
  BY <1>1, <1>2 DEF ViewOf, AfterActivate, AfterDefault, AfterDenied, Writing

(* The finder writes the globals in the order in which a run reads them.    *)
LEMMA RunViewKept ==
    ASSUME IInv, [Next]_vars
    PROVE  RunView'
<1>1. CASE UNCHANGED <<pc, info, view, out>>
  BY <1>1, ViewStays DEF RunView
<1>2. ASSUME NEW r \in Runners, RunnerStep(r), UNCHANGED finderVars
      PROVE  RunView'
  <2>1. ASSUME NEW q \in Runners, q # r
        PROVE  ViewOf(q)'
    <3>1. pc'[q] = pc[q] /\ view'[q] = view[q]
      BY <1>2, <2>1, RunnerFrame
    <3> QED
      BY <3>1, ViewStays
  <2>s. SUFFICES ViewOf(r)'
    BY <2>1 DEF RunView
  <2>t. /\ status[r] # "none" => \A g \in Globals : global[g] \in 1..Latest
        /\ global["activate"] <= global["denyns"] + 1
        /\ activated => published[global["activate"]].activate
        /\ Latest \in Nat /\ view \in [Runners -> View] /\ pc \in [Runners -> RunnerPlaces]
    BY SMTT(30) DEF IInv, TypeOK, View, Globals, GlobalsInOrder, ActivatedByConfig,
      SpawnedAfterUpdate, Latest
  <2>f. UNCHANGED <<published, global, activated>> /\ Latest' = Latest
    BY <1>2 DEF finderVars, Latest
  <2>v. ViewOf(r)
    BY DEF IInv, RunView
  <2>2. CASE ReadActivate(r)
    <3>1. CASE MayRun(r)
      <4>1. /\ pc'[r] = "default"
            /\ view'[r]["activate"] = global["activate"]
            /\ activated /\ status[r] # "none"
        BY <2>2, <2>t, <3>1 DEF ReadActivate, MayRun, Polls, GoesTo, View, Globals
      <4> QED
        BY <2>t, <2>f, <4>1 DEF ViewOf, AfterActivate, AfterDefault, AfterDenied, Writing, Globals
    <3>2. CASE ~MayRun(r)
      BY <2>2, <2>t, <3>2 DEF ReadActivate, GoesTo, ViewOf, AfterActivate, AfterDefault, AfterDenied, Writing
    <3> QED
      BY <3>1, <3>2
  <2>3. CASE ReadDefault(r)
    <3>1. /\ pc[r] = "default" /\ pc'[r] = "denyns" /\ status[r] # "none"
          /\ view'[r]["default"] = global["default"]
          /\ view'[r]["activate"] = view[r]["activate"]
      BY <2>3, <2>t DEF ReadDefault, Polls, GoesTo, View, Globals
    <3> QED
      BY <2>t, <2>f, <2>v, <3>1 DEF ViewOf, AfterActivate, AfterDefault, AfterDenied, Writing, Globals
  <2>4. CASE ReadDenied(r)
    <3>1. /\ pc[r] = "denyns" /\ pc'[r] = "resultheader" /\ status[r] # "none"
          /\ view'[r]["denyns"] = global["denyns"]
          /\ view'[r]["activate"] = view[r]["activate"]
          /\ view'[r]["default"] = view[r]["default"]
      BY <2>4, <2>t DEF ReadDenied, Polls, GoesTo, View, Globals
    <3>2. Latest <= global["denyns"] + 1 /\ global["denyns"] \in Nat
      BY DEF IInv, TypeOK, View, Globals, GlobalsInOrder, Latest
    <3> QED
      BY <2>t, <2>f, <2>v, <3>1, <3>2 DEF ViewOf, AfterActivate, AfterDefault, AfterDenied, Writing, Globals
  <2>5. CASE ReadHeader(r)
    <3>1. /\ pc[r] = "resultheader" /\ pc'[r] \in {"target", "cron"} /\ status[r] # "none"
          /\ view'[r]["resultheader"] = global["resultheader"]
          /\ view'[r]["activate"] = view[r]["activate"]
          /\ view'[r]["default"] = view[r]["default"]
          /\ view'[r]["denyns"] = view[r]["denyns"]
      BY <2>5, <2>t DEF ReadHeader, NextOutput, Polls, GoesTo, View, Globals
    <3> QED
      BY <2>t, <2>f, <2>v, <3>1 DEF ViewOf, AfterActivate, AfterDefault, AfterDenied, Writing, Globals
  <2>6. CASE \/ SkipTarget(r) \/ UseTarget(r) \/ Execute(r) \/ FetchOriginal(r)
             \/ FetchOriginalFails(r) \/ SendEdit(r) \/ EditReply(r)
    <3>1. pc[r] \in Writing /\ pc'[r] \in Writing \cup {"cron"} /\ view' = view
      BY <2>6, <2>t DEF SkipTarget, UseTarget, MayWrite, Execute, FetchOriginal,
        FetchOriginalFails, SendEdit, EditReply, GotResult, Compose, NextOutput,
        Wakes, Polls, GoesTo, Writing
    <3> QED
      BY <2>f, <2>v, <3>1 DEF ViewOf, AfterActivate, AfterDefault, AfterDenied, Writing
  <2>7. CASE \/ FetchTask(r) \/ FetchTaskFails(r) \/ Schedule(r) \/ RunnerWakes(r)
             \/ Panics(r) \/ DropAborted(r)
    <3>1. pc'[r] \in {"activate", "asleep", "fetch"}
      BY <2>7, <2>t DEF FetchTask, FetchTaskFails, Schedule, RunnerWakes,
        Panics, TargetPanics, QueryPanics, SchedulePanics, DurationPanics,
        PollPanics, DropAborted, Ends, GoesTo
    <3> QED
      BY <3>1 DEF ViewOf, AfterActivate, AfterDefault, AfterDenied, Writing
  <2> QED
    BY <1>2, <2>2, <2>3, <2>4, <2>5, <2>6, <2>7 DEF RunnerStep, Panics
<1> QED
  BY <1>1, <1>2, RunLocals
-----------------------------------------------------------------------------
(* What a run writes.                                                       *)

LEMMA TargetStays ==
    ASSUME IInv, [Next]_vars, NEW r \in Runners,
           pc[r] \in Writing, view'[r] = view[r], info'[r] = info[r], out'[r] = out[r]
    PROVE  Denied(r)' = Denied(r)
<1>1. view[r]["denyns"] \in 1..Latest
  BY DEF IInv, RunView, ViewOf, AfterDenied
<1>2. DeniedBy(view[r]["denyns"])' = DeniedBy(view[r]["denyns"])
  <2>1. \A n \in 1..Latest : published'[n] = published[n]
    BY PublishedGrows
  <2> QED
    BY <1>1, <2>1 DEF DeniedBy
<1> QED
  BY <1>2 DEF Denied, Target

LEMMA TargetAllowedKept ==
    ASSUME IInv, [Next]_vars
    PROVE  TargetAllowed'
<1> DEFINE Checked == {"query", "original", "edit", "editing"}
<1>1. CASE UNCHANGED <<pc, info, view, out>>
  BY <1>1, TargetStays DEF TargetAllowed, IInv, Writing
<1>2. ASSUME NEW r \in Runners, RunnerStep(r), UNCHANGED finderVars
      PROVE  TargetAllowed'
  <2>1. ASSUME NEW q \in Runners, q # r, pc'[q] \in Checked
        PROVE  ~Denied(q)'
    <3>1. /\ pc'[q] = pc[q] /\ view'[q] = view[q] /\ info'[q] = info[q]
          /\ out'[q] = out[q]
      BY <1>2, <2>1, RunnerFrame
    <3> QED
      BY <2>1, <3>1, TargetStays DEF IInv, TargetAllowed, Writing
  <2>2. ASSUME pc'[r] \in Checked
        PROVE  ~Denied(r)'
    <3>1. \/ UseTarget(r) \/ Execute(r) \/ FetchOriginal(r) \/ SendEdit(r)
      BY <1>2, <2>2 DEF RunnerStep, FetchTask, FetchTaskFails, ReadActivate,
        ReadDefault, ReadDenied, ReadHeader, SkipTarget, TargetPanics,
        QueryPanics, FetchOriginalFails, EditReply, Schedule, SchedulePanics,
        DurationPanics, PollPanics, RunnerWakes, DropAborted, NextOutput, Ends, GoesTo, IInv, TypeOK
    <3>2. /\ pc[r] \in Writing /\ view'[r] = view[r] /\ info'[r] = info[r]
          /\ out'[r] = out[r] /\ ~Denied(r)
      BY <3>1 DEF UseTarget, MayWrite, Execute, FetchOriginal, SendEdit, Wakes, Polls, Writing,
        IInv, TargetAllowed
    <3> QED
      BY <3>2, TargetStays
  <2> QED
    BY <2>1, <2>2 DEF TargetAllowed
<1> QED
  BY <1>1, <1>2, RunLocals

LEMMA EditKept ==
    ASSUME IInv, [Next]_vars
    PROVE  EditUnderRecentConfig'
<1> DEFINE Allowed(e) ==
      /\ e.activate \in 1..Latest /\ published[e.activate].activate
      /\ e.denyns \in 1..Latest /\ e.denyns + 1 >= e.activate
      /\ NsOf[e.target] \notin DeniedBy(e.denyns)
<1>1. ASSUME NEW e, Allowed(e)
      PROVE  Allowed(e)'
  <2>1. /\ Latest \in Nat /\ Latest' \in Nat /\ Latest <= Latest'
        /\ \A n \in 1..Latest : published'[n] = published[n]
    BY PublishedGrows
  <2> QED
    BY <1>1, <2>1 DEF DeniedBy
<1>2. \A e \in inflight : Allowed(e)
  BY DEF IInv, EditUnderRecentConfig
<1>3. CASE inflight' \subseteq inflight
  BY <1>1, <1>2, <1>3 DEF EditUnderRecentConfig
<1>4. ASSUME NEW r \in Runners, SendEdit(r)
      PROVE  EditUnderRecentConfig'
  <2>1. pc[r] = "edit" /\ inflight' = inflight \cup {ThisEdit(r)}
    BY <1>4 DEF SendEdit, Polls
  <2>2. Allowed(ThisEdit(r))
    <3>1. ViewOf(r) /\ ~Denied(r)
      BY <2>1 DEF IInv, RunView, TargetAllowed
    <3> QED
      BY <2>1, <3>1 DEF ViewOf, Denied, ThisEdit, AfterActivate, AfterDefault,
        AfterDenied, Writing
  <2> QED
    BY <1>1, <1>2, <2>1, <2>2 DEF EditUnderRecentConfig
<1>5. ASSUME NEW r \in Runners, RunnerStep(r), ~SendEdit(r)
      PROVE  inflight' \subseteq inflight
  BY <1>5 DEF RunnerStep, FetchTask, FetchTaskFails, ReadActivate, ReadDefault,
    ReadDenied, ReadHeader, SkipTarget, TargetPanics, UseTarget, QueryPanics,
    Execute, FetchOriginal, FetchOriginalFails, EditReply, Schedule,
    SchedulePanics, DurationPanics,
    RunnerWakes, DropAborted
<1>6. CASE UpdateTaskMap \/ \E e \in inflight : HandleEdit(e)
  BY <1>3, <1>6 DEF UpdateTaskMap, HandleEdit
<1> QED
  BY <1>3, <1>4, <1>5, <1>6, StepCases DEF vars

-----------------------------------------------------------------------------
(* The theorems.                                                            *)

LEMMA InitHolds == Init => IInv
<1> SUFFICES ASSUME Init PROVE IInv
  OBVIOUS
<1> USE TaskRoutinesAssumption DEF Init
<1>1. TypeOK
  <2>1. tasks \in [PageIds -> Tasks \cup {Unreadable, Wikitext}] /\ published \in Seq(Configs)
    OBVIOUS
  <2>2. NoView \in View /\ global \in View /\ view \in [Runners -> View]
    BY DEF View, NoView
  <2> QED
    BY <2>1, <2>2 DEF TypeOK, FinderPlaces, RunnerPlaces, Waiting, Writing, Results
<1>2. GlobalsInOrder /\ ActivatedByConfig
  BY DEF GlobalsInOrder, ActivatedByConfig, Latest, NoView, Globals
<1>3. SpawnedAfterUpdate /\ MapHolds /\ NoOrphanRunner /\ LateEdit
  BY DEF SpawnedAfterUpdate, MapHolds, NoOrphanRunner, LateEdit
<1>4. RunData /\ RunView /\ TargetAllowed /\ EditUnderRecentConfig
  BY DEF RunData, RunView, ViewOf, TargetAllowed, EditUnderRecentConfig, Writing,
    AfterDenied, AfterDefault, AfterActivate
<1> QED
  BY <1>1, <1>2, <1>3, <1>4 DEF IInv

LEMMA StepKeeps == IInv /\ [Next]_vars => IInv'
BY TypesKept, GlobalsKept, SpawnedKept, MapKept, LateKept, RunDataKept, RunViewKept,
   TargetAllowedKept, EditKept DEF IInv

(* The invariant behind every safety property of the routines.              *)
THEOREM Invariance == Spec => []IInv
BY InitHolds, StepKeeps, PTL DEF Spec

(* Every state variable keeps its type: in particular no run indexes an     *)
(* output format it does not have.                                          *)
THEOREM TypeCorrect == Spec => []TypeOK
<1>1. IInv => TypeOK
  BY DEF IInv
<1> QED
  BY <1>1, Invariance, PTL

(* No routine that accepts wake-ups is out of reach of the finder.          *)
THEOREM NoOrphans == Spec => []NoOrphanRunner
<1>1. IInv => NoOrphanRunner
  BY DEF IInv
<1> QED
  BY <1>1, Invariance, PTL

(* After its abort a routine sends at most one edit.                        *)
THEOREM AbortStopsEdits == Spec => []OneEditAfterAbort
<1>1. IInv => OneEditAfterAbort
  BY DEF IInv, LateEdit, OneEditAfterAbort
<1> QED
  BY <1>1, Invariance, PTL

(* A run only works with globals that came from a fetched configuration.    *)
THEOREM GlobalsWereFetched == Spec => []NoConstructorDefaults
<1>1. IInv => NoConstructorDefaults
  BY DEF IInv, RunView, ViewOf, NoConstructorDefaults
<1> QED
  BY <1>1, Invariance, PTL

(* The staleness of the configuration an edit goes by is bounded by one     *)
(* publication, for any number of pages, runners and configurations.        *)
THEOREM EditsUnderRecentConfig == Spec => []EditUnderRecentConfig
<1>1. IInv => EditUnderRecentConfig
  BY DEF IInv
<1> QED
  BY <1>1, Invariance, PTL
=============================================================================
