---------------------------- MODULE MCTaskRoutines ----------------------------
(* Small instances of TaskRoutines for TLC.                                 *)
EXTENDS TaskRoutines

(* Two targets in different namespaces and one whose title is invalid.      *)
MCNsOf == [main |-> 0, project |-> 4, invalid |-> NoNs]

Off      == [activate |-> FALSE, denyns |-> {}]
On       == [activate |-> TRUE, denyns |-> {}]
OnDenied == [activate |-> TRUE, denyns |-> {4}]
MCConfigs == {Off, On, OnDenied}

Task(cron, expr, eager, output) ==
    [activate |-> TRUE, cron |-> cron, expr |-> expr, eager |-> eager,
     output |-> output]
Good      == Task("valid", "fits", FALSE, <<"project", "main">>)
Short     == Task("valid", "fits", TRUE, <<"project">>)
BadCron   == Task("invalid", "fits", FALSE, <<"main">>)
BadTarget == Task("valid", "fits", TRUE, <<"invalid">>)
(* The first target may be written to, and the parser panics, or it is      *)
(* skipped, and the title of the second panics the runner.                  *)
Broken    == Task("valid", "overflows", TRUE, <<"project", "invalid">>)
Exhausted == Task("exhausted", "fits", TRUE, <<"project">>)
MCTasks == {Good, Short, BadCron, BadTarget, Broken, Exhausted}

(* Safety: the listing gains and loses the page, and what the page holds    *)
(* makes a run skip, write, fail or panic.                                  *)
OneDirs == SUBSET PageIds
OneTaskPages == {Good, Exhausted, BadTarget, Wikitext}
OneSitePages == {Off, OnDenied}

(* Liveness: a directory that always lists a page, tasks that run, wait for *)
(* their schedule to be mended, or panic.                                   *)
LiveDirs == {PageIds}
LiveTaskPages == {Short, BadCron, Broken, Wikitext}
LiveSitePages == {On, Off, Unreadable}

(* The same where the directory may be empty, or the schedule exhausted.    *)
EmptyDirs == SUBSET PageIds
EmptyTaskPages == {Short}
EmptySitePages == {On, Off}
ExhaustedTaskPages == {Short, Exhausted}
ExhaustedSitePages == {On}

(* The torn read: a switch-off and a denied namespace published in turn.    *)
TornTaskPages == {Short}
TornSitePages == {On, OnDenied, Off}
=============================================================================
