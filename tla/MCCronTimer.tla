----------------------------- MODULE MCCronTimer -----------------------------
(* Two schedules that go on beyond the bound on time, one that ends, and    *)
(* one that cannot be parsed.                                               *)
EXTENDS CronTimer

MCOccurrences ==
  [c \in {"often", "seldom", "over"} |->
     CASE c = "often" -> {2, 4, 6, 8} [] c = "seldom" -> {3, 7} [] c = "over" -> {1}]

MCTasks ==
  {[activate |-> TRUE, cron |-> c] : c \in {"often", "seldom", "over", "unparsable"}}
  \cup {[activate |-> FALSE, cron |-> "often"]}
=============================================================================
