----------------------------- MODULE MCPageWriter -----------------------------
(* Small instances of PageWriter for TLC.                                   *)
EXTENDS PageWriter

(* Two tasks that share a target; the other target of the second is denied. *)
SharedOutput == [w \in Writers |-> IF w = "w1" THEN <<"t1", "t2">> ELSE <<"t1", "t3">>]

(* One task with one target.                                                *)
OneOutput == [w \in Writers |-> <<"t1">>]
===============================================================================
