---------------------------- MODULE MCCgroupTree ----------------------------
(* Two capsules in a first host process, one in its successor. *)
EXTENDS CgroupTree

MCProc == {"first", "second"}
MCHost == [c \in {1, 2, 3} |-> IF c = 3 THEN "second" ELSE "first"]
MCWant == <<{"memory"}, {}, {"pids"}>>
MCRequired == <<FALSE, TRUE, FALSE>>
=============================================================================
