--------------------------- MODULE MCTaskRuntime ---------------------------
(* A small instance of TaskRuntime: with three tasks of two priorities a    *)
(* task can wait for a second one while a third is pending around both.     *)
EXTENDS TaskRuntime

CONSTANT q1

MCPayloads == {q1}
MCPriority == <<0, 1, 0>>
TwoEqual == <<0, 0>>
InProcess == {"serial"}
AllProfiles == {"serial", "processes"}
=============================================================================
