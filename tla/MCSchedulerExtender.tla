------------------------ MODULE MCSchedulerExtender ------------------------
(***************************************************************************)
(* A dram node with room for two pods and two pmem nodes with room for     *)
(* one, the last of which joins late; two pods of an app that belongs on   *)
(* pmem, one of them of another namespace.  Score tells types apart once   *)
(* it knows the scores of three apps.                                      *)
(***************************************************************************)
EXTENDS SchedulerExtender

Vector(c, m) == [d \in {"cpu", "mem"} |-> Whole(IF d = "cpu" THEN c ELSE m)]

MCDimensions == {"cpu", "mem"}
MCTasks == 1..2
MCAppOf == <<1, 1>>
MCNodes == 1..3
MCNodeType == <<"dram", "pmem", "pmem">>
MCCapacity == <<Vector(2, 4), Vector(1, 4), Vector(1, 4)>>
MCRequested == <<Vector(1, 2), Vector(1, 1), Vector(1, 1)>>
MCScore == <<1, 2, 3>>
MCOne == One
MCBarWeights == [d \in MCDimensions |-> One]
MCTargeted == [n \in {} |-> 0]
MCMergeThreshold == Zero
=============================================================================
