------------------------- MODULE MCClusterSimulator -------------------------
(***************************************************************************)
(* Two nodes that read and write memory alike, one whose writes are        *)
(* slower; three apps, of which one has two tasks and one ends.            *)
(***************************************************************************)
EXTENDS ClusterSimulator

Vector(c, m, r, w) ==
  [d \in {"cpu", "mem", "membw_read", "membw_write"} |->
     Whole(CASE d = "cpu" -> c [] d = "mem" -> m
             [] d = "membw_read" -> r [] OTHER -> w)]

MCDimensions == {"cpu", "mem", "membw_read", "membw_write"}
MCTasks == 1..5
MCAppOf == <<1, 2, 3, 1, 2>>
MCNodes == 1..3
MCCapacity == <<Vector(4, 4, 4, 4), Vector(3, 6, 8, 4), Vector(3, 3, 5, 5)>>
MCRequested == <<Vector(1, 3, 2, 1), Vector(2, 2, 2, 2), Vector(1, 1, 0, 1)>>
MCScore == <<3, 1, 2>>
MCDuration == <<0, 0, 2, 0, 0>>
MCBarWeights == [d \in MCDimensions \cup {"membw_flat"} |-> One]
MCLeastUsedWeights == [d \in {"cpu", "mem", "membw_flat"} |-> One]
MCMaxNodeScore == Whole(10)
MCTargeted == [n \in 1..2 |-> [a \in {n} |-> 1]]
MCMergeThreshold == One
MCCpuScale == One
MCLeastUsedWeight == One
=============================================================================
