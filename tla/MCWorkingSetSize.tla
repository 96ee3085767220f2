------------------------- MODULE MCWorkingSetSize -------------------------
(* Two stable cycles, and reset periods below, at and above them. 101 to   *)
(* 100 is a decrease below 2%; the traffic of 100 bytes allows a growth of *)
(* 9 at ten percent, that of 2000 one of 199.                              *)
EXTENDS WorkingSetSize

MCReferences == {100, 101, 250}
MCTraffics == {-1, 100, 2000}
MCSettings ==
  [reset : {0, 2, 3, 4}, stable : {2}, percent : {10}]
    \cup [reset : {0, 3}, stable : {-2}, percent : {10}]
    \cup [reset : {0}, stable : {1}, percent : {10}]
=============================================================================
