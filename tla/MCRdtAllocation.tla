-------------------------- MODULE MCRdtAllocation --------------------------
(***************************************************************************)
(* A small instance of RdtAllocation: two containers, of which the names   *)
(* are group names too, and one group to share.                            *)
(***************************************************************************)
EXTENDS RdtAllocation

CONSTANT g   \* the group to share

\* A cache mask of 4 bits; a bandwidth in percent.
MCFull == [r \in {"L3", "MB"} |-> IF r = "L3" THEN 15 ELSE 100]

\* The bandwidth is rounded up to a granularity of 10.
MCRounded(r, v) == IF r = "L3" THEN v ELSE ((v + 9) \div 10) * 10

Request(name, l3, mb) ==
  [name |-> name, rows |-> [r \in {"L3", "MB"} |-> IF r = "L3" THEN l3 ELSE mb]]

\* A shared group with either row; a group of the task's own, with a bandwidth
\* off the granularity; the root group with no row.
MCRequests ==
  {Request(g, 1, NoRow), Request(g, NoRow, 20), Request(NoName, NoRow, 15),
   Request(Root, NoRow, NoRow)}

=============================================================================
