-------------------------- MODULE MCNumaAllocator --------------------------
(***************************************************************************)
(* Two nodes and four tasks: two of the same declared size, one as big as  *)
(* both of them, so that the order in which they are placed matters, and   *)
(* one without a limit whose usage counts.                                 *)
(***************************************************************************)
EXTENDS NumaAllocator

Setting(a, f, m, b, d) ==
  [algorithm |-> a, free_space_check |-> f, migrate_pages |-> m,
   binding |-> b, dryrun |-> d]

MCOptions ==
  {Setting(a, f, TRUE, "none", FALSE) :
     a \in {"fill_biggest_first", "minimize_migration"}, f \in BOOLEAN}
  \cup {Setting("fill_biggest_first", FALSE, FALSE, b, FALSE) : b \in {"bind", "migrate"}}
  \cup {Setting("fill_biggest_first", FALSE, TRUE, "none", TRUE)}

MCTasks == 1..4
MCNumaNodes == 0..1
MCDeclared == <<1, 1, 2, 0>>
MCCgroupLimit == <<100, 100, 100, 100>>
\* In units of memory: tasks 1 and 2 use less than one.
MCMaxUsage == <<0, 0, 1, 2>>
\* round(10 * log10(m))
MCLogClass == <<0, 3, 5, 6, 7, 8, 8, 9, 10, 10>>
=============================================================================
