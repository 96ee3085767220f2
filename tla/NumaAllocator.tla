--------------------------- MODULE NumaAllocator ---------------------------
(***************************************************************************)
(* wca/extra/numa_allocator.py: in each iteration at most one task is      *)
(* pinned to the cpus of a NUMA node, and pages of pinned tasks are moved  *)
(* to their node.  Memory is counted in units; a unit is as many pages.    *)
(*                                                                         *)
(* External: tasks come, use memory and leave; the kernel moves pages as   *)
(* far as the target node has free memory.                                 *)
(***************************************************************************)
EXTENDS Integers, FiniteSets, FiniteSetsExt, Functions

CONSTANTS
  Tasks,       \* tasks, numbered in the order the node lists them
  NumaNodes,   \* 0 .. numa_nodes - 1
  NodeSize,    \* memory of a node
  Declared,    \* Declared[t]: resources['mem'] of task t, or 0 if it has none
  CgroupLimit, \* CgroupLimit[t]: limit of the cgroup, unlimited if > total
  MaxUsage,    \* MaxUsage[t]: what task t uses at most
  LogClass,    \* LogClass[m]: 10 * log10(m), rounded
  Options,     \* settings of the allocator that are looked at
  MinBalance,  \* loop_min_task_balance, in ten thousandths
  MigrateBalance \* migrate_pages_min_task_balance, in ten thousandths

ASSUME NumaAssumption ==
  /\ Tasks \subseteq Nat /\ NumaNodes \subseteq Nat /\ NumaNodes # {}
  /\ IsFiniteSet(Tasks)
  /\ NodeSize \in Nat \ {0}
  /\ Options \subseteq [algorithm : {"fill_biggest_first", "minimize_migration"},
                         free_space_check : BOOLEAN, migrate_pages : BOOLEAN,
                         binding : {"none", "bind", "migrate"}, dryrun : BOOLEAN]
  /\ {MinBalance, MigrateBalance} \subseteq 0..10000

NotPinned == -1

VARIABLES
  options,  \* the settings; binding stands for cgroups_memory_binding, _migrate
  tasks,    \* tasks that run
  pages,    \* pages[t][n]: memory of task t on node n
  pinned,   \* node whose cpus the cpuset of a task has, or NotPinned
  mems,     \* cpuset.mems of a task
  data,     \* what was measured for this iteration, or NoData
  _pages_to_move, \* tasks that have a counter of pages to move
  left      \* history: some task has left

vars == <<options, tasks, pages, pinned, mems, data, _pages_to_move, left>>

NoData == <<>>

Sum(f) == SumFunction(f)

\* Units of memory that tasks use of node n if their pages are p.
Used(p, n) == UNION {{t} \X (1..p[t][n]) : t \in tasks}

free == [n \in NumaNodes |-> NodeSize - Cardinality(Used(pages, n))]

-----------------------------------------------------------------------------
_get_platform_total_memory == NodeSize * Cardinality(NumaNodes)

\* The first limit that the platform's memory does not exceed; a task that uses
\* no memory and has no limit is a ghost.
_get_task_memory_limit(t) ==
  CASE Declared[t] # 0 -> Declared[t]
    [] Declared[t] = 0 /\ CgroupLimit[t] <= _get_platform_total_memory -> CgroupLimit[t]
    [] OTHER -> Sum(pages[t])

\* round(a / b, 4), in ten thousandths, half to even.
Rounded(a, b) ==
  LET q == (10000 * a) \div b  r == (10000 * a) % b
  IN  IF 2 * r > b \/ (2 * r = b /\ q % 2 = 1) THEN q + 1 ELSE q

_get_numa_node_preferences(t) ==
  [n \in NumaNodes |-> Rounded(pages[t][n], Max({1, Sum(pages[t])}))]

\* balanced_memory: limits of the tasks pinned to a node, summed.
_build_balanced_memory ==
  [n \in NumaNodes |->
     Sum([t \in {u \in tasks : pinned[u] = n} |-> _get_task_memory_limit(t)])]

\* Where a stable sort puts the first of the nodes with the greatest score.
Greatest(score) ==
  CHOOSE n \in DOMAIN score : \A m \in DOMAIN score :
    score[n] > score[m] \/ (score[n] = score[m] /\ n <= m)

AllGreatest(score) ==
  {n \in DOMAIN score : \A m \in DOMAIN score : score[n] >= score[m]}

\* round(log1p(p * 1000)) grows by one at each of these preferences.
LogSteps == {7, 35, 112, 322, 891, 2437, 6642}

_get_most_used_nodes(preferences) ==
  AllGreatest([n \in NumaNodes |->
                 Cardinality({s \in LogSteps : s <= preferences[n]})])

_get_best_memory_node(limit) ==
  Greatest([n \in NumaNodes |-> Rounded(limit, data.balanced[n] + limit)])

_get_best_memory_nodes(limit) ==
  AllGreatest([n \in NumaNodes |-> -LogClass[data.balanced[n] + limit]])

\* Nodes the task cannot fit into are not considered.
_get_most_free_memory_nodes(limit) ==
  AllGreatest([n \in {m \in NumaNodes : limit < data.free[m]} |->
                 LogClass[data.free[n] - limit]])

-----------------------------------------------------------------------------
\* list(nodes)[0] is the least of a set of small integers.
migration_minimizer_core(used, best, most_free) ==
  CASE used \cap best # {} -> Min(used \cap best)
    [] used \cap best = {} /\ used \cap most_free # {} -> Min(used \cap most_free)
    [] used \cap (best \cup most_free) = {} /\ best \cap most_free # {} ->
         Min(best \cap most_free)
    [] OTHER -> NotPinned

migration_minimizer(t) ==
  LET preferences == data.preferences[t]
  IN  IF preferences[Greatest(preferences)] < MinBalance THEN NotPinned
      ELSE migration_minimizer_core(_get_most_used_nodes(preferences),
                                    _get_best_memory_nodes(data.limit[t]),
                                    _get_most_free_memory_nodes(data.limit[t]))

fill_biggest_first(t) == _get_best_memory_node(data.limit[t])

_is_enough_memory_on_target(t, n) ==
  data.limit[t] - data.pages[t][n] < data.free[n]

\* Node task t is to be pinned to, or NotPinned.
Target(t) ==
  LET n == IF options.algorithm = "minimize_migration"
           THEN migration_minimizer(t) ELSE fill_biggest_first(t)
  IN  IF /\ n \in NumaNodes
         /\ options.free_space_check => _is_enough_memory_on_target(t, n)
      THEN n ELSE NotPinned

_is_ghost_task(t) == data.limit[t] = 0

\* Mutant: from the smallest to the biggest.
_smallest_first(s, t) ==
  \/ data.limit[s] < data.limit[t]
  \/ data.limit[s] = data.limit[t] /\ s < t

\* Tasks are looked at from the biggest to the smallest.
_build_tasks_memory(s, t) ==
  \/ data.limit[s] > data.limit[t]
  \/ data.limit[s] = data.limit[t] /\ s < t

\* Mutant: break instead of continue.
Considered_until ==
  {t \in DOMAIN data.limit : \A s \in DOMAIN data.limit :
     s = t \/ _build_tasks_memory(s, t) => data.pinned[s] = NotPinned /\ ~_is_ghost_task(s)}

\* Mutant: tasks that are pinned are looked at again.
Considered_pinned == {t \in DOMAIN data.limit : ~_is_ghost_task(t)}

\* Tasks that were pinned, and ghosts, are skipped.
Considered == {t \in DOMAIN data.limit : data.pinned[t] = NotPinned /\ ~_is_ghost_task(t)}

\* Re-balancing analysis: the first task that there is a node for.
balance_task(node) ==
  {t \in DOMAIN node :
     /\ ~options.dryrun
     /\ node[t] # NotPinned
     /\ \A s \in DOMAIN node : _build_tasks_memory(s, t) => node[s] = NotPinned}

\* The least used node is the one with the most free memory.
_get_least_used_node == Greatest(data.free)

\* Tasks whose pages are moved to the node they are pinned to.
_remigrate_pages_of_unbalanced_tasks ==
  {t \in DOMAIN data.limit :
     /\ options.migrate_pages /\ ~options.dryrun
     /\ data.pinned[t] # NotPinned
     /\ data.preferences[t][data.pinned[t]] < MigrateBalance
     /\ data.pinned[t] = _get_least_used_node}

\* Pages of task t, some of them moved from other nodes to node n.
Gathered(t, n) ==
  {q \in [NumaNodes -> 0..Sum(pages[t])] :
     /\ Sum(q) = Sum(pages[t])
     /\ q[n] >= pages[t][n]
     /\ \A m \in NumaNodes \ {n} : q[m] <= pages[t][m]}

\* Mutant: pages are moved whether or not there is room.
Room_regardless(p) == TRUE

Room(p) == \A n \in NumaNodes : Cardinality(Used(p, n)) <= NodeSize

\* The kernel moves pages of each task t of DOMAIN to to node to[t], as many as
\* it can (external).
Moved(to) ==
  {p \in {[t \in Tasks |-> IF t \in DOMAIN to THEN q[t] ELSE pages[t]] :
             q \in {r \in [DOMAIN to -> UNION {Gathered(t, to[t]) : t \in DOMAIN to}] :
                      \A t \in DOMAIN to : r[t] \in Gathered(t, to[t])}} : Room(p)}

-----------------------------------------------------------------------------
Init ==
  /\ options \in Options
  /\ tasks = Tasks
  /\ pages = [t \in Tasks |-> [n \in NumaNodes |-> 0]]
  /\ pinned = [t \in Tasks |-> NotPinned]
  /\ mems = [t \in Tasks |-> NumaNodes]
  /\ data = NoData
  /\ _pages_to_move = {}
  /\ left = FALSE

\* The runner measures tasks and the platform, then calls the allocator.
Measure ==
  /\ data = NoData
  /\ UNCHANGED <<options, tasks, pages, pinned, mems, _pages_to_move, left>>
  /\ data' = [limit |-> [t \in tasks |-> _get_task_memory_limit(t)],
              preferences |-> [t \in tasks |-> _get_numa_node_preferences(t)],
              balanced |-> _build_balanced_memory,
              pages |-> [t \in tasks |-> pages[t]],
              pinned |-> [t \in tasks |-> pinned[t]],
              free |-> free]

\* setdefault for the tasks there are, then _update_pages_to_move.
_update_pages_to_move ==
  (_pages_to_move \cup DOMAIN data.limit) \cap DOMAIN data.limit

\* Task t of set pin gets the cpus of node to[t], and its memory if it is bound.
\* With cgroups_memory_migrate no task is pinned: see NoSuchType.
_allocate_task(pin, to) ==
  /\ pinned' = [t \in Tasks |-> IF t \in pin THEN to[t] ELSE pinned[t]]
  /\ mems' = [t \in Tasks |-> IF t \in pin /\ options.binding # "none"
                              THEN {to[t]} ELSE mems[t]]

\* Tasks of set pin whose pages are counted and moved at once.
_get_pages_to_move(pin) == {t \in pin : options.migrate_pages}

\* AllocationType.MIGRATE_PAGES: the node pages of a task are to be moved to.
MigratePages(pin, again, to) ==
  [t \in _get_pages_to_move(pin) \cup again |->
     IF t \in pin THEN to[t] ELSE data.pinned[t]]

\* What the agent and the kernel do with the allocations of tasks that still run.
Applied ==
  \E to \in {[t \in Considered |-> Target(t)]} :
  \E pin \in {balance_task(to) \cap tasks} :
  \E again \in {_remigrate_pages_of_unbalanced_tasks \cap tasks} :
    /\ _allocate_task(pin, to)
    /\ pages' \in Moved(MigratePages(pin, again, to))

\* With cgroups_memory_migrate _allocate_task names AllocationType.CPUSET_MEM_MIGRATE,
\* which there is not: an AttributeError that nothing catches.
NoSuchType ==
  /\ options.binding = "migrate"
  /\ balance_task([t \in Considered |-> Target(t)]) # {}

allocate ==
  /\ data # NoData /\ ~NoSuchType
  /\ data' = NoData
  /\ _pages_to_move' = IF options.dryrun THEN _pages_to_move ELSE _update_pages_to_move
  /\ UNCHANGED <<options, tasks, left>>
  /\ Applied

\* The agent dies; it is started again with another NUMAAllocator.
Die ==
  /\ data # NoData /\ NoSuchType
  /\ data' = NoData
  /\ _pages_to_move' = {}
  /\ UNCHANGED <<options, tasks, pages, pinned, mems, left>>

\* Task t uses more memory of node n (external).
Touch(t, n) ==
  /\ t \in tasks /\ Sum(pages[t]) < MaxUsage[t]
  /\ n \in mems[t] /\ free[n] > 0
  /\ pages' = [pages EXCEPT ![t][n] = @ + 1]
  /\ UNCHANGED <<options, tasks, pinned, mems, data, _pages_to_move, left>>

\* Task t ends (external).
Leave(t) ==
  /\ t \in tasks
  /\ tasks' = tasks \ {t}
  /\ pages' = [pages EXCEPT ![t] = [n \in NumaNodes |-> 0]]
  /\ pinned' = [pinned EXCEPT ![t] = NotPinned]
  /\ mems' = [mems EXCEPT ![t] = NumaNodes]
  /\ left' = TRUE
  /\ UNCHANGED <<options, data, _pages_to_move>>

Next ==
  \/ Measure
  \/ allocate
  \/ Die
  \/ \E t \in Tasks : Leave(t) \/ \E n \in NumaNodes : Touch(t, n)

\* The agent calls the allocator in every iteration, and is started again.
Spec == Init /\ [][Next]_vars /\ WF_vars(Measure) /\ WF_vars(allocate \/ Die)

-----------------------------------------------------------------------------
(***************************************************************************)
(* Properties.                                                             *)
(***************************************************************************)

\* Every variable has a value of its type, and no node holds more than it can.
TypeOK ==
  /\ tasks \subseteq Tasks /\ _pages_to_move \subseteq Tasks
  /\ pinned \in [Tasks -> NumaNodes \cup {NotPinned}]
  /\ mems \in [Tasks -> SUBSET NumaNodes]
  /\ \A n \in NumaNodes : free[n] \in 0..NodeSize

\* fill_biggest_first keeps nodes balanced, since it starts with the biggest tasks:
\* as long as no task has left and no choice is refused, the node with the most
\* memory pinned to it would be no fuller than any other without the least of its
\* tasks.
Balanced ==
  options.algorithm = "fill_biggest_first" /\ ~options.free_space_check /\ ~left
  /\ (\A t \in tasks : pinned[t] # NotPinned => Declared[t] # 0)
  => LET balanced == _build_balanced_memory
     IN  \A t \in tasks : pinned[t] # NotPinned =>
           \A n \in NumaNodes :
             balanced[pinned[t]] - _get_task_memory_limit(t) <= balanced[n]

\* A task that is pinned stays on its node as long as it runs, and from then on
\* its pages are moved to that node only, never away from it.
StaysAndGathers ==
  [][\A t \in tasks \cap tasks' : pinned[t] # NotPinned =>
       /\ pinned'[t] = pinned[t]
       /\ pages'[t][pinned[t]] >= pages[t][pinned[t]]]_vars

\* With fill_biggest_first, without free_space_check and without
\* cgroups_memory_migrate, there comes a time from which on every task that has a
\* memory limit and runs is pinned.
EventuallyPinned ==
  /\ options.algorithm = "fill_biggest_first" /\ options.binding # "migrate"
  /\ ~options.free_space_check /\ ~options.dryrun
  => <>[](\A t \in tasks : Declared[t] # 0 => pinned[t] # NotPinned)

=============================================================================
