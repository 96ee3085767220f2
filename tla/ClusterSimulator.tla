-------------------------- MODULE ClusterSimulator --------------------------
(***************************************************************************)
(* wca/scheduler/cluster_simulator.py: tasks arrive, one algorithm filters *)
(* and prioritizes nodes for each, and the simulator binds.  An iteration  *)
(* is a sequence of steps of one thread: Iterate starts it, CallScheduler  *)
(* treats one task, Reschedule asks for tasks to unbind and UpdateLife     *)
(* ends it.                                                                *)
(***************************************************************************)
EXTENDS SchedulerAlgorithms

CONSTANTS
  Nodes,      \* numbered in the order of their names
  Capacity,   \* Capacity[n]: resources of node n
  Requested,  \* Requested[a]: resources an app asks for
  Score,      \* Score[a]: score of app a
  Duration,   \* Duration[t]: iterations task t lives, or 0 for None
  MaxRough    \* bound on the rough assignments of a simulation

ASSUME SimulatorAssumption ==
  /\ Nodes \subseteq Nat \ {0}
  /\ \A t \in Tasks : Duration[t] \in Nat

None == 0

VARIABLES
  algorithm,   \* the algorithm of this simulation
  retry,       \* retry_scheduling
  rough_allowed, \* allow_rough_assignment
  tasks,       \* names of tasks, in the order they came
  assignment,  \* node of a task, or None
  life_time,   \* age of a task that has a duration
  rough_assignments_per_node,
  todo,        \* tasks this iteration has yet to schedule
  phase        \* next step of the iteration

vars == <<algorithm, retry, rough_allowed, tasks, assignment, life_time,
          rough_assignments_per_node, todo, phase>>

settings == <<algorithm, retry, rough_allowed>>

Arrived == Range(tasks)

On(n) == {t \in Arrived : assignment[t] = n}

-----------------------------------------------------------------------------
get_membw_read_write_ratio(n) ==
  IF "membw_read" \in DOMAIN Capacity[n]
  THEN Over(Capacity[n]["membw_read"], Capacity[n]["membw_write"]) ELSE One

\* Reads and writes of memory are not two separate dimensions.
subtract_aep_aware(x, y, ratio) ==
  [d \in DOMAIN x |->
     CASE d = "membw_read" ->
            Minus(Minus(x[d], y[d]), Times(y["membw_write"], ratio))
       [] d = "membw_write" ->
            Minus(Minus(x[d], y[d]), Over(y["membw_read"], ratio))
       [] OTHER -> Minus(x[d], y[d])]

\* What node n has left for others than the tasks of set ts.
_calculate_unassigned(n, ts) ==
  FoldSet(LAMBDA t, left : subtract_aep_aware(left, Requested[AppOf[t]],
                                              get_membw_read_write_ratio(n)),
          Capacity[n], ts)

\* 0.0001 of a resource may be missing.
Tolerance == <<-1, 10000>>

validate_assignment(n, t) ==
  LET left == _calculate_unassigned(n, On(n) \cup {t})
  IN  \A d \in DOMAIN left : Less(Tolerance, left[d])

\* What the data provider of the simulator says (external).
Types ==
  [n \in Nodes |-> IF calculate_read_write_ratio(Capacity[n]) \in {One, NoRatio}
                   THEN "dram" ELSE "pmem"]

Query ==
  LET apps == {AppOf[t] : t \in Arrived}
  IN  [capacities |-> Capacity,
       assigned |-> [n \in Nodes |-> On(n)],
       spec |-> [a \in apps |-> Requested[a]],
       profile |-> [a \in apps |-> Score[a]],
       types |-> Types, cached |-> Types,
       pmem |-> {}, violated |-> {}]

\* max() of the priorities of the nodes that did not fail: the first one wins.
best_node(answer, app) ==
  LET left == Nodes \ answer.FailedNodes
      priority == prioritize(algorithm, Query, left, app)
  IN  IF left = {} THEN None
      ELSE CHOOSE n \in left :
             \A m \in left : \/ priority[n] > priority[m]
                             \/ priority[n] = priority[m] /\ n <= m

-----------------------------------------------------------------------------
Init ==
  /\ algorithm \in Algorithms
  /\ retry \in BOOLEAN
  /\ rough_allowed \in BOOLEAN
  /\ tasks = <<>>
  /\ assignment = [t \in Tasks |-> None]
  /\ life_time = [t \in Tasks |-> 0]
  /\ rough_assignments_per_node = [n \in Nodes |-> 0]
  /\ todo = <<>>
  /\ phase = "idle"

\* Mutant: only the first of the new tasks is kept.
with_first(new) == IF new = <<>> THEN tasks ELSE Append(tasks, new[1])

with_new(new) == tasks \o new

\* iterate: new is the sequence of new tasks, of which those in named have
\* node_name: they are bound without the scheduler.
Iterate(new, named, node) ==
  /\ phase = "idle"
  /\ tasks' = with_new(new)
  /\ assignment' = [t \in Tasks |-> IF t \in named THEN node ELSE assignment[t]]
  /\ LET fresh == SelectSeq(new, LAMBDA t : t \notin named)
         waiting == SelectSeq(tasks', LAMBDA t : assignment'[t] = None)
     IN  /\ todo' = IF fresh = <<>> /\ retry THEN waiting ELSE fresh
         /\ phase' = CASE todo' # <<>> -> "schedule"
                       [] todo' = <<>> /\ new = <<>> -> "reschedule"
                       [] OTHER -> "age"
  /\ UNCHANGED <<settings, life_time, rough_assignments_per_node>>

\* perform_assignment(task, node).
perform_assignment(t, n) ==
  LET fits == validate_assignment(n, t)
  IN  IF fits \/ rough_allowed
      THEN /\ assignment' = [assignment EXCEPT ![t] = n]
           /\ rough_assignments_per_node' =
                [rough_assignments_per_node EXCEPT ![n] = IF fits THEN @ ELSE @ + 1]
      ELSE UNCHANGED <<assignment, rough_assignments_per_node>>

\* Nodes that the first pass of filter accepts.
Accepted(t) == {n \in Nodes : app_fit_node(algorithm, Query, n, AppOf[t])}

FilterRaises(t) == algorithm = "HierBAR" /\ hierbar_raises(Query, Accepted(t))

Schedule(t) ==
  /\ \E answer \in filter(algorithm, Query, Nodes, AppOf[t]) :
       LET node == best_node(answer, AppOf[t])
       IN  IF node = None THEN UNCHANGED <<assignment, rough_assignments_per_node>>
           ELSE perform_assignment(t, node)
  /\ todo' = Tail(todo)
  /\ phase' = IF Tail(todo) = <<>> THEN "age" ELSE "schedule"

\* call_scheduler(task) and the binding of the task; an exception ends the
\* simulation.
CallScheduler ==
  /\ phase = "schedule"
  /\ IF FilterRaises(Head(todo))
     THEN phase' = "failed" /\ UNCHANGED <<assignment, rough_assignments_per_node, todo>>
     ELSE Schedule(Head(todo))
  /\ UNCHANGED <<settings, tasks, life_time>>

Reschedule ==
  /\ phase = "reschedule"
  /\ LET removed == Range(reschedule(algorithm, Query))
     IN  assignment' = [t \in Tasks |-> IF t \in removed THEN None ELSE assignment[t]]
  /\ phase' = "age"
  /\ UNCHANGED <<settings, tasks, life_time, rough_assignments_per_node, todo>>

Ends(t) == Duration[t] # 0 /\ life_time[t] + 1 > Duration[t]

\* update_tasks_life.  The age of a task without a duration is not kept, and
\* that of one that is too old need not grow.
UpdateLife ==
  /\ phase = "age"
  /\ life_time' = [t \in Tasks |->
       IF assignment[t] # None /\ Duration[t] # 0 /\ life_time[t] <= Duration[t]
       THEN life_time[t] + 1 ELSE life_time[t]]
  /\ assignment' = [t \in Tasks |->
       IF assignment[t] # None /\ Ends(t) THEN None ELSE assignment[t]]
  /\ phase' = "idle"
  /\ UNCHANGED <<settings, tasks, rough_assignments_per_node, todo>>

\* Task names are unique, a task comes once.  Names are numbered as they come;
\* not every one need come.
Comes(new, n) ==
  {s \in [1..n -> new] : n < 2 \/ s[1] < s[2]}

Next ==
  \/ /\ \A n \in Nodes : rough_assignments_per_node[n] <= MaxRough
     /\ \E n \in 0..2 :
          \E new \in Comes({t \in Tasks : \A s \in Arrived : s < t}, n) :
          \/ Iterate(new, {}, None)
          \/ n = 1 /\ \E node \in Nodes : Iterate(new, {new[1]}, node)
  \/ CallScheduler
  \/ Reschedule
  \/ UpdateLife

Spec == Init /\ [][Next]_vars

-----------------------------------------------------------------------------
(***************************************************************************)
(* Properties.                                                             *)
(***************************************************************************)

\* Every variable has a value of its type.
TypeOK ==
  /\ algorithm \in Algorithms
  /\ {retry, rough_allowed} \subseteq BOOLEAN
  /\ tasks \in Seq(Tasks) /\ IsInjective(tasks)
  /\ todo \in Seq(Arrived)
  /\ assignment \in [Tasks -> Nodes \cup {None}]
  /\ life_time \in [Tasks -> Nat]
  /\ rough_assignments_per_node \in [Nodes -> Nat]
  /\ phase \in {"idle", "schedule", "reschedule", "age", "failed"}

\* Algorithms that check what a node has free.
Fitting == Algorithms \ {"NOP", "DramHitRatioProvision", "StaticAssigner"}

\* An algorithm that checks free resources, in all dimensions of the simulator,
\* never has a task bound to a node it does not fit: the two ways the code
\* computes what is left (a sum that is then subtracted, app_fits; subtractions
\* one by one, validate_assignment) agree.
NoRoughAssignment ==
  algorithm \in Fitting =>
    \A n \in Nodes : rough_assignments_per_node[n] = 0

\* Whatever filter drops in its second pass, a task that some node has room for
\* is bound: call_scheduler leaves a task unassigned only if no node fits it.  It
\* holds as long as merging keeps all classes: see hierbar_raises.
RoomIsUsed ==
  [][\A t \in Tasks :
       (/\ phase = "schedule" /\ t = Head(todo)
        /\ algorithm \in Fitting
        /\ \E n \in Nodes : validate_assignment(n, t))
       => assignment'[t] # None]_vars

=============================================================================
