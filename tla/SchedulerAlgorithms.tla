------------------------ MODULE SchedulerAlgorithms ------------------------
(***************************************************************************)
(* The scheduling algorithms of wca/scheduler/algorithms: what filter,     *)
(* prioritize and reschedule answer, given what the data provider said.    *)
(*                                                                         *)
(* q is what was read from the data provider: q.capacities[n],             *)
(* q.assigned[n] (tasks on node n), q.spec[a] (resources app a requests),  *)
(* q.pmem (nodes with scaled cpu), q.types and q.cached (types of nodes,   *)
(* read now and at start), q.profile[a] (score of app a), q.violated       *)
(* (nodes whose dram hit ratio is below the threshold).  A vector of       *)
(* resources is a function from dimensions to fractions.                   *)
(***************************************************************************)
EXTENDS Fractions, FiniteSets, Sequences, SequencesExt

CONSTANTS
  Tasks,            \* task names, numbered in their order
  AppOf,            \* AppOf[t]: app of task t, numbered in their order
  Dimensions,       \* dimensions of the algorithm
  MaxNodeScore,     \* max_node_score
  BarWeights,       \* bar_weights, by dimension
  LeastUsedWeights, \* least_used_weights, by dimension
  LeastUsedWeight,  \* weight of the least-used score in LeastUsedBAR
  MergeThreshold,   \* merge_threshold of HierBAR, or Zero for None
  CpuScaleFactor,   \* cpu_scale_factor of Fit
  ScoreTarget,      \* score_target of Score, or 0 for None
  StrictPlacement,  \* strict_mode_placement of Score
  Targeted          \* targeted_assigned_apps_counts of StaticAssigner

ASSUME AlgorithmAssumption ==
  /\ Tasks \subseteq Nat
  /\ \A t \in Tasks : AppOf[t] \in Nat
  /\ Dimensions # {}
  /\ "membw_read" \in Dimensions <=> "membw_write" \in Dimensions
  /\ StrictPlacement \in BOOLEAN

NoRatio == Zero

-----------------------------------------------------------------------------
(***************************************************************************)
(* base.py: vectors of resources.                                          *)
(***************************************************************************)

used_resources_on_node(dims, tasks, spec) ==
  [d \in dims |-> Total([t \in tasks |-> spec[AppOf[t]][d]])]

sum_resources(a, b) == [d \in DOMAIN a |-> Plus(a[d], b[d])]

calculate_read_write_ratio(capacity) ==
  IF "membw_read" \in DOMAIN capacity
    THEN Over(capacity["membw_read"], capacity["membw_write"])
    ELSE NoRatio

\* What resources b take of dimension d: with a ratio, reads use up writes and
\* writes use up reads.
Taken(b, d, ratio) ==
  CASE d = "membw_read" /\ ratio # NoRatio ->
         Plus(b[d], Times(b["membw_write"], ratio))
    [] d = "membw_write" /\ ratio # NoRatio ->
         Plus(b[d], Over(b["membw_read"], ratio))
    [] OTHER -> b[d]

subtract_resources(a, b, ratio) ==
  [d \in DOMAIN a |-> Minus(a[d], Taken(b, d, ratio))]

flat_membw_read_write(a, ratio) ==
  IF "membw_read" \in DOMAIN a
    THEN [d \in (DOMAIN a \ {"membw_read", "membw_write"}) \cup {"membw_flat"} |->
            IF d = "membw_flat"
              THEN Plus(a["membw_read"], Times(ratio, a["membw_write"]))
              ELSE a[d]]
    ELSE a

divide_resources(a, b, ratio) ==
  LET Flat(v) == IF ratio # NoRatio THEN flat_membw_read_write(v, ratio) ELSE v
  IN  [d \in DOMAIN Flat(a) |-> Over(Flat(a)[d], Flat(b)[d])]

enough_resources_on_node(capacity, used, ratio) ==
  LET free == subtract_resources(capacity, used, ratio)
  IN  \A d \in DOMAIN free : ~Less(free[d], Zero)

\* What the node would have to give if the app came.
requested_and_used(q, n, app) ==
  sum_resources(q.spec[app],
                used_resources_on_node(Dimensions, q.assigned[n], q.spec))

get_requested_fraction(q, n, app) ==
  divide_resources(requested_and_used(q, n, app), q.capacities[n],
                   calculate_read_write_ratio(q.capacities[n]))

\* KeyError, DataMissingException: something about the node, the app or an app
\* that is on the node was not read.
DataMissing(q, n, app) ==
  \/ n \notin DOMAIN q.capacities \cap DOMAIN q.assigned
  \/ app \notin DOMAIN q.spec
  \/ \E t \in q.assigned[n] : AppOf[t] \notin DOMAIN q.spec

-----------------------------------------------------------------------------
(***************************************************************************)
(* fit.py, dram_hit_ratio_provision.py, static_assigner.py.                *)
(***************************************************************************)

\* Mutant: the app itself is not counted.
app_fits_now(q, n, app, capacity) ==
  enough_resources_on_node(
    capacity, used_resources_on_node(Dimensions, q.assigned[n], q.spec),
    calculate_read_write_ratio(capacity))

\* Mutant: the app is counted twice.
app_fits_twice(q, n, app, capacity) ==
  enough_resources_on_node(
    capacity, sum_resources(q.spec[app], requested_and_used(q, n, app)),
    calculate_read_write_ratio(capacity))

app_fits(q, n, app, capacity) ==
  enough_resources_on_node(capacity, requested_and_used(q, n, app),
                           calculate_read_write_ratio(capacity))

fit_app_fit_node(q, n, app) ==
  app_fits(q, n, app,
           IF n \in q.pmem
             THEN [q.capacities[n] EXCEPT !["cpu"] = Times(@, CpuScaleFactor)]
             ELSE q.capacities[n])

dram_app_fit_node(q, n, app) == n \notin q.violated

CountOn(q, n, app) == Cardinality({t \in q.assigned[n] : AppOf[t] = app})

static_app_fit_node(q, n, app) ==
  /\ n \in DOMAIN Targeted
  /\ app \in DOMAIN Targeted[n]
  /\ CountOn(q, n, app) < Targeted[n][app]

score_app_fit_node(q, n, app) ==
  /\ fit_app_fit_node(q, n, app)
  /\ q.cached[n] = "pmem" => dram_app_fit_node(q, n, app)

-----------------------------------------------------------------------------
(***************************************************************************)
(* bar.py, least_used.py, least_used_bar.py.                               *)
(***************************************************************************)
Mean(fraction) == Over(Total(fraction), Whole(Cardinality(DOMAIN fraction)))

calculate_variance(fraction) ==
  LET Deviation(d) == Minus(fraction[d], Mean(fraction))
      size == Cardinality(DOMAIN fraction)
  IN  CASE size > 2 ->
             Over(Total([d \in DOMAIN fraction |->
                           Times(Times(Deviation(d), Deviation(d)),
                                 BarWeights[d])]),
                  Whole(size))
        [] size = 2 ->
             LET d == CHOOSE d \in DOMAIN fraction : TRUE
                 e == CHOOSE e \in DOMAIN fraction : e # d
             IN  Abs(Minus(fraction[d], fraction[e]))
        [] OTHER -> Zero

calculate_least_used_score(fraction) ==
  Over(Total([d \in DOMAIN fraction |->
                Times(Minus(One, fraction[d]), LeastUsedWeights[d])]),
       Total(LeastUsedWeights))

bar_priority(q, n, app) ==
  Minus(One, calculate_variance(get_requested_fraction(q, n, app)))

least_used_priority(q, n, app) ==
  calculate_least_used_score(get_requested_fraction(q, n, app))

least_used_bar_priority(q, n, app) ==
  Plus(Times(least_used_priority(q, n, app), LeastUsedWeight),
       bar_priority(q, n, app))

-----------------------------------------------------------------------------
(***************************************************************************)
(* hierbar.py: nodes are put into classes by the shape of their capacity,  *)
(* and a node is accepted if it is in the best class that has one.         *)
(***************************************************************************)
_calc_average_resources(q, nodes) ==
  [d \in Dimensions |-> Over(Total([n \in nodes |-> q.capacities[n][d]]),
                             Whole(Cardinality(nodes)))]

_resources_to_shape(resources) ==
  [d \in DOMAIN resources |-> Truncated(resources[d])]

\* {nodes of one shape}: shapes_to_nodes without its keys.
reverse_node_shapes(q) ==
  {{m \in DOMAIN q.capacities :
      _resources_to_shape(q.capacities[m]) = _resources_to_shape(q.capacities[n])} :
     n \in DOMAIN q.capacities}

\* Classes on either side of the threshold are merged.  A dictionary has one
\* entry per shape: merged classes of equal shape, and the second one wins.
_merge_shapes(q, classes) ==
  LET Ratio(class) ==
        calculate_read_write_ratio(
          [d \in Dimensions |->
             Whole(Truncated(q.capacities[CHOOSE n \in class : TRUE][d]))])
      mergable == {class \in classes : Ratio(class) # NoRatio}
      above == UNION {class \in mergable : Less(MergeThreshold, Ratio(class))}
      below == UNION {class \in mergable : ~Less(MergeThreshold, Ratio(class))}
      Shape(nodes) == _resources_to_shape(_calc_average_resources(q, nodes))
  IN  IF Cardinality(classes) < 2 THEN classes
      ELSE {nodes \in {above, below} :
              /\ nodes # {}
              /\ nodes = below \/ below = {} \/ Shape(above) # Shape(below)}

\* Squared: statistics.stdev orders classes in the same way.
calculate_class_variance(q, class, app) ==
  LET average == _calc_average_resources(q, class)
      fraction == divide_resources(q.spec[app], average,
                                   calculate_read_write_ratio(average))
      Deviation(d) == Minus(fraction[d], Mean(fraction))
  IN  Over(Total([d \in DOMAIN fraction |-> Times(Deviation(d), Deviation(d))]),
           Whole(Cardinality(DOMAIN fraction) - 1))

Classes(q) ==
  IF MergeThreshold = Zero THEN reverse_node_shapes(q)
  ELSE _merge_shapes(q, reverse_node_shapes(q))

\* "Last class has to match!", or the class of a node that failed is looked up,
\* and merging lost that class: AssertionError, KeyError.
hierbar_raises(q, names) == \E n \in names : \A class \in Classes(q) : n \notin class

\* Mutant: the best class, whether or not it has a node that fits.
hierbar_best_class_only(q, names, app) ==
  {names \cap class : class \in
     {class \in Classes(q) :
        \A other \in Classes(q) :
          ~Less(calculate_class_variance(q, other, app),
                calculate_class_variance(q, class, app))}}

\* Classes of equal variance are taken in any order.
hierbar_app_fit_nodes(q, names, app) ==
  LET matching == {class \in Classes(q) : class \cap names # {}}
  IN  {names \cap class : class \in
         {class \in matching :
            \A other \in matching :
              ~Less(calculate_class_variance(q, other, app),
                    calculate_class_variance(q, class, app))}}

-----------------------------------------------------------------------------
(***************************************************************************)
(* score.py.                                                               *)
(***************************************************************************)
MIN_APP_PROFILES == 2

\* Without a target, the app with the least score; apps that have the same one
\* are in the order they were read in.
_get_app_node_type(profile, app) ==
  IF /\ Cardinality(DOMAIN profile) > MIN_APP_PROFILES
     /\ app \in DOMAIN profile
     /\ IF ScoreTarget # 0 THEN profile[app] <= ScoreTarget
        ELSE \A other \in DOMAIN profile :
               \/ profile[app] < profile[other]
               \/ profile[app] = profile[other] /\ app <= other
  THEN "pmem" ELSE "dram"

\* Accepted nodes; there are no failed ones in the answer.
score_app_fit_nodes(q, names, app) ==
  LET preferred ==
        {n \in names : q.types[n] = _get_app_node_type(q.profile, app)}
  IN  IF preferred = {} /\ ~StrictPlacement THEN names ELSE preferred

Misplaced(q, type) ==
  {t \in UNION {q.assigned[n] : n \in {m \in DOMAIN q.assigned :
                                         q.cached[m] = type}} :
     _get_app_node_type(q.profile, AppOf[t]) # type}

\* Apps by score, tasks of an app by name.
Before(q, s, t) ==
  LET a == AppOf[s]  b == AppOf[t]
  IN  \/ q.profile[a] < q.profile[b]
      \/ /\ q.profile[a] = q.profile[b]
         /\ a < b \/ (a = b /\ s < t)

LastOf(q, tasks) == CHOOSE t \in tasks : \A s \in tasks : s = t \/ Before(q, s, t)

\* pmem_nodes_used_resources once the tasks that do not belong there are gone.
UsedAfterRemoval(q) ==
  LET pmem == {n \in DOMAIN q.assigned : q.cached[n] = "pmem"}
  IN  [n \in pmem |->
         used_resources_on_node(Dimensions, q.assigned[n] \ Misplaced(q, "pmem"),
                                q.spec)]

\* Mutant: room is given without being used up.
Consider_alone(q, acc, t) ==
  IF \E n \in DOMAIN acc.used :
       enough_resources_on_node(
         q.capacities[n], sum_resources(acc.used[n], q.spec[AppOf[t]]),
         calculate_read_write_ratio(q.capacities[n]))
  THEN [acc EXCEPT !.result = Append(@, t)] ELSE acc

\* One task to consider: it is given room on every pmem node that has it, and is
\* listed as often.
Consider(q, acc, t) ==
  LET after == [n \in DOMAIN acc.used |->
                  sum_resources(acc.used[n], q.spec[AppOf[t]])]
      room == {n \in DOMAIN acc.used :
                 enough_resources_on_node(
                   q.capacities[n], after[n],
                   calculate_read_write_ratio(q.capacities[n]))}
  IN  [used |-> [n \in DOMAIN acc.used |->
                   IF n \in room THEN after[n] ELSE acc.used[n]],
       result |-> acc.result \o [i \in 1..Cardinality(room) |-> t]]

_get_tasks_to_reschedule(q) ==
  LET consider == Misplaced(q, "dram")
      start == [used |-> UsedAfterRemoval(q),
                result |-> SetToSeq(Misplaced(q, "pmem"))]
      \* After the tasks of a set were considered, in their order.
      Considered[s \in SUBSET consider] ==
        IF s = {} THEN start
        ELSE Consider(q, Considered[s \ {LastOf(q, s)}], LastOf(q, s))
  IN  IF consider = {} THEN <<>> ELSE Considered[consider].result

-----------------------------------------------------------------------------
(***************************************************************************)
(* BaseAlgorithm.                                                          *)
(***************************************************************************)
Algorithms == {"NOP", "Fit", "BAR", "LeastUsed", "LeastUsedBAR", "HierBAR",
               "DramHitRatioProvision", "StaticAssigner", "Score"}

app_fit_node(alg, q, n, app) ==
  CASE alg = "NOP" -> TRUE
    [] alg = "DramHitRatioProvision" -> dram_app_fit_node(q, n, app)
    [] alg = "StaticAssigner" -> static_app_fit_node(q, n, app)
    [] alg = "Score" -> score_app_fit_node(q, n, app)
    [] OTHER -> fit_app_fit_node(q, n, app)

\* Possible answers of the second pass.
app_fit_nodes(alg, q, names, app) ==
  CASE alg = "HierBAR" -> hierbar_app_fit_nodes(q, names, app)
    [] alg = "Score" -> {score_app_fit_nodes(q, names, app)}
    [] OTHER -> {names}

\* [NodeNames, FailedNodes].
filter(alg, q, names, app) ==
  LET first == {n \in names : app_fit_node(alg, q, n, app)}
      Failed(second) ==
        (names \ first) \cup (IF alg = "HierBAR" THEN first \ second ELSE {})
  IN  {[NodeNames |-> second, FailedNodes |-> Failed(second)] :
         second \in IF first = {} THEN {{}}
                    ELSE app_fit_nodes(alg, q, first, app)}

priority_for_node(alg, q, n, app) ==
  CASE alg = "BAR" -> bar_priority(q, n, app)
    [] alg = "LeastUsed" -> least_used_priority(q, n, app)
    [] alg \in {"LeastUsedBAR", "HierBAR"} -> least_used_bar_priority(q, n, app)
    [] OTHER -> Zero

prioritize(alg, q, names, app) ==
  [n \in names |->
     Truncated(Times(priority_for_node(alg, q, n, app), MaxNodeScore))]

reschedule(alg, q) == IF alg = "Score" THEN _get_tasks_to_reschedule(q) ELSE <<>>

=============================================================================
