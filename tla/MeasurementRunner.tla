-------------------------- MODULE MeasurementRunner --------------------------
(***************************************************************************)
(* The agent's measuring loop (src/wca/runners/measurement.py), alone or   *)
(* with a detector (src/wca/runners/detection.py): initialize, then again  *)
(* and again ask the node for tasks, synchronize containers, measure the   *)
(* machine and every container, store a package of metrics in all          *)
(* storages.  Tasks come and go between any two of these steps, requests   *)
(* and deliveries fail, an exception that nobody catches ends the agent,   *)
(* and the service manager starts it again.                                *)
(*                                                                         *)
(* The resctrl side of the synchronization is the subject of               *)
(* ContainerManager; here it only matters whether there are groups.        *)
(***************************************************************************)
EXTENDS MeasurementSources, Nodes, FiniteSets

CONSTANTS
  Tasks,         \* tasks the orchestrator may know
  Foreign,       \* the ones that are not this agent's to monitor
  Setups,        \* configurations with their machines
  MaxFaults      \* how often something external fails

ASSUME RunnerAssumption ==
  /\ Foreign \subseteq Tasks
  /\ MaxFaults \in Nat
  /\ \A s \in Setups : /\ s.node \in {"kubelet", "kubeapi", "mesos", "static"}
                       /\ s.storages \in Seq({"log", "kafka"}) /\ s.storages # <<>>

VARIABLES
  setup,     \* the setup of this behaviour
  pc,        \* next step of the agent; "exited" with an error code, or "dead"
  cause,     \* what the agent last died of
  groups,    \* the resctrl groups of the ContainerManager: "none", "monitored", "unmonitored"
  tasks,     \* what the node answered in this iteration
  managed,   \* the ContainerManager's containers
  prev,      \* containers measured before
  uncore,    \* the uncore counters were read before
  platform,  \* metrics of the machine in this iteration
  data,      \* tasks_data: measurements of the tasks measured in this iteration
  unsent,    \* storages the package has yet to be stored in
  number,    \* parity of the iteration
  stored,    \* the last package in every storage
  pods,      \* what the orchestrator knows of every task
  faults     \* external failures so far

agent == <<groups, managed, prev, uncore, platform, data, unsent, number, tasks>>
vars == <<setup, pc, cause, agent, stored, pods, faults>>

Storages == 1..Len(setup.storages)
NoPackage == [tasks |-> {}, number |-> 2]
Package == [tasks |-> tasks, number |-> number]

Init ==
  /\ setup \in Setups
  /\ pc = "start" /\ cause = "none"
  /\ groups = "none" /\ tasks = {} /\ managed = {} /\ prev = {} /\ uncore = FALSE
  /\ platform = None /\ data = None /\ unsent = <<>> /\ number = 0
  /\ stored = [s \in Storages |-> NoPackage]
  /\ pods = [t \in Tasks |-> [state |-> IF t \in Foreign THEN "ready" ELSE "absent",
                              cgroup |-> FALSE, ours |-> t \notin Foreign]]
  /\ faults = 0

Fault == faults < MaxFaults /\ faults' = faults + 1

\* Either nothing fails, or a fault makes the condition false.
Holds(condition) == IF condition THEN UNCHANGED faults ELSE Fault

-----------------------------------------------------------------------------
(* The orchestrator and the container runtime: a task's cgroups are made,  *)
(* its state is reported, the cgroups go, and the report follows.          *)

Pod(t, state, cgroup) ==
  /\ pods' = [pods EXCEPT ![t] = [@ EXCEPT !.state = state, !.cgroup = cgroup]]
  /\ UNCHANGED <<setup, pc, cause, agent, stored, faults>>

Creates(t) == pods[t].state = "absent" /\ pods[t].ours /\ Pod(t, "starting", TRUE)
Reports(t) == pods[t].state = "starting" /\ pods[t].cgroup /\ Pod(t, "ready", TRUE)
Ends(t) == pods[t].cgroup /\ Pod(t, pods[t].state, FALSE)
Unreports(t) == /\ ~pods[t].cgroup /\ pods[t].ours
                /\ pods[t].state \in {"starting", "ready"}
                /\ Pod(t, "ended", FALSE)

Running(t) == pods[t].state = "ready" /\ pods[t].cgroup

-----------------------------------------------------------------------------
(* Starting and ending. *)

Die(reason) == /\ pc' = "dead" /\ cause' = reason
               /\ UNCHANGED <<setup, agent, stored, pods>>

Goes(step) == /\ pc' = step
              /\ UNCHANGED <<setup, cause, stored, pods>>

rdt_enabled(s) == IF s.rdt = "auto" THEN s.resctrl ELSE s.rdt = "on"

\* Monitoring may be missing if RDT was found automatically: it is given up.
Enabled(s) == rdt_enabled(s) /\ (s.rdt = "auto" => s.monitoring)

\* What the ContainerManager is told of resctrl.
rdt_information(s) ==
  CASE ~s.resctrl -> "none"
    [] s.resctrl /\ rdt_enabled(s) /\ ~Enabled(s) -> "none"
    [] OTHER -> IF s.monitoring THEN "monitored" ELSE "unmonitored"

check_perf_event_count_limit(s) ==
  Cardinality(filter_out_event_names_for_cpu(s) \ {"task_instructions", "task_cycles"})
    <= (IF s.ht THEN 4 ELSE 8)

\* Without root the agent lacks the capabilities it asks for.
are_privileges_sufficient(s) ==
  s.root \/ ~(Enabled(s) \/ filter_out_event_names_for_cpu(s) # {})

\* The checks of _initialize in their order, and how the agent ends if one
\* fails: with an error code, or of an exception.
Checks(s) ==
  <<[ok |-> s.rdt = "on" => s.resctrl, end |-> "exited"],
    [ok |-> collect_platform_information(s, None).raised = "no", end |-> "dead"],
    [ok |-> s.rdt = "on" => s.monitoring, end |-> "exited"],
    [ok |-> s.events \subseteq KnownEvents, end |-> "dead"],
    [ok |-> check_perf_event_count_limit(s), end |-> "exited"],
    [ok |-> are_privileges_sufficient(s), end |-> "exited"],
    [ok |-> s.uncore \subseteq KnownUncoreEvents, end |-> "dead"],
    [ok |-> s.uncore # {} => _discover_pmu_uncore_config(s), end |-> "dead"],
    [ok |-> s.uncore # {} => UncorePerfCounters_open(s), end |-> "dead"]>>

Failed(s) == {i \in DOMAIN Checks(s) : ~Checks(s)[i].ok}

_initialize ==
  /\ pc = "start"
  /\ UNCHANGED faults
  /\ \E failed \in {Failed(setup)} :
       \/ \E first \in failed :
            /\ \A later \in failed : first <= later
            /\ \/ /\ Checks(setup)[first].end = "exited"
                  /\ Goes("exited") /\ UNCHANGED agent
               \/ Checks(setup)[first].end = "dead" /\ Die("configuration")
       \/ /\ failed = {}
          /\ Goes("tasks")
          /\ groups' = rdt_information(setup)
          /\ UNCHANGED <<tasks, managed, prev, uncore, platform, data, unsent, number>>

\* The operating system ends the agent at any moment.
Kill == pc \notin {"start", "exited", "dead"} /\ Fault /\ Die("killed")

\* The service manager starts it again, after any end.
Restart ==
  /\ pc \in {"exited", "dead"}
  /\ pc' = "start" /\ cause' = "none"
  /\ groups' = "none" /\ tasks' = {} /\ managed' = {} /\ prev' = {} /\ uncore' = FALSE
  /\ platform' = None /\ data' = None /\ unsent' = <<>>
  /\ UNCHANGED <<setup, number, stored, pods, faults>>

-----------------------------------------------------------------------------
(* One iteration. *)

\* The rest of the iteration is skipped.
Skip == /\ Goes("tasks")
        /\ tasks' = {} /\ platform' = None /\ data' = None
        /\ UNCHANGED <<groups, managed, prev, uncore, unsent, number>>

GetTasks ==
  /\ pc = "tasks"
  /\ \E answer \in Answers(setup) :
       \E result \in {get_tasks(setup, answer, pods)} :
         /\ Holds(answer = "ok")
         /\ \/ result.raised = "synchronization" /\ Skip
            \/ result.raised \notin {"no", "synchronization"} /\ Die(result.raised)
            \/ /\ result.raised = "no"
               /\ Goes("sync")
               /\ tasks' = result.of
               /\ UNCHANGED <<groups, managed, prev, uncore, platform, data,
                              unsent, number>>

\* Creating a container opens its counters and resets the cgroup's.
_create_container(t) ==
  PerfCounters_open(setup, pods[t].cgroup) /\ reset_counters(pods[t].cgroup)

\* A manager that keeps the containers of tasks that are gone.
Kept_all == managed \cup tasks

\* The containers after synchronization.
Kept == tasks

sync_containers_state ==
  /\ pc = "sync"
  /\ UNCHANGED faults
  /\ \/ groups = "unmonitored" /\ Die("monitoring")
     \/ /\ groups # "unmonitored"
        /\ \E t \in tasks \ managed : ~_create_container(t)
        /\ Die("creation")
     \/ /\ groups # "unmonitored"
        /\ \A t \in tasks \ managed : _create_container(t)
        /\ Goes("platform")
        /\ managed' = Kept
        /\ prev' = prev \cap tasks
        /\ UNCHANGED <<groups, tasks, uncore, platform, data, unsent, number>>

\* What measuring the machine comes to, as a function of the setup and of
\* whether the uncore counters were read before, ran, and counted anything.
platform_measurements ==
  [c \in [of : Setups, before : BOOLEAN, ran : BOOLEAN, busy : BOOLEAN] |->
     PlatformMeasurements(c.of, IF c.before THEN Metric ELSE {}, c.ran, c.busy)]

\* Uncore counters, zoneinfo, vmstat and the platform's information.
MeasurePlatform ==
  /\ pc = "platform"
  /\ \E ran, busy \in BOOLEAN :
       \E result \in {platform_measurements[[of |-> setup, before |-> uncore, ran |-> ran,
                                            busy |-> busy]]} :
         /\ setup.uncore = {} => ran /\ busy
         /\ Holds(ran /\ busy)
         /\ \/ result.raised # "no" /\ Die(result.raised)
            \/ /\ result.raised = "no"
               /\ Goes("measure")
               /\ platform' = result.of
               /\ uncore' = (setup.uncore # {})
               /\ UNCHANGED <<groups, tasks, managed, prev, data, unsent, number>>

\* What measuring a container comes to, as a function of the setup and of
\* whether there are resctrl groups, the cgroup exists, the processes are still
\* alive, the container was measured before, and the task ran since.
get_measurements ==
  [c \in [of : Setups, grouped : BOOLEAN, exists : BOOLEAN, alive : BOOLEAN,
          before : BOOLEAN, ran : BOOLEAN] |->
     LET metrics == IF c.before THEN Metric ELSE {}
     IN  IF IsSet(c.of)
           THEN ContainerSet_get_measurements(c.of, c.grouped, c.exists, c.alive, metrics, c.ran)
           ELSE Container_get_measurements(c.of, c.of.wss, c.grouped, c.exists, c.alive,
                                           metrics, c.ran)]

\* A missing measurement only leaves its task out.
Missing_ignored(t) ==
  /\ data' = data
  /\ managed' = managed \ {t}
  /\ Goes("measure")
  /\ UNCHANGED <<groups, tasks, prev, uncore, platform, unsent, number>>

\* A missing measurement ends the iteration for all tasks.
Missing(t) == Skip

\* One turn of the loop in _prepare_tasks_data.
Measure(t) ==
  /\ pc = "measure" /\ t \in managed \ DOMAIN data
  /\ \E alive, ran \in BOOLEAN :
       \E result \in {get_measurements[[of |-> setup, grouped |-> (groups = "monitored"),
                                        exists |-> pods[t].cgroup, alive |-> alive,
                                        before |-> (t \in prev), ran |-> ran]]} :
         /\ ~setup.sched => alive
         /\ ~setup.derived => ran
         /\ Holds(alive)
         /\ \/ result.raised = "missing" /\ Missing(t)
            \/ result.raised \notin {"no", "missing"} /\ Die(result.raised)
            \/ /\ result.raised = "no"
               /\ Goes("measure")
               /\ prev' = prev \cup {t}
               /\ data' = data ++ [u \in {t} |->
                                 result.of ++ At(0, {"task_up", "task_requested"})]
               /\ UNCHANGED <<groups, tasks, managed, uncore, platform, unsent, number>>

Measured == pc = "measure" /\ managed \subseteq DOMAIN data

Advance(step) == Goes(step) /\ UNCHANGED <<groups, tasks, managed, prev, uncore, platform,
                                           data, unsent, number>>

\* The detector's callback: anomalies contend for a task that was measured;
\* they are stored, with their number so far, in a storage of their own, which may fail.
_iterate_body ==
  /\ Measured /\ setup.detector
  /\ \/ Advance("wait") /\ UNCHANGED faults
     \/ Fault /\ Die("delivery")

NoCallback == Measured /\ ~setup.detector /\ Advance("wait") /\ UNCHANGED faults

\* The agent sleeps for the rest of the interval, before it stores.
_wait == pc = "wait" /\ Advance("build") /\ UNCHANGED faults

\* The package is put together.
_build_tasks_metrics ==
  /\ pc = "build"
  /\ UNCHANGED faults
  /\ IF \E t \in DOMAIN data :
          export_metrics_from_measurements(setup.aggregate, data[t]).raised # "no"
       THEN Die("levels")
       ELSE /\ Goes("store")
            /\ unsent' = setup.storages
            /\ UNCHANGED <<groups, tasks, managed, prev, uncore, platform, data, number>>

Convertable ==
  /\ is_convertable_to_prometheus_exposition_format(platform)
  /\ \A t \in DOMAIN data :
       is_convertable_to_prometheus_exposition_format(
         export_metrics_from_measurements(setup.aggregate, data[t]).of)

\* The storage the package is stored in next.
Next_storage == Len(setup.storages) - Len(unsent) + 1

\* Kafka may refuse the package, or not answer in time and take it or not.
Undelivered ==
  /\ Head(unsent) = "kafka" /\ Fault
  /\ pc' = "dead" /\ cause' = "delivery"
  /\ \/ UNCHANGED stored
     \/ stored' = [stored EXCEPT ![Next_storage] = Package]
  /\ UNCHANGED <<setup, agent, pods>>

Delivered ==
  /\ stored' = [stored EXCEPT ![Next_storage] = Package]
  /\ unsent' = Tail(unsent)
  /\ pc' = IF Len(unsent) = 1 THEN "done" ELSE "store"
  /\ UNCHANGED <<setup, cause, groups, tasks, managed, prev, uncore, platform, data,
                 number, pods, faults>>

\* FilterStorage stores in its storages one after the other.
store ==
  /\ pc = "store"
  /\ IF Convertable THEN Delivered \/ Undelivered
     ELSE Die("levels") /\ UNCHANGED faults

\* The iteration is over, the next one begins.
Iterate ==
  /\ pc = "done"
  /\ Goes("tasks")
  /\ number' = 1 - number
  /\ tasks' = {} /\ platform' = None /\ data' = None
  /\ UNCHANGED <<groups, managed, prev, uncore, unsent, faults>>

Agent ==
  \/ _initialize \/ GetTasks \/ sync_containers_state \/ MeasurePlatform
  \/ \E t \in Tasks : Measure(t)
  \/ _iterate_body \/ NoCallback \/ _wait \/ _build_tasks_metrics \/ store \/ Iterate

Next ==
  \/ Agent \/ Kill \/ Restart
  \/ \E t \in Tasks : Creates(t) \/ Reports(t) \/ Ends(t) \/ Unreports(t)

\* The agent goes on while its host does, the service manager restarts it, and
\* the orchestrator notices the end of a task.
Spec ==
  /\ Init /\ [][Next]_vars
  /\ WF_vars(Agent) /\ WF_vars(Restart)
  /\ \A t \in Tasks : WF_vars(Unreports(t))

-----------------------------------------------------------------------------
\* State of the agent, its storages and its environment; the measurements of a
\* task that was not found, or a platform without metrics at the time they are
\* stored, would be a mix of two iterations.
TypeOK ==
  /\ setup \in Setups
  /\ pc \in {"start", "tasks", "sync", "platform", "measure", "wait", "build", "store",
             "done", "exited", "dead"}
  /\ groups \in {"none", "monitored", "unmonitored"}
  /\ tasks \subseteq Tasks \ Foreign /\ managed \subseteq Tasks /\ prev \subseteq Tasks
  /\ DOMAIN data \subseteq tasks
  /\ pc \in {"wait", "build", "store", "done"} => platform # None
  /\ number \in 0..1 /\ faults \in 0..MaxFaults
  /\ stored \in [Storages -> [tasks : SUBSET Tasks, number : 0..2]]

\* Whatever is configured, the shape of every measurement is the one the
\* metrics' metadata gives: neither the merge over a pod's containers, the
\* flattening of sources, the export nor a storage meets a dictionary where it
\* expects a number or the reverse, which would end the agent in every
\* iteration (metrics.py merge_measurements, export_metrics_from_measurements;
\* containers.py flatten_measurements).
LevelsAgree == cause \notin {"levels", "overlap"}

\* A package is stored whole or the agent ends: when an iteration is over,
\* every storage holds this iteration's package, with every task the node
\* found and no other (_prepare_tasks_data gives up the iteration, FilterStorage
\* lets the failure of one storage pass).
PackagesWhole ==
  pc = "done" => /\ DOMAIN data = tasks
                 /\ \A s \in Storages : stored[s] = Package

\* The agent cannot work with its configuration on this machine: it does not
\* start, resctrl has no monitoring, the working set of a task without a resctrl
\* group is to be measured, or PMM metrics are to be derived without DRAM's.
Misconfigured == pc = "exited" \/ cause \in {"configuration", "monitoring", "unbound"}

\* A task that runs for good is in packages again and again, whatever other
\* tasks do, whatever failed and however the agent ended before, unless it is
\* the configuration that ends the agent again and again.
StoresAgain ==
  \A t \in Tasks \ Foreign :
    <>[]Running(t) => []<>(pc = "done" /\ t \in tasks) \/ []<>Misconfigured
=============================================================================
