-------------------------- MODULE CgroupAllocation --------------------------
(***************************************************************************)
(* The allocation runner's iteration for the allocations kept in cgroups   *)
(* (wca/runners/allocation.py, wca/allocations.py,                         *)
(* wca/cgroups_allocations.py, wca/cgroups.py and the get_allocations of   *)
(* wca/containers.py), driven by the StaticAllocator                       *)
(* (wca/extra/static_allocator.py).                                        *)
(*                                                                         *)
(* A task has its own cgroup <<t, 0>> and the cgroups <<t, 1>>, ... of its *)
(* containers.  Normalised numbers (floats in the code) are thousandths;   *)
(* the values enumerated are ones for which that is exact and no two of    *)
(* them differ by the tolerance exactly.  A cpuset is a set of numbers.    *)
(* The orchestrator and the container runtime act between any two steps    *)
(* of the agent, at most MaxEvents times.                                  *)
(***************************************************************************)
EXTENDS Integers, Sequences, FiniteSets, SequencesExt

CONSTANTS
    Tasks,      \* task identifiers the orchestrator may list
    Subs,       \* Subs[t]: the number of containers of t (0: a plain cgroup)
    Qos,        \* Qos[t]: its Kubernetes QoS class, or "none"
    Denied,     \* tasks whose cpuset files refuse a write
    SwapEnabled, \* platform.swap_enabled
    Cpus,       \* platform.cpus
    NumaNodes,  \* platform.numa_nodes (and len(node_cpus))
    Period,     \* allocation_configuration.cpu_quota_period
    Unit,       \* allocation_configuration.cpu_shares_unit
    RuleSets,   \* contents the rules file of the StaticAllocator may have
    Limits,     \* quotas (with their period) the container runtime writes
    MaxEvents   \* bound on the steps of the environment

ASSUME PlatformAssumption == Cpus \in Nat \ {0} /\ NumaNodes \in Nat \ {0}
ASSUME ConfigurationAssumption ==
    /\ Period \in Nat /\ Period >= 1000
    /\ Unit \in Nat /\ Unit >= 1000
ASSUME SwapAssumption == SwapEnabled \in BOOLEAN
ASSUME TasksAssumption == Subs \in [Tasks -> Nat]
(* What the kernel accepts as the limit of a cgroup. *)
ASSUME LimitsAssumption ==
    \A l \in Limits : /\ l.quota = -1 \/ (l.quota \in Nat /\ l.quota >= 1000)
                      /\ l.period \in Nat \ {0}
ASSUME BoundAssumption == MaxEvents \in Nat

VARIABLES
    files,      \* the control files of the cgroups of the running tasks
    rules,      \* the StaticAllocator's rules file
    containers, \* the tasks of this iteration
    pc,         \* "sync", "body", "perform", "dead"
    target,     \* target_allocations_values, reported as metrics
    changeset,  \* allocations_changeset_values still to perform
    touched,    \* history: tasks disturbed since their allocations were read
    restarted,  \* history: <<t, k>> if a container of t was restarted since
                \* cpusets of kind k were last written to all of them
    events      \* number of steps the environment has taken

vars == <<files, rules, containers, pc, target, changeset, touched, restarted, events>>

MIN_SHARES == 2
QUOTA_NOT_SET == -1
QUOTA_MINIMUM_VALUE == 1000
QUOTA_NORMALIZED_MAX == 1000
VALUE_CHANGE_SENSITIVITY == 50

Running == {c[1] : c \in DOMAIN files}
CgroupsOf(t) == {t} \X (0..Subs[t])
SubcgroupsOf(t) == {t} \X (1..Subs[t])

-----------------------------------------------------------------------------
(* cgroups.Cgroup *)

_get_normalized_quota(f) ==
    IF f.quota = QUOTA_NOT_SET THEN QUOTA_NORMALIZED_MAX
                               ELSE (1000 * f.quota) \div (f.period * Cpus)

_get_normalized_shares(f) == (1000 * f.shares) \div Unit

(* Mutant: the least value is not enforced. *)
AtLeast_anything(min, n) == n

AtLeast(min, n) == IF n < min THEN min ELSE n

set_shares(f, v) == [f EXCEPT !.shares = AtLeast(MIN_SHARES, (v * Unit) \div 1000)]

(* Mutant: the period is left as the runtime set it. *)
set_quota_only(f, v) ==
    [f EXCEPT !.quota = IF v >= QUOTA_NORMALIZED_MAX THEN QUOTA_NOT_SET
                        ELSE AtLeast(QUOTA_MINIMUM_VALUE, (v * Period * Cpus) \div 1000)]

set_quota(f, v) ==
    [f EXCEPT !.period = Period,
              !.quota = IF v >= QUOTA_NORMALIZED_MAX THEN QUOTA_NOT_SET
                        ELSE AtLeast(QUOTA_MINIMUM_VALUE, (v * Period * Cpus) \div 1000)]

(* ContainerSet reports the cpusets of its first subcgroup. *)
Reported(t) == <<t, IF Subs[t] = 0 THEN 0 ELSE 1>>

(* Mutant: the cpusets of the task's own cgroup. *)
get_allocations_of_pod(t) ==
    [quota   |-> _get_normalized_quota(files[<<t, 0>>]),
     shares  |-> _get_normalized_shares(files[<<t, 0>>]),
     cpus    |-> files[<<t, 0>>].cpus,
     mems    |-> files[<<t, 0>>].mems,
     migrate |-> files[<<t, 0>>].migrate]

get_allocations(t) ==
    [quota   |-> _get_normalized_quota(files[<<t, 0>>]),
     shares  |-> _get_normalized_shares(files[<<t, 0>>]),
     cpus    |-> files[Reported(t)].cpus,
     mems    |-> files[Reported(t)].mems,
     migrate |-> files[<<t, 0>>].migrate]

(* A task whose files are gone is left out with a warning. *)
_get_tasks_allocations(tasks) == [t \in tasks \cap Running |-> get_allocations(t)]

-----------------------------------------------------------------------------
(* Allocation values: validate, compare, perform. *)

Kinds == {"quota", "shares", "cpus", "mems", "migrate", "move"}

IsList(k) == k \in {"cpus", "mems"}

Limit(k) == CASE k = "quota"   -> QUOTA_NORMALIZED_MAX
              [] k = "cpus"    -> Cpus - 1
              [] k = "mems"    -> NumaNodes - 1
              [] k = "migrate" -> 1000
              [] k = "move"    -> NumaNodes - 1

validate(k, v) ==
    IF IsList(k) THEN v \subseteq 0..Limit(k)
                 ELSE /\ v \in Nat /\ (k # "shares" => v <= Limit(k))
                      /\ k = "move" => ~SwapEnabled

Close(a, b) == a - b \in -VALUE_CHANGE_SENSITIVITY..VALUE_CHANGE_SENSITIVITY

Same(k, new, current) == IF IsList(k) THEN new = current ELSE Close(new, current)

(* AllocationsDict.calculate_changeset of one task: the target, and what   *)
(* has to change.  A kind that is not read back always changes.            *)
Changed(new, current) ==
    {k \in DOMAIN new : k \notin DOMAIN current \/ ~Same(k, new[k], current[k])}

Restricted(f, S) == [k \in DOMAIN f \cap S |-> f[k]]
Override(new, old) ==
    [k \in DOMAIN new \cup DOMAIN old |-> IF k \in DOMAIN new THEN new[k] ELSE old[k]]

changeset_of(new, current) ==
    LET diff == [t \in DOMAIN new |->
                    IF t \in DOMAIN current
                    THEN Restricted(new[t], Changed(new[t], current[t]))
                    ELSE new[t]]
    IN  Restricted(diff, {t \in DOMAIN diff : DOMAIN diff[t] # {}})

target_of(new, current) ==
    LET changes == changeset_of(new, current)
    IN  Override([t \in DOMAIN changes |->
                    IF t \in DOMAIN current THEN Override(changes[t], current[t])
                                            ELSE changes[t]],
                 current)

(* Mutant: cpusets are written to the container they are read from only. *)
Pinned_first(t) == {Reported(t)}

Pinned(t) == IF Subs[t] = 0 THEN {<<t, 0>>} ELSE SubcgroupsOf(t)

(* The cgroups of t after the value v of kind k is performed.              *)
(* _migrate_pages asks for the pages of each process to leave the other    *)
(* nodes and ignores the processes for which it fails: perform_allocations *)
(* is the set of the possible outcomes.                                    *)
perform_allocations(t, k, v) ==
    LET own == <<t, 0>>
    IN  CASE k = "quota" ->
               {[c \in DOMAIN files |->
                    CASE c = own -> set_quota(files[c], v)
                      [] c \in SubcgroupsOf(t) -> set_quota(files[c], QUOTA_NORMALIZED_MAX)
                      [] OTHER -> files[c]]}
          [] k = "shares"  -> {[files EXCEPT ![own] = set_shares(@, v)]}
          [] k = "migrate" -> {[files EXCEPT ![own].migrate = v]}
          [] k = "move"    -> {files, [files EXCEPT ![own].on = {v}]}
          [] IsList(k)     ->
               {[c \in DOMAIN files |->
                    IF c \in Pinned(t) /\ t \notin Denied
                    THEN [files[c] EXCEPT ![k] = v] ELSE files[c]]}

-----------------------------------------------------------------------------
(* StaticAllocator: a rule names a task, selects by label or matches all.  *)

merge_rules(existing, new) ==
    [t \in DOMAIN existing \cup DOMAIN new |->
        CASE t \notin DOMAIN existing -> new[t]
          [] t \notin DOMAIN new      -> existing[t]
          [] OTHER                    -> Override(new[t], existing[t])]

Matches(rule, tasks) ==
    CASE rule.by = "task_id" -> rule.ids
      [] rule.by = "labels"  -> rule.ids \cap tasks
      [] rule.by = "all"     -> tasks

_build_allocations_from_rules(tasks, rs) ==
    FoldLeft(LAMBDA sofar, rule :
                 merge_rules(sofar, [t \in Matches(rule, tasks) |-> rule.allocations]),
             <<>>,
             SelectSeq(rs, LAMBDA rule : DOMAIN rule.allocations # {}))

-----------------------------------------------------------------------------
(* TasksAllocationsValues.create and the check of the QoS classes raise    *)
(* InvalidAllocations.                                                     *)

CanCreate(allocations, tasks) ==
    /\ DOMAIN allocations \subseteq tasks
    /\ \A t \in DOMAIN allocations : \A k \in DOMAIN allocations[t] :
           k \in Kinds /\ validate(k, allocations[t][k])

validate_shares_allocation_for_kubernetes(tasks, allocations) ==
    \/ \A t \in tasks : Qos[t] = "none"
    \/ Cardinality({Qos[t] : t \in tasks}) <= 1
    \/ \A t \in DOMAIN allocations : "shares" \notin DOMAIN allocations[t]

ValidNew(allocations, tasks) ==
    /\ validate_shares_allocation_for_kubernetes(tasks, allocations)
    /\ CanCreate(allocations, tasks)

-----------------------------------------------------------------------------
Fresh == [quota |-> QUOTA_NOT_SET, period |-> 1000, shares |-> 1000,
          cpus |-> 0..(Cpus - 1), mems |-> 0..(NumaNodes - 1),
          migrate |-> 0, on |-> 0..(NumaNodes - 1)]

Init ==
    /\ files = [c \in UNION {CgroupsOf(t) : t \in Tasks} |-> Fresh]
    /\ rules \in RuleSets
    /\ containers = {} /\ pc = "sync" /\ target = <<>> /\ changeset = <<>>
    /\ touched = {} /\ restarted = {} /\ events = 0

(* The orchestrator, the container runtime and the operator. *)

Happens(t) ==
    /\ events < MaxEvents
    /\ events' = events + 1
    /\ touched' = touched \cup t
    /\ UNCHANGED <<containers, pc, target, changeset>>

Configure == \E rs \in RuleSets \ {rules} :
    Happens({}) /\ rules' = rs /\ UNCHANGED <<files, restarted>>

SetLimit == \E c \in DOMAIN files, l \in Limits :
    /\ Happens({c[1]})
    /\ files' = [files EXCEPT ![c].quota = l.quota, ![c].period = l.period]
    /\ UNCHANGED <<rules, restarted>>

RestartContainer == \E c \in DOMAIN files :
    /\ c[2] > 0
    /\ Happens({c[1]})
    /\ files' = [files EXCEPT ![c] = Fresh]
    /\ restarted' = restarted \cup {c[1]} \X {"cpus", "mems"}
    /\ UNCHANGED rules

Finish == \E t \in Running :
    /\ Happens({t})
    /\ files' = Restricted(files, DOMAIN files \ CgroupsOf(t))
    /\ UNCHANGED <<rules, restarted>>

-----------------------------------------------------------------------------
(* node.get_tasks and sync_containers_state *)
Sync ==
    /\ pc = "sync"
    /\ containers' = Running /\ pc' = "body"
    /\ UNCHANGED <<files, rules, target, changeset, touched, restarted, events>>

(* The current allocations are read and boxed first, outside of the try    *)
(* block: an invalid one ends the agent.  Then the allocator is asked, and *)
(* an invalid answer leaves everything as it is.                           *)
_iterate_body ==
    /\ pc = "body"
    /\ touched' = {}
    /\ \E current \in {_get_tasks_allocations(containers)} :
       \E new \in {_build_allocations_from_rules(containers, rules)} :
          \/ /\ ~CanCreate(current, containers)
             /\ pc' = "dead" /\ UNCHANGED <<target, changeset>>
          \/ /\ CanCreate(current, containers) /\ ~ValidNew(new, containers)
             /\ pc' = "perform" /\ target' = current /\ changeset' = <<>>
          \/ /\ CanCreate(current, containers) /\ ValidNew(new, containers)
             /\ pc' = "perform"
             /\ target' = target_of(new, current)
             /\ changeset' = changeset_of(new, current)
    /\ UNCHANGED <<files, rules, containers, restarted, events>>

Without(t, k) ==
    IF DOMAIN changeset[t] = {k} THEN Restricted(changeset, DOMAIN changeset \ {t})
    ELSE [changeset EXCEPT ![t] = Restricted(@, DOMAIN @ \ {k})]

(* A refused write of a cpuset is logged and ignored; one of               *)
(* cpuset.memory_migrate raises.                                           *)
Refused(t, k) == k = "migrate" /\ t \in Denied

(* One allocation value; the order is the one of the allocator's answer.   *)
Perform(t, k) ==
    /\ pc = "perform" /\ t \in DOMAIN changeset /\ k \in DOMAIN changeset[t]
    /\ t \in Running /\ ~Refused(t, k)
    /\ files' \in perform_allocations(t, k, changeset[t][k])
    /\ changeset' = Without(t, k)
    /\ restarted' = restarted \ {<<t, k>>}
    /\ UNCHANGED <<rules, containers, pc, target, touched, events>>

(* A PermissionError that nothing catches ends the agent. *)
PerformRefused(t, k) ==
    /\ pc = "perform" /\ t \in DOMAIN changeset /\ k \in DOMAIN changeset[t]
    /\ t \in Running /\ Refused(t, k)
    /\ pc' = "dead"
    /\ UNCHANGED <<files, rules, containers, target, changeset, touched, restarted, events>>

(* The cgroup disappeared: get_pids finds no process to migrate, every     *)
(* other value raises and ends the agent.                                  *)
PerformOnMissing(t, k) ==
    /\ pc = "perform" /\ t \in DOMAIN changeset /\ k \in DOMAIN changeset[t]
    /\ t \notin Running
    /\ pc' = IF k = "move" THEN pc ELSE "dead"
    /\ changeset' = Without(t, k)
    /\ UNCHANGED <<files, rules, containers, target, touched, restarted, events>>

(* Anomalies and allocations are stored, then the runner waits. *)
Store ==
    /\ pc = "perform" /\ changeset = <<>>
    /\ pc' = "sync"
    /\ UNCHANGED <<files, rules, containers, target, changeset, touched, restarted, events>>

(* The service manager starts a new agent: it keeps no state. *)
Restart ==
    /\ pc = "dead"
    /\ pc' = "sync" /\ containers' = {} /\ target' = <<>> /\ changeset' = <<>>
    /\ touched' = {}
    /\ UNCHANGED <<files, rules, restarted, events>>

Agent ==
    \/ Sync \/ _iterate_body \/ Store \/ Restart
    \/ \E t \in Tasks, k \in Kinds : 
           Perform(t, k) \/ PerformRefused(t, k) \/ PerformOnMissing(t, k)

Environment == Configure \/ SetLimit \/ RestartContainer \/ Finish

Next == Agent \/ Environment

(* The agent's process is scheduled, and restarted when it ends. *)
Spec == Init /\ [][Next]_vars /\ WF_vars(Agent)

-----------------------------------------------------------------------------
(* Every control file holds a value the agent or the container runtime may *)
(* write, a quota and shares no lower than the kernel allows, and what is  *)
(* being performed is part of the target for known containers.             *)
TypeOK ==
    /\ \A c \in DOMAIN files :
          /\ c \in UNION {CgroupsOf(t) : t \in Tasks}
          /\ files[c].quota = QUOTA_NOT_SET \/ files[c].quota >= QUOTA_MINIMUM_VALUE
          /\ files[c].shares >= MIN_SHARES
          /\ files[c].cpus \subseteq 0..(Cpus - 1) /\ files[c].mems \subseteq 0..(NumaNodes - 1)
          /\ files[c].migrate \in 0..1000 /\ files[c].on \subseteq 0..(NumaNodes - 1)
    /\ rules \in RuleSets /\ containers \subseteq Tasks
    /\ pc \in {"sync", "body", "perform", "dead"}
    /\ restarted \subseteq Tasks \X {"cpus", "mems"}
    /\ DOMAIN changeset \subseteq DOMAIN target \cap containers /\ DOMAIN target \subseteq Tasks
    /\ events \in 0..MaxEvents

AtMinimum(t, k, v) ==
    \/ k = "quota" /\ v * Period * Cpus < 1000 * QUOTA_MINIMUM_VALUE
                   /\ files[<<t, 0>>].quota = QUOTA_MINIMUM_VALUE
    \/ k = "shares" /\ v * Unit < 1000 * MIN_SHARES /\ files[<<t, 0>>].shares = MIN_SHARES

(* What is read back of t is v, or as near as it can be. *)
Shown(t, k, v) ==
    \/ k = "move"
    \/ IsList(k) /\ t \in Denied
    \/ AtMinimum(t, k, v)
    \/ IsList(k) /\ files[Reported(t)][k] = v
    \/ k = "quota" /\ LET f == files[<<t, 0>>] IN
          Close(v, IF f.quota = QUOTA_NOT_SET THEN QUOTA_NORMALIZED_MAX
                   ELSE (1000 * f.quota) \div (f.period * Cpus))
    \/ k = "shares" /\ Close(v, (1000 * files[<<t, 0>>].shares) \div Unit)
    \/ k = "migrate" /\ files[<<t, 0>>].migrate = v

(* The cgroups whose cpusets the processes of t are bound by. *)
BoundBy(t) == {c \in DOMAIN files : c[1] = t /\ (c[2] = 0 <=> Subs[t] = 0)}

Everywhere(t, k, v) == \A c \in BoundBy(t) : files[c][k] = v

(* A cpuset is in effect when all containers have it.  After a container   *)
(* was restarted it is asked of the one that is read only: the others are  *)
(* not looked at, and are not written again as long as that one has it.    *)
InEffect(t, k, v) ==
    /\ Shown(t, k, v)
    /\ IsList(k) /\ t \notin Denied /\ <<t, k>> \notin restarted => Everywhere(t, k, v)

(* What the runner reports as its target allocations is what the control   *)
(* files hold once the changeset is performed (within the sensitivity, or  *)
(* at the least value a cgroup takes), for every task nobody else touched  *)
(* meanwhile: AllocationsDict.calculate_changeset leaves out only what is  *)
(* already there.  A cpuset is in all containers of the task, unless one   *)
(* was restarted since it was written.                                     *)
TargetInEffect ==
    pc = "perform" /\ changeset = <<>> =>
        \A t \in (DOMAIN target \cap Running) \ touched :
            \A k \in DOMAIN target[t] : InEffect(t, k, target[t][k])

(* Performing a value on an undisturbed task changes its control files,    *)
(* except for the page migration, which is never read back, for values     *)
(* below what a cgroup takes and for files that refuse the write: the      *)
(* runner does not rewrite in every iteration what is there already.       *)
NoFutileWrites ==
    [][\A t \in Tasks, k \in Kinds \ {"move"} :
          Perform(t, k) /\ t \notin touched /\ ~(IsList(k) /\ t \in Denied)
             => files' # files \/ AtMinimum(t, k, changeset[t][k])]_vars

(* Rules that can be performed: every task named is there, every value is  *)
(* in range, none is one that is refused, and no cgroup has a quota beyond *)
(* the platform.                                                           *)
Healthy ==
    LET new == _build_allocations_from_rules(Running, rules)
    IN  /\ ValidNew(new, Running)
        /\ \A t \in DOMAIN new : \A k \in DOMAIN new[t] : ~Refused(t, k)
        /\ CanCreate(_get_tasks_allocations(Running), Running)

(* Once the environment is quiet, every allocation of valid rules is       *)
(* eventually in effect and stays so, whatever crashes, partly performed   *)
(* changesets, restarted containers and changed limits came before; after  *)
(* a restart a cpuset comes back in the container that is read.            *)
EventuallyInEffect ==
    <>[](Healthy =>
            LET new == _build_allocations_from_rules(Running, rules)
            IN  \A t \in DOMAIN new : \A k \in DOMAIN new[t] : InEffect(t, k, new[t][k]))

=============================================================================
