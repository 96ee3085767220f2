-------------------------- MODULE ContainerManager --------------------------
(***************************************************************************)
(* The agent's iteration (MeasurementRunner._iterate with AllocationRunner *)
(* as its body): ContainerManager.sync_containers_state followed by the    *)
(* allocator's callback and RDTAllocationValue.perform_allocations, on a   *)
(* resctrl filesystem and next to containers whose processes come, fork    *)
(* and go whenever they like.  The agent may die at any step and is        *)
(* started again by its supervisor.                                        *)
(*                                                                         *)
(* One action is one system call of the agent, or several of which nothing *)
(* else can see the middle.  The agent keeps nothing on disk: what it      *)
(* knows after a restart it reads back from resctrl.                       *)
(***************************************************************************)
EXTENDS Resctrl

CONSTANTS
  Allocator(_),   \* Allocator(S): what allocate() may return for containers S
  ResetChoices    \* values of remove_all_resctrl_groups at a start

\* TasksAllocations reduced to its RDT part: task -> name of control group.
RdtAllocations == UNION {[S -> AllGroups] : S \in SUBSET Containers}

ASSUME AllocatorAssumption ==
  /\ \A S \in SUBSET Containers : Allocator(S) \subseteq RdtAllocations
  /\ ResetChoices \subseteq BOOLEAN

VARIABLES
  listed,       \* tasks the orchestrator reports (Node.get_tasks)
  changed,      \* listed tasks whose subcgroups changed since last reported
  pc,           \* step of the iteration, or why the agent is down
  containers,   \* keys of ContainerManager.containers
  resgroup,     \* resgroup[c]: name of container c's _resgroup
  target,       \* control group each container is about to be put in
  todo,         \* containers the loop being executed has yet to visit
  relation,     \* mon_groups_relation, as read before the clean-up
  unread,       \* its entries that clean_taskless_groups has yet to visit
  refresh,      \* containers whose subcontainers are to be recreated
  cur,          \* container whose add_pids is in progress, or NoOne
  pids,         \* the pids add_pids was called with
  left,         \* those the running _add_pids_to_tasks_file has yet to write
  raced,        \* containers whose processes came or went as add_pids wrote
  recovering    \* the agent was started and has yet to finish its first sync

taskVars == <<listed, changed>>
loopVars == <<todo, refresh, relation, unread>>
addVars  == <<cur, pids, left>>
histVars == <<raced, recovering>>
vars == <<owner, groups, mon, clos, rmid, listed, changed, pc, containers,
          resgroup, target, todo, refresh, relation, unread, cur, pids, left,
          raced, recovering>>

Down == {"stopped", "killed", "enoent", "enospc"}
AddPids == {"write_ctrl", "write_mon"}
NoRelation == [g \in AllGroups |-> {}]
Steps == {"reset", "idle", "cleanup", "clean", "stop", "refresh", "sync",
          "alloc", "perform", "remove_source"} \cup AddPids

\* Every variable has a value of its type, at every step of the iteration and
\* after any death of the agent.
TypeOK ==
  /\ ResctrlTypeOK
  /\ listed \in SUBSET Containers
  /\ changed \in SUBSET Containers
  /\ pc \in Steps \cup Down
  /\ containers \in SUBSET Containers
  /\ resgroup \in [Containers -> AllGroups]
  /\ target \in [Containers -> AllGroups]
  /\ todo \in SUBSET Containers
  /\ refresh \in SUBSET Containers
  /\ relation \in [AllGroups -> SUBSET Containers]
  /\ unread \in [AllGroups -> SUBSET Containers]
  /\ cur \in Containers \cup {NoOne}
  /\ pids \in SUBSET Pids
  /\ left \in SUBSET Pids
  /\ raced \in SUBSET Containers
  /\ recovering \in BOOLEAN

Init ==
  /\ ResctrlInit
  /\ listed = {}
  /\ changed = {}
  /\ pc = "idle"
  /\ containers = {}
  /\ resgroup = [c \in Containers |-> Root]
  /\ target = [c \in Containers |-> Root]
  /\ todo = {}
  /\ refresh = {}
  /\ relation = NoRelation
  /\ unread = NoRelation
  /\ cur = NoOne
  /\ pids = {}
  /\ left = {}
  /\ raced = {}
  /\ recovering = FALSE

-----------------------------------------------------------------------------
(***************************************************************************)
(* Where the loops of sync and perform_allocations are.                    *)
(***************************************************************************)

\* perform_allocations is to move c; sync never is, as it has just made
\* target[c] the container's group.
Moving(c) == resgroup[c] # target[c]

\* add_pids of the container is between get_pids and its last write.
BeingAdded(c) == c = cur /\ pc \in AddPids

\* c's turn in the loop of sync has come and gone.
IsPlaced(c) ==
  /\ c \in containers
  /\ \/ pc = "sync" /\ c \notin todo
     \/ pc \in {"alloc", "perform", "remove_source"}
     \/ pc \in AddPids /\ c # cur /\ (Moving(cur) \/ c \notin todo)

-----------------------------------------------------------------------------
(***************************************************************************)
(* The orchestrator and the processes.                                     *)
(***************************************************************************)

\* The agent reads the list at get_tasks only: a task that appears or changes
\* later in an iteration is one that does so at its end.
TaskListed(c) ==
  /\ pc = "idle"
  /\ c \notin listed
  /\ listed' = listed \cup {c}
  /\ UNCHANGED <<changed, owner, fsVars, pc, containers, resgroup, target,
                 loopVars, addVars, histVars>>

\* The task ended, or its pod is not ready and the node leaves it out.
TaskUnlisted(c) ==
  /\ c \in listed
  /\ listed' = listed \ {c}
  /\ changed' = changed \ {c}
  /\ UNCHANGED <<owner, fsVars, pc, containers, resgroup, target, loopVars,
                 addVars, histVars>>

\* A container of the pod was restarted under a new cgroup.
SubcgroupsChange(c) ==
  /\ pc = "idle"
  /\ c \in listed \ changed
  /\ changed' = changed \cup {c}
  /\ UNCHANGED <<listed, owner, fsVars, pc, containers, resgroup, target,
                 loopVars, addVars, histVars>>

\* The container runtime starts a process in c: it comes from the root group.
\* Pids are not reused while a list holding them is being written.
Exec(c, p) ==
  /\ owner[p] = NoOne /\ p \notin pids
  /\ owner' = [owner EXCEPT ![p] = c]
  /\ raced' = IF IsPlaced(c) \/ BeingAdded(c) THEN raced \cup {c} ELSE raced
  /\ UNCHANGED <<taskVars, fsVars, pc, containers, resgroup, target, loopVars,
                 addVars, recovering>>

Fork(p, q) ==
  /\ owner[p] # NoOne
  /\ owner[q] = NoOne /\ q \notin pids
  /\ owner' = [owner EXCEPT ![q] = owner[p]]
  /\ clos' = [clos EXCEPT ![q] = clos[p]]
  /\ rmid' = [rmid EXCEPT ![q] = rmid[p]]
  /\ raced' = IF BeingAdded(owner[p]) THEN raced \cup {owner[p]} ELSE raced
  /\ UNCHANGED <<taskVars, groups, mon, pc, containers, resgroup, target,
                 loopVars, addVars, recovering>>

Exit(p) ==
  /\ owner[p] # NoOne
  /\ owner' = [owner EXCEPT ![p] = NoOne]
  /\ clos' = [clos EXCEPT ![p] = Root]
  /\ rmid' = [rmid EXCEPT ![p] = NoOne]
  /\ raced' = IF BeingAdded(owner[p]) THEN raced \cup {owner[p]} ELSE raced
  /\ UNCHANGED <<taskVars, groups, mon, pc, containers, resgroup, target,
                 loopVars, addVars, recovering>>

Environment ==
  \/ \E c \in Containers :
       TaskListed(c) \/ TaskUnlisted(c) \/ SubcgroupsChange(c)
  \/ \E c \in Containers, p \in Pids : Exec(c, p)
  \/ \E p, q \in Pids : Fork(p, q)
  \/ \E p \in Pids : Exit(p)

-----------------------------------------------------------------------------
(***************************************************************************)
(* sync_containers_state.                                                  *)
(***************************************************************************)

\* An exception nobody catches, or a signal: the agent's memory is gone.
Dies(why) ==
  /\ pc' = why
  /\ containers' = {} /\ todo' = {} /\ refresh' = {} /\ raced' = {}
  /\ recovering' = FALSE
  /\ relation' = NoRelation /\ unread' = NoRelation
  /\ resgroup' = [c \in Containers |-> Root]
  /\ target' = [c \in Containers |-> Root]
  /\ cur' = NoOne /\ pids' = {} /\ left' = {}

\* Node.get_tasks and _find_new_and_dead_tasks.  The tasks carry their
\* subcgroups, so the changes known so far concern this iteration.
get_tasks ==
  /\ pc = "idle"
  /\ pc' = "cleanup"
  /\ todo' = containers \ listed
  /\ containers' = listed
  /\ refresh' = changed \cap containers
  /\ changed' = {}
  /\ UNCHANGED <<listed, owner, fsVars, resgroup, target, relation, unread,
                 addVars, histVars>>

\* Container.cleanup of an orphaned container (and, at "stop", of them all).
cleanup(c) ==
  /\ pc \in {"cleanup", "stop"} /\ c \in todo
  /\ ~RemoveRaises(resgroup[c])
  /\ remove(resgroup[c], c)
  /\ todo' = todo \ {c}
  /\ resgroup' = [resgroup EXCEPT ![c] = Root]
  /\ UNCHANGED <<taskVars, owner, pc, containers, target, refresh, relation,
                 unread, addVars, histVars>>

cleanup_raises(c) ==
  /\ \/ pc \in {"cleanup", "stop"} /\ c \in todo
     \/ pc = "refresh" /\ c \in refresh
  /\ RemoveRaises(resgroup[c])
  /\ Dies("enoent")
  /\ UNCHANGED <<taskVars, owner, fsVars>>

read_relation ==
  /\ pc = "cleanup" /\ todo = {}
  /\ pc' = "clean"
  /\ relation' = mon
  /\ unread' = mon
  /\ UNCHANGED <<taskVars, owner, fsVars, containers, resgroup, target, todo,
                 refresh, addVars, histVars>>

\* The loop is in the middle of control group g.
Visiting(g) == unread[g] \notin {{}, relation[g]}

\* One round of clean_taskless_groups: the root group first, then the others
\* one by one, in whatever order they are listed.
clean_taskless_groups(g, c) ==
  /\ pc = "clean"
  /\ c \in unread[g]
  /\ g # Root => unread[Root] = {}
  /\ \A h \in AllGroups : Visiting(h) => h = g
  /\ clean_taskless_group(relation, g, c)
  /\ unread' = [unread EXCEPT ![g] = @ \ {c}]
  /\ UNCHANGED <<taskVars, owner, pc, containers, resgroup, target, todo,
                 refresh, relation, addVars, histVars>>

\* The relation is read again, and inverted.
reread_relation ==
  /\ pc = "clean" /\ unread = NoRelation
  /\ pc' = "refresh"
  /\ relation' = NoRelation
  /\ target' \in CtrlGroupOf(groups, mon)
  /\ UNCHANGED <<taskVars, owner, fsVars, containers, resgroup, todo, refresh,
                 unread, addVars, histVars>>

\* "Sync subcontainers": container.cleanup(), then a new container object.
\* The relation is not read a third time.
refresh_subcontainers(c) ==
  /\ pc = "refresh" /\ c \in refresh
  /\ ~RemoveRaises(resgroup[c])
  /\ remove(resgroup[c], c)
  /\ refresh' = refresh \ {c}
  /\ UNCHANGED <<taskVars, owner, pc, containers, resgroup, target, todo,
                 relation, unread, addVars, histVars>>

begin_sync ==
  /\ pc = "refresh" /\ refresh = {}
  /\ pc' = "sync"
  /\ todo' = containers
  /\ UNCHANGED <<taskVars, owner, fsVars, containers, resgroup, target,
                 refresh, relation, unread, addVars, histVars>>

-----------------------------------------------------------------------------
(***************************************************************************)
(* ResGroup.add_pids(get_pids(), c), called by Container.sync (set_resgroup *)
(* has just made target[c] the container's group) and by                   *)
(* perform_allocations, to move c to another group than its own.           *)
(***************************************************************************)

Syncing == pc = "sync"

\* Container.set_resgroup: sync gives the container the group read from
\* resctrl; perform_allocations does not.
set_resgroup(c) ==
  IF Syncing THEN [resgroup EXCEPT ![c] = target[c]] ELSE resgroup

\* get_pids, then makedirs of the control group unless it is the root.
add_pids(c) ==
  /\ pc \in {"sync", "perform"} /\ c \in todo
  /\ CanMakeCtrlGroup(target[c])
  /\ pc' = "write_ctrl"
  /\ todo' = todo \ {c}
  /\ resgroup' = set_resgroup(c)
  /\ cur' = c
  /\ pids' = get_pids(c)
  /\ left' = get_pids(c)
  /\ raced' = raced \ {c}
  /\ groups' = groups \cup ({target[c]} \ {Root})
  /\ UNCHANGED <<taskVars, owner, mon, clos, rmid, containers, target,
                 refresh, relation, unread, recovering>>

\* OutOfClosidsException: nothing catches it.
add_pids_raises(c) ==
  /\ pc \in {"sync", "perform"} /\ c \in todo
  /\ ~CanMakeCtrlGroup(target[c])
  /\ Dies("enospc")
  /\ UNCHANGED <<taskVars, owner, fsVars>>

\* One write to the control group's tasks file.  A process that is gone
\* (ESRCH) ends the loop: the pids after it are not written.
write_ctrl(p) ==
  /\ pc = "write_ctrl" /\ p \in left
  /\ IF owner[p] = NoOne
       THEN left' = {} /\ UNCHANGED <<clos, rmid>>
       ELSE left' = left \ {p} /\ WriteCtrlTask(target[cur], p)
  /\ UNCHANGED <<taskVars, owner, groups, mon, pc, containers, resgroup,
                 target, loopVars, cur, pids, histVars>>

make_mon_group ==
  /\ pc = "write_ctrl" /\ left = {}
  /\ pc' = "write_mon"
  /\ mon' = [mon EXCEPT ![target[cur]] = @ \cup {cur}]
  /\ left' = pids
  /\ UNCHANGED <<taskVars, owner, groups, clos, rmid, containers, resgroup,
                 target, loopVars, cur, pids, histVars>>

\* One write to the monitoring group's tasks file; ESRCH, or EINVAL for a
\* process that is in another control group, ends the loop.
write_mon(p) ==
  /\ pc = "write_mon" /\ p \in left
  /\ IF owner[p] = NoOne \/ clos[p] # target[cur]
       THEN left' = {} /\ UNCHANGED rmid
       ELSE left' = left \ {p} /\ WriteMonTask(cur, p)
  /\ UNCHANGED <<taskVars, owner, groups, mon, clos, pc, containers, resgroup,
                 target, loopVars, cur, pids, histVars>>

added ==
  /\ pc = "write_mon" /\ left = {}
  /\ pc' = IF Moving(cur) THEN "remove_source" ELSE "sync"
  /\ cur' = IF Moving(cur) THEN cur ELSE NoOne
  /\ pids' = {}
  /\ UNCHANGED <<taskVars, owner, fsVars, containers, resgroup, target,
                 loopVars, left, histVars>>

-----------------------------------------------------------------------------
(***************************************************************************)
(* The rest of the iteration.                                              *)
(***************************************************************************)

\* _prepare_tasks_data: every container could be measured.
measure ==
  /\ pc = "sync" /\ todo = {}
  /\ pc' = "alloc"
  /\ recovering' = FALSE
  /\ target' = resgroup
  /\ UNCHANGED <<taskVars, owner, fsVars, containers, resgroup, loopVars,
                 addVars, raced>>

\* The cgroup of a container is gone since the tasks were listed.
CgroupGone(c) == c \notin listed /\ get_pids(c) = {}

\* MissingMeasurementException: the iteration is skipped.
skip_iteration ==
  /\ pc = "sync" /\ todo = {}
  /\ \E c \in containers : CgroupGone(c)
  /\ pc' = "idle"
  /\ recovering' = FALSE
  /\ target' = resgroup
  /\ raced' = {}
  /\ UNCHANGED <<taskVars, owner, fsVars, containers, resgroup, loopVars,
                 addVars>>

\* TasksAllocationsValues.create and validate: known tasks only, and no more
\* group names than CLOSIDs (RDTGroups.validate).
Valid(alloc) ==
  /\ DOMAIN alloc \subseteq containers
  /\ Cardinality({alloc[c] : c \in DOMAIN alloc}) <= NumClosids

\* allocate(), validation and calculate_changeset: a container whose group
\* changes is in the changeset with its present group as source_resgroup.  If
\* its present allocations could not be read (MissingAllocationException), it
\* is in the changeset without a source, and not moved.
allocate ==
  /\ pc = "alloc"
  /\ \E alloc \in Allocator(containers),
        missing \in SUBSET {c \in containers : CgroupGone(c)} :
       LET known == DOMAIN alloc \ missing
       IN  /\ Valid(alloc)
           /\ target' = [c \in Containers |->
                           IF c \in known THEN alloc[c] ELSE resgroup[c]]
           /\ todo' = {c \in known : alloc[c] # resgroup[c]}
  /\ pc' = "perform"
  /\ UNCHANGED <<taskVars, owner, fsVars, containers, resgroup, refresh,
                 relation, unread, addVars, histVars>>

\* InvalidAllocations: all allocations of the iteration are ignored.
ignore_allocations ==
  /\ pc = "alloc"
  /\ \E alloc \in Allocator(containers) : ~Valid(alloc)
  /\ pc' = "idle"
  /\ raced' = {}
  /\ UNCHANGED <<taskVars, owner, fsVars, containers, resgroup, target,
                 loopVars, addVars, recovering>>

\* perform_allocations, after add_pids: the group the container came from is
\* removed if it has one monitoring group.  Listing a group that is gone would
\* raise; MoveSourceExists says that this cannot happen here.
remove_source ==
  /\ pc = "remove_source"
  /\ IF HasOneMonGroup(resgroup[cur])
       THEN remove(resgroup[cur], cur)
       ELSE UNCHANGED fsVars
  /\ pc' = "perform"
  /\ cur' = NoOne
  /\ UNCHANGED <<taskVars, owner, containers, resgroup, target, loopVars,
                 pids, left, histVars>>

\* Metrics are stored and the agent waits.  set_resgroup is not called: a
\* container that was moved keeps its old _resgroup until the next sync.
end_iteration ==
  /\ pc = "perform" /\ todo = {}
  /\ pc' = "idle"
  /\ target' = resgroup
  /\ raced' = {}
  /\ UNCHANGED <<taskVars, owner, fsVars, containers, resgroup, loopVars,
                 addVars, recovering>>

-----------------------------------------------------------------------------
(***************************************************************************)
(* Ends and starts of the agent.                                           *)
(***************************************************************************)

\* _finish is set: ContainerManager.cleanup of every container.
finish ==
  /\ pc = "idle"
  /\ pc' = "stop"
  /\ todo' = containers
  /\ UNCHANGED <<taskVars, owner, fsVars, containers, resgroup, target,
                 refresh, relation, unread, addVars, histVars>>

stopped ==
  /\ pc = "stop" /\ todo = {}
  /\ Dies("stopped")
  /\ UNCHANGED <<taskVars, owner, fsVars>>

\* A signal, a storage that fails, no RMID for mkdir of a monitoring group
\* (ENOSPC, EBUSY): the agent may end anywhere.
Killed ==
  /\ pc \in Steps
  /\ Dies("killed")
  /\ UNCHANGED <<taskVars, owner, fsVars>>

\* _initialize_rdt, with or without remove_all_resctrl_groups.
start ==
  /\ pc \in Down
  /\ \E reset \in ResetChoices :
       /\ pc' = IF reset THEN "reset" ELSE "idle"
       /\ recovering' = ~reset
  /\ UNCHANGED <<taskVars, owner, fsVars, containers, resgroup, target,
                 loopVars, addVars, raced>>

cleanup_resctrl ==
  /\ pc = "reset"
  /\ \/ \E c \in Containers : reset_mon_group(c)
     \/ \E g \in Groups : reset_ctrl_group(g)
  /\ UNCHANGED <<taskVars, owner, pc, containers, resgroup, target, loopVars,
                 addVars, histVars>>

resctrl_reset ==
  /\ pc = "reset" /\ mon[Root] = {} /\ groups = {}
  /\ pc' = "idle"
  /\ UNCHANGED <<taskVars, owner, fsVars, containers, resgroup, target,
                 loopVars, addVars, histVars>>

sync_containers_state ==
  \/ \E c \in Containers :
       cleanup(c) \/ cleanup_raises(c) \/ refresh_subcontainers(c)
  \/ \E g \in AllGroups, c \in Containers : clean_taskless_groups(g, c)
  \/ read_relation \/ reread_relation \/ begin_sync

AddPidsStep ==
  \/ \E c \in Containers : add_pids(c) \/ add_pids_raises(c)
  \/ \E p \in Pids : write_ctrl(p) \/ write_mon(p)
  \/ make_mon_group \/ added

iterate_body ==
  \/ measure \/ skip_iteration \/ allocate \/ ignore_allocations
  \/ remove_source \/ end_iteration

Agent == get_tasks \/ sync_containers_state \/ AddPidsStep \/ iterate_body
         \/ stopped \/ start \/ cleanup_resctrl \/ resctrl_reset

Next == Environment \/ Agent \/ finish \/ Killed

Spec == Init /\ [][Next]_vars

\* The agent is one thread that nothing blocks, and its supervisor starts it
\* again: it always takes another step.
FairSpec == Spec /\ WF_vars(Agent)

-----------------------------------------------------------------------------
(***************************************************************************)
(* What must hold.                                                         *)
(***************************************************************************)

\* A process is never accounted to another container: whatever the
\* interleaving of forks, exits and add_pids, the monitoring group a process
\* is in is named after the container that owns it.
NoForeignProcess ==
  \A p \in Pids : rmid[p] # NoOne => owner[p] = rmid[p]

\* Control group container c was last put in by this iteration.
PlacedIn(c) == IF c \in todo THEN resgroup[c] ELSE target[c]

\* What sync and perform_allocations do for one container is not undone for
\* another one later in the iteration: unless its processes came or went
\* while add_pids was writing, a container has all of them in its control
\* group and in its monitoring group.
PlacedUnlessRaced ==
  \A c \in Containers \ raced :
    IsPlaced(c) => \A p \in get_pids(c) : clos[p] = PlacedIn(c) /\ rmid[p] = c

\* perform_allocations finds the group it moves a container from, whatever
\* moves of the same changeset came before it.
MoveSourceExists ==
  /\ pc = "remove_source" => Exists(resgroup[cur])
  /\ pc = "perform" => \A c \in todo : Exists(resgroup[c])

\* A control group removed by a move held the monitoring group of the moved
\* container and nobody else's.
RemovedSourceIsOwn ==
  [][pc = "remove_source" => \A g \in groups \ groups' : mon[g] = {cur}]_vars

\* A step of the environment or the agent leaves the processes that were there
\* before in their control groups.
KeepsGroup(p) == owner'[p] = owner[p] => clos'[p] = clos[p]

\* c's processes are all in one control group, and in no other one is there a
\* monitoring group of c.
WhollyIn(c, g) ==
  /\ ~Taskless(g, c)
  /\ \A p \in get_pids(c) : clos[p] = g
  /\ \A h \in AllGroups \ {g} : c \notin mon[h]

\* "If the agent is restarted, then already applied allocations will not be
\* reset" (docs/allocation.rst), for a container that the previous agent had
\* wholly in one group: the first sync reads the group back.
RestartKeepsWholeGroups ==
  [][recovering =>
       \A p \in Pids : WhollyIn(owner[p], clos[p]) => KeepsGroup(p)]_vars

\* Nobody but the agent acts from some point on.  It may still die of what it
\* finds, and is then started again.
OnlyTheAgentActs == <>[][Agent]_vars

\* The agent does not end of OutOfClosidsException again and again.  It does
\* for good when the groups asked for and the root group are more than the
\* CLOSIDs, and when a control group that clean_taskless_groups emptied without
\* dropping it holds the CLOSID a move needs.
ClosidsSuffice == <>[](pc # "enospc")

\* Whatever happened before (kills between any two writes, races, stale
\* groups, moves from group to group cut short), once it is left alone the
\* agent brings every process of a listed container to the control group the
\* allocator asks for, and keeps it there over the syncs that follow.  For an
\* allocator with one answer per input, as long as there are CLOSIDs.
AllocationsSettle ==
  OnlyTheAgentActs /\ ClosidsSuffice =>
    <>[](\A alloc \in Allocator(listed) : \A c \in DOMAIN alloc :
           \A p \in get_pids(c) : clos[p] = alloc[c])

\* The monitoring groups of a container that is gone, RMIDs the platform has
\* few of, are freed in the end, wherever the agent died in the meantime.
DeadContainersLeave ==
  OnlyTheAgentActs =>
    \A c \in Containers :
      <>[](c \notin listed /\ get_pids(c) = {}
             => \A g \in AllGroups : c \notin mon[g])

-----------------------------------------------------------------------------
(***************************************************************************)
(* What the repository says of this code and the code does not do.         *)
(***************************************************************************)

\* The same sentence of docs/allocation.rst for every process, whatever the
\* agent was doing when it ended: the first sync leaves running processes in
\* the control groups they are in.
RestartKeepsAllocations ==
  [][recovering => \A p \in Pids : KeepsGroup(p)]_vars

=============================================================================
