----------------------- MODULE ContainerManagerProofs -----------------------
(***************************************************************************)
(* Proofs about ContainerManager, for any containers, processes, groups,   *)
(* CLOSIDs and allocator.                                                  *)
(*                                                                         *)
(* The inductive invariant IInv has one part per thing the agent relies on *)
(* and the kernel does not promise: what add_pids knows of the pids it     *)
(* writes (Snapshot), how the directories and the processes of resctrl fit *)
(* together (Coherent), which groups the agent's own loops have made       *)
(* (Directories), where the processes are (Placement), and what a          *)
(* restarted agent starts from (Recovery).                                 *)
(***************************************************************************)
EXTENDS ContainerManager, TLAPS

\* add_pids writes pids of one container; those of them that still run are
\* that container's, however long the list has been held.
Snapshot ==
  /\ left \subseteq pids
  /\ \A p \in pids : owner[p] \in {cur, NoOne}
  /\ pc \notin AddPids => pids = {}
  /\ pc \in AddPids \cup {"remove_source"} => cur \in Containers \ todo
  /\ pc \notin AddPids \cup {"remove_source"} => cur = NoOne

\* A process is in a monitoring group of its control group, and that one is
\* named after the owner; a monitoring group is in a control group that exists.
Coherent ==
  /\ \A p \in Pids : owner[p] = NoOne => clos[p] = Root /\ rmid[p] = NoOne
  /\ \A p \in Pids :
       rmid[p] # NoOne => rmid[p] = owner[p] /\ rmid[p] \in mon[clos[p]]
  /\ \A g \in AllGroups : mon[g] # {} => Exists(g)
  /\ pc \in AddPids => Exists(target[cur])

InSync == pc = "sync" \/ (pc \in AddPids /\ ~Moving(cur))

InPerform ==
  pc \in {"perform", "remove_source"} \/ (pc \in AddPids /\ Moving(cur))

\* sync makes every container's monitoring group in the group it records as
\* the container's; perform_allocations meets it there when its turn comes.
Directories ==
  /\ InSync => \A c \in containers \ (todo \cup {cur}) :
                 resgroup[c] = target[c] /\ c \in mon[resgroup[c]]
  /\ pc = "write_mon" => cur \in mon[target[cur]]
  /\ pc = "alloc" => /\ todo = {} /\ target = resgroup
                     /\ \A c \in containers : c \in mon[resgroup[c]]
  /\ InPerform => \A c \in Containers :
                    c \in todo \/ c = cur => Moving(c) /\ c \in mon[resgroup[c]]

\* Unless a process came or went, add_pids moves all of them.
Placement ==
  /\ PlacedUnlessRaced
  /\ pc \in AddPids /\ cur \notin raced =>
       /\ get_pids(cur) = pids
       /\ pc = "write_ctrl" => \A p \in pids \ left : clos[p] = target[cur]
       /\ pc = "write_mon" => \A p \in pids : clos[p] = target[cur]
       /\ pc = "write_mon" => \A p \in pids \ left : rmid[p] = cur

\* A restarted agent has no containers to clean up after, and syncs a container
\* to a group that has its monitoring group if there is any.  The relation its
\* clean-up works from misses no monitoring group.
Recovery ==
  /\ pc \in Down => containers = {} /\ ~recovering
  /\ pc = "clean" => \A g \in AllGroups : mon[g] \subseteq relation[g]
  /\ recovering =>
       /\ pc \in {"idle", "cleanup", "clean", "stop", "refresh"} \/ InSync
       /\ pc = "idle" => containers = {}
       /\ pc \in {"cleanup", "clean", "stop", "refresh"} => todo = {}
       /\ pc \in {"cleanup", "clean", "refresh"} => refresh = {}
       /\ pc = "refresh" \/ InSync =>
            \A c \in Containers, g \in AllGroups :
              c \in mon[g] => c \in mon[target[c]]

IInv ==
  TypeOK /\ Snapshot /\ Coherent /\ Directories /\ Placement /\ Recovery
-----------------------------------------------------------------------------
(***************************************************************************)
(* IInv holds initially and every step preserves it.                       *)
(***************************************************************************)

\* Before the agent's first iteration all directories and loops are empty.
LEMMA InitIInv == Init => IInv
BY ConstantsAssumption
DEF Init, ResctrlInit, IInv, TypeOK, ResctrlTypeOK, Snapshot, Coherent,
    Directories, Placement, Recovery, InSync, InPerform, PlacedUnlessRaced,
    IsPlaced, AllGroups, Steps, Down, AddPids, Exists, NoRelation

\* Types are preserved.  IInv is needed where add_pids and remove_source use
\* cur as a container.
LEMMA TypeOKStep == IInv /\ [Next]_vars => TypeOK'
<1> SUFFICES ASSUME IInv, [Next]_vars PROVE TypeOK'
    OBVIOUS
<1> USE ConstantsAssumption
    DEF IInv, TypeOK, ResctrlTypeOK, AllGroups, Steps, Down, AddPids,
        NoRelation, fsVars, taskVars, loopVars, addVars, histVars
<1>1. CASE UNCHANGED vars
    BY <1>1 DEF vars
<1>2. ASSUME NEW c \in Containers, TaskListed(c) PROVE TypeOK'
    BY <1>2 DEF TaskListed
<1>3. ASSUME NEW c \in Containers, TaskUnlisted(c) PROVE TypeOK'
    BY <1>3 DEF TaskUnlisted
<1>4. ASSUME NEW c \in Containers, SubcgroupsChange(c) PROVE TypeOK'
    BY <1>4 DEF SubcgroupsChange
<1>5. ASSUME NEW c \in Containers, NEW p \in Pids, Exec(c, p) PROVE TypeOK'
    BY <1>5 DEF Exec
<1>6. ASSUME NEW p \in Pids, NEW q \in Pids, Fork(p, q) PROVE TypeOK'
    BY <1>6 DEF Fork
<1>7. ASSUME NEW p \in Pids, Exit(p) PROVE TypeOK'
    BY <1>7 DEF Exit
<1>8. CASE get_tasks
    BY <1>8 DEF get_tasks
<1>9. ASSUME NEW c \in Containers, cleanup(c) PROVE TypeOK'
    BY <1>9 DEF cleanup, remove, RmdirCtrlGroup, RmdirMonGroup
<1>10. ASSUME NEW c \in Containers, cleanup_raises(c) PROVE TypeOK'
    BY <1>10 DEF cleanup_raises, Dies
<1>11. ASSUME NEW c \in Containers, refresh_subcontainers(c) PROVE TypeOK'
    BY <1>11 DEF refresh_subcontainers, remove, RmdirCtrlGroup, RmdirMonGroup
<1>12. CASE read_relation
    BY <1>12 DEF read_relation
<1>13. CASE begin_sync
    BY <1>13 DEF begin_sync
<1>14. ASSUME NEW c \in Containers, add_pids(c) PROVE TypeOK'
    BY <1>14 DEF add_pids, set_resgroup, get_pids
<1>15. ASSUME NEW c \in Containers, add_pids_raises(c) PROVE TypeOK'
    BY <1>15 DEF add_pids_raises, Dies
<1>16. ASSUME NEW p \in Pids, write_ctrl(p) PROVE TypeOK'
    BY <1>16 DEF write_ctrl, WriteCtrlTask, Snapshot
<1>17. ASSUME NEW p \in Pids, write_mon(p) PROVE TypeOK'
    BY <1>17 DEF write_mon, WriteMonTask
<1>18. CASE make_mon_group
    BY <1>18 DEF make_mon_group, Snapshot
<1>19. CASE added
    BY <1>19 DEF added
<1>20. CASE measure
    BY <1>20 DEF measure
<1>21. CASE skip_iteration
    BY <1>21 DEF skip_iteration
<1>22. CASE allocate
    BY <1>22, AllocatorAssumption DEF allocate, RdtAllocations
<1>23. CASE ignore_allocations
    BY <1>23 DEF ignore_allocations
<1>24. CASE remove_source
    BY <1>24 DEF remove_source, remove, RmdirCtrlGroup, RmdirMonGroup, Snapshot
<1>25. CASE end_iteration
    BY <1>25 DEF end_iteration
<1>26. CASE finish
    BY <1>26 DEF finish
<1>27. CASE stopped
    BY <1>27 DEF stopped, Dies
<1>28. CASE Killed
    BY <1>28 DEF Killed, Dies
<1>29. CASE start
    BY <1>29 DEF start
<1>30. CASE cleanup_resctrl
    BY <1>30 DEF cleanup_resctrl, reset_mon_group, reset_ctrl_group,
                 RmdirCtrlGroup, RmdirMonGroup
<1>31. CASE resctrl_reset
    BY <1>31 DEF resctrl_reset
<1>32. ASSUME NEW g \in AllGroups, NEW c \in Containers,
              clean_taskless_groups(g, c)
       PROVE  TypeOK'
    BY <1>32 DEF clean_taskless_groups, clean_taskless_group, RmdirCtrlGroup,
                 RmdirMonGroup
<1>33. CASE reread_relation
    BY <1>33 DEF reread_relation, CtrlGroupOf
<1> QED
    BY <1>1, <1>2, <1>3, <1>4, <1>5, <1>6, <1>7, <1>8, <1>9, <1>10, <1>11,
       <1>12, <1>13, <1>14, <1>15, <1>16, <1>17, <1>18, <1>19, <1>20, <1>21,
       <1>22, <1>23, <1>24, <1>25, <1>26, <1>27, <1>28, <1>29, <1>30, <1>31,
       <1>32, <1>33
    DEF Next, Environment, Agent, sync_containers_state, AddPidsStep,
        iterate_body

\* Outside the loops of sync and perform_allocations three parts of IInv say
\* nothing but that add_pids is not running.
LEMMA OutsideLoops ==
  ASSUME pc' \notin AddPids \cup {"sync", "alloc", "perform", "remove_source"},
         cur' = NoOne, pids' = {}, left' = {}
  PROVE  Snapshot' /\ Directories' /\ Placement'
BY DEF Snapshot, Directories, Placement, InSync, InPerform, PlacedUnlessRaced,
       IsPlaced, AddPids

\* rmdir leaves no process in a group that is gone, and no monitoring group
\* without its control group.
LEMMA RmdirKeepsCoherence ==
  ASSUME IInv, NEW g \in AllGroups, NEW c \in Containers,
         (g # Root /\ RmdirCtrlGroup(g)) \/ RmdirMonGroup(g, c),
         owner' = owner, pc' \notin AddPids
  PROVE  Coherent'
<1> USE DEF IInv, TypeOK, ResctrlTypeOK, Coherent, Exists, AllGroups
<1>1. CASE g # Root /\ RmdirCtrlGroup(g)
    BY <1>1 DEF RmdirCtrlGroup
<1>2. CASE RmdirMonGroup(g, c)
    BY <1>2 DEF RmdirMonGroup
<1> QED
    BY <1>1, <1>2

\* Tasks and processes come and go.  A pid on add_pids' list is not reused,
\* and a fork starts where its parent is.
LEMMA EnvironmentIInv ==
  ASSUME IInv, TypeOK', Environment
  PROVE  IInv'
<1> USE ConstantsAssumption
    DEF IInv, TypeOK, ResctrlTypeOK, AllGroups, Steps, Down, AddPids,
           NoRelation, fsVars, taskVars, loopVars, addVars, histVars
<1>1. ASSUME NEW c \in Containers, TaskListed(c) PROVE IInv'
    BY <1>1 DEF TaskListed, Snapshot, Coherent, Directories, Placement,
           Recovery, InSync, InPerform, Moving, PlacedUnlessRaced, IsPlaced,
           PlacedIn, get_pids, Exists
<1>2. ASSUME NEW c \in Containers, TaskUnlisted(c) PROVE IInv'
    BY <1>2 DEF TaskUnlisted, Snapshot, Coherent, Directories, Placement,
           Recovery, InSync, InPerform, Moving, PlacedUnlessRaced, IsPlaced,
           PlacedIn, get_pids, Exists
<1>3. ASSUME NEW c \in Containers, SubcgroupsChange(c) PROVE IInv'
    BY <1>3 DEF SubcgroupsChange, Snapshot, Coherent, Directories, Placement,
           Recovery, InSync, InPerform, Moving, PlacedUnlessRaced, IsPlaced,
           PlacedIn, get_pids, Exists
<1>4. ASSUME NEW c \in Containers, NEW p \in Pids, Exec(c, p) PROVE IInv'
  <2>1. Snapshot'
    BY <1>4 DEF Exec, Snapshot, get_pids, BeingAdded
  <2>2. Coherent'
    BY <1>4 DEF Exec, Snapshot, Coherent, Exists, BeingAdded
  <2>3. Directories'
    BY <1>4 DEF Exec, Snapshot, Coherent, Directories, InSync, InPerform,
           Moving, BeingAdded
  <2>4. Placement'
    BY <1>4 DEF Exec, Snapshot, Coherent, Directories, Placement, InSync,
           InPerform, Moving, PlacedUnlessRaced, IsPlaced, PlacedIn, get_pids,
           BeingAdded
  <2>5. Recovery'
    BY <1>4 DEF Exec, Snapshot, Coherent, Recovery, InSync, Moving, BeingAdded
  <2> QED
    BY <2>1, <2>2, <2>3, <2>4, <2>5
<1>5. ASSUME NEW p \in Pids, NEW q \in Pids, Fork(p, q) PROVE IInv'
  <2>1. Snapshot'
    BY <1>5 DEF Fork, Snapshot, get_pids, BeingAdded
  <2>2. Coherent'
    BY <1>5 DEF Fork, Snapshot, Coherent, Exists, BeingAdded
  <2>3. Directories'
    BY <1>5 DEF Fork, Snapshot, Coherent, Directories, InSync, InPerform,
           Moving, BeingAdded
  <2>4. Placement'
    BY <1>5 DEF Fork, Snapshot, Coherent, Directories, Placement, InSync,
           InPerform, Moving, PlacedUnlessRaced, IsPlaced, PlacedIn, get_pids,
           BeingAdded
  <2>5. Recovery'
    BY <1>5 DEF Fork, Snapshot, Coherent, Recovery, InSync, Moving, BeingAdded
  <2> QED
    BY <2>1, <2>2, <2>3, <2>4, <2>5
<1>6. ASSUME NEW p \in Pids, Exit(p) PROVE IInv'
  <2>1. Snapshot'
    BY <1>6 DEF Exit, Snapshot, get_pids, BeingAdded
  <2>2. Coherent'
    BY <1>6 DEF Exit, Snapshot, Coherent, Exists, BeingAdded
  <2>3. Directories'
    BY <1>6 DEF Exit, Snapshot, Coherent, Directories, InSync, InPerform,
           Moving, BeingAdded
  <2>4. Placement'
    BY <1>6 DEF Exit, Snapshot, Coherent, Directories, Placement, InSync,
           InPerform, Moving, PlacedUnlessRaced, IsPlaced, PlacedIn, get_pids,
           BeingAdded
  <2>5. Recovery'
    BY <1>6 DEF Exit, Snapshot, Coherent, Recovery, InSync, Moving, BeingAdded
  <2> QED
    BY <2>1, <2>2, <2>3, <2>4, <2>5
<1> QED
    BY <1>1, <1>2, <1>3, <1>4, <1>5, <1>6 DEF Environment

\* sync_containers_state up to the syncs of the containers.
LEMMA SyncIInv ==
  ASSUME IInv, TypeOK', get_tasks \/ sync_containers_state
  PROVE  IInv'
<1> USE ConstantsAssumption
    DEF IInv, TypeOK, ResctrlTypeOK, AllGroups, Steps, Down, AddPids,
           NoRelation, fsVars, taskVars, loopVars, addVars, histVars
<1>1. CASE get_tasks
  <2>1. Snapshot' /\ Directories' /\ Placement'
    BY <1>1, OutsideLoops DEF get_tasks, Snapshot
  <2>2. Coherent'
    BY <1>1 DEF get_tasks, Coherent, Exists
  <2>3. Recovery'
    BY <1>1 DEF get_tasks, Recovery, InSync
  <2> QED
    BY <2>1, <2>2, <2>3
<1>2. ASSUME NEW c \in Containers, cleanup(c) PROVE IInv'
  <2>1. Snapshot' /\ Directories' /\ Placement'
    BY <1>2, OutsideLoops DEF cleanup, Snapshot
  <2>2. Coherent'
    BY <1>2, RmdirKeepsCoherence DEF cleanup, remove
  <2>3. Recovery'
    BY <1>2 DEF cleanup, Recovery, InSync
  <2> QED
    BY <2>1, <2>2, <2>3
<1>3. ASSUME NEW c \in Containers, refresh_subcontainers(c) PROVE IInv'
  <2>1. Snapshot' /\ Directories' /\ Placement'
    BY <1>3, OutsideLoops DEF refresh_subcontainers, Snapshot
  <2>2. Coherent'
    BY <1>3, RmdirKeepsCoherence DEF refresh_subcontainers, remove
  <2>3. Recovery'
    BY <1>3 DEF refresh_subcontainers, Recovery, InSync
  <2> QED
    BY <2>1, <2>2, <2>3
<1>4. CASE read_relation
  <2>1. Snapshot' /\ Directories' /\ Placement'
    BY <1>4, OutsideLoops DEF read_relation, Snapshot
  <2>2. Coherent'
    BY <1>4 DEF read_relation, Coherent, Exists
  <2>3. Recovery'
    BY <1>4 DEF read_relation, Recovery, InSync
  <2> QED
    BY <2>1, <2>2, <2>3
<1>5. ASSUME NEW g \in AllGroups, NEW c \in Containers,
             clean_taskless_groups(g, c)
      PROVE  IInv'
  <2>1. Snapshot' /\ Directories' /\ Placement'
    BY <1>5, OutsideLoops DEF clean_taskless_groups, Snapshot
  <2>2. CASE (g # Root /\ RmdirCtrlGroup(g)) \/ RmdirMonGroup(g, c)
    <3>1. Coherent'
      BY <1>5, <2>2, RmdirKeepsCoherence DEF clean_taskless_groups
    <3>2. \A h \in AllGroups : mon'[h] \subseteq mon[h]
      BY <2>2 DEF RmdirCtrlGroup, RmdirMonGroup
    <3>3. Recovery'
      BY <1>5, <3>2 DEF clean_taskless_groups, Recovery, InSync
    <3> QED
      BY <2>1, <3>1, <3>3
  <2>3. CASE UNCHANGED fsVars
    <3>1. Coherent'
      BY <1>5, <2>3 DEF clean_taskless_groups, Coherent, Exists
    <3>2. Recovery'
      BY <1>5, <2>3 DEF clean_taskless_groups, Recovery, InSync
    <3> QED
      BY <2>1, <3>1, <3>2
  <2> QED
    BY <1>5, <2>2, <2>3 DEF clean_taskless_groups, clean_taskless_group
<1>6. CASE reread_relation
  <2>1. Snapshot' /\ Directories' /\ Placement'
    BY <1>6, OutsideLoops DEF reread_relation, Snapshot
  <2>2. Coherent'
    BY <1>6 DEF reread_relation, Coherent, Exists
  <2>3. \A c \in Containers, g \in AllGroups :
          c \in mon'[g] => c \in mon'[target'[c]]
    BY <1>6 DEF reread_relation, CtrlGroupOf, Coherent, Exists
  <2>4. Recovery'
    BY <1>6, <2>3 DEF reread_relation, Recovery, InSync
  <2> QED
    BY <2>1, <2>2, <2>4
<1>7. CASE begin_sync
    BY <1>7 DEF begin_sync, Snapshot, Coherent, Directories, Placement,
           Recovery, InSync, InPerform, Moving, PlacedUnlessRaced, IsPlaced,
           PlacedIn, get_pids, Exists
<1>8. ASSUME NEW c \in Containers, cleanup_raises(c) PROVE IInv'
  <2>1. Snapshot' /\ Directories' /\ Placement'
    BY <1>8, OutsideLoops DEF cleanup_raises, Snapshot, Dies
  <2>2. Coherent'
    BY <1>8 DEF cleanup_raises, Dies, Coherent, Exists
  <2>3. Recovery'
    BY <1>8 DEF cleanup_raises, Dies, Recovery, InSync
  <2> QED
    BY <2>1, <2>2, <2>3
<1> QED
    BY <1>1, <1>2, <1>3, <1>4, <1>5, <1>6, <1>7, <1>8 DEF sync_containers_state

\* ResGroup.add_pids.  Only processes of cur are written, so the other
\* containers stay as they were placed.
LEMMA AddPidsIInv ==
  ASSUME IInv, TypeOK', AddPidsStep
  PROVE  IInv'
<1> USE ConstantsAssumption
    DEF IInv, TypeOK, ResctrlTypeOK, AllGroups, Steps, Down, AddPids,
           NoRelation, fsVars, taskVars, loopVars, addVars, histVars
<1>1. ASSUME NEW c \in Containers, add_pids(c) PROVE IInv'
  <2>1. Snapshot'
    BY <1>1 DEF add_pids, Snapshot, get_pids, set_resgroup, Syncing
  <2>2. Coherent'
    BY <1>1 DEF add_pids, Snapshot, Coherent, Exists, set_resgroup, Syncing
  <2>3. Directories'
    BY <1>1 DEF add_pids, Snapshot, Coherent, Directories, InSync, InPerform,
           Moving, set_resgroup, Syncing
  <2>4. Placement'
    BY <1>1 DEF add_pids, Snapshot, Coherent, Directories, Placement, InSync,
           InPerform, Moving, PlacedUnlessRaced, IsPlaced, PlacedIn, get_pids,
           set_resgroup, Syncing
  <2>5. Recovery'
    BY <1>1 DEF add_pids, Snapshot, Coherent, Recovery, InSync, Moving,
           set_resgroup, Syncing
  <2> QED
    BY <2>1, <2>2, <2>3, <2>4, <2>5
<1>2. ASSUME NEW c \in Containers, add_pids_raises(c) PROVE IInv'
  <2>1. Snapshot' /\ Directories' /\ Placement'
    BY <1>2, OutsideLoops DEF add_pids_raises, Snapshot, Dies
  <2>2. Coherent'
    BY <1>2 DEF add_pids_raises, Dies, Coherent, Exists
  <2>3. Recovery'
    BY <1>2 DEF add_pids_raises, Dies, Recovery, InSync
  <2> QED
    BY <2>1, <2>2, <2>3
<1>3. ASSUME NEW p \in Pids, write_ctrl(p) PROVE IInv'
  <2>1. Snapshot'
    BY <1>3 DEF write_ctrl, Snapshot, get_pids, WriteCtrlTask
  <2>2. Coherent'
    BY <1>3 DEF write_ctrl, Snapshot, Coherent, Exists, WriteCtrlTask
  <2>3. Directories'
    BY <1>3 DEF write_ctrl, Snapshot, Coherent, Directories, InSync, InPerform,
           Moving, WriteCtrlTask
  <2>4. Placement'
    BY <1>3 DEF write_ctrl, Snapshot, Coherent, Directories, Placement, InSync,
           InPerform, Moving, PlacedUnlessRaced, IsPlaced, PlacedIn, get_pids,
           WriteCtrlTask
  <2>5. Recovery'
    BY <1>3 DEF write_ctrl, Snapshot, Coherent, Recovery, InSync, Moving,
           WriteCtrlTask
  <2> QED
    BY <2>1, <2>2, <2>3, <2>4, <2>5
<1>4. ASSUME NEW p \in Pids, write_mon(p) PROVE IInv'
  <2>1. Snapshot'
    BY <1>4 DEF write_mon, Snapshot, get_pids, WriteMonTask
  <2>2. Coherent'
    <3>1. rmid'[p] # rmid[p] => /\ rmid'[p] = cur /\ owner[p] = cur
                                /\ cur \in mon[clos[p]]
      BY <1>4 DEF write_mon, Snapshot, Directories, WriteMonTask
    <3>2. \A q \in Pids \ {p} : rmid'[q] = rmid[q]
      BY <1>4 DEF write_mon, WriteMonTask
    <3>3. \A q \in Pids : rmid'[q] # NoOne =>
            rmid'[q] = owner'[q] /\ rmid'[q] \in mon'[clos'[q]]
      BY <1>4, <3>1, <3>2 DEF write_mon, Coherent
    <3>4. \A q \in Pids : owner'[q] = NoOne => rmid'[q] = NoOne
      BY <1>4, <3>1, <3>2 DEF write_mon, Coherent, Snapshot
    <3> QED
      BY <1>4, <3>3, <3>4 DEF write_mon, Coherent, Exists
  <2>3. Directories'
    BY <1>4 DEF write_mon, Snapshot, Coherent, Directories, InSync, InPerform,
           Moving, WriteMonTask
  <2>4. Placement'
    BY <1>4 DEF write_mon, Snapshot, Coherent, Directories, Placement, InSync,
           InPerform, Moving, PlacedUnlessRaced, IsPlaced, PlacedIn, get_pids,
           WriteMonTask
  <2>5. Recovery'
    BY <1>4 DEF write_mon, Snapshot, Coherent, Recovery, InSync, Moving,
           WriteMonTask
  <2> QED
    BY <2>1, <2>2, <2>3, <2>4, <2>5
<1>5. CASE make_mon_group
  <2>1. Snapshot'
    BY <1>5 DEF make_mon_group, Snapshot, get_pids
  <2>2. Coherent'
    BY <1>5 DEF make_mon_group, Snapshot, Coherent, Exists
  <2>3. Directories'
    BY <1>5 DEF make_mon_group, Snapshot, Coherent, Directories, InSync,
           InPerform, Moving
  <2>4. Placement'
    BY <1>5 DEF make_mon_group, Snapshot, Coherent, Directories, Placement,
           InSync, InPerform, Moving, PlacedUnlessRaced, IsPlaced, PlacedIn,
           get_pids
  <2>5. Recovery'
    BY <1>5 DEF make_mon_group, Snapshot, Coherent, Recovery, InSync, Moving
  <2> QED
    BY <2>1, <2>2, <2>3, <2>4, <2>5
<1>6. CASE added
  <2>1. Snapshot'
    BY <1>6 DEF added, Snapshot, get_pids
  <2>2. Coherent'
    BY <1>6 DEF added, Snapshot, Coherent, Exists
  <2>3. Directories'
    BY <1>6 DEF added, Snapshot, Coherent, Directories, InSync, InPerform,
           Moving
  <2>4. Placement'
    BY <1>6 DEF added, Snapshot, Coherent, Directories, Placement, InSync,
           InPerform, Moving, PlacedUnlessRaced, IsPlaced, PlacedIn, get_pids
  <2>5. Recovery'
    BY <1>6 DEF added, Snapshot, Coherent, Recovery, InSync, Moving
  <2> QED
    BY <2>1, <2>2, <2>3, <2>4, <2>5
<1> QED
    BY <1>1, <1>2, <1>3, <1>4, <1>5, <1>6 DEF AddPidsStep

\* The allocator and perform_allocations.  The control group remove_source
\* removes has no monitoring group but cur's, so no process of another
\* container is in it.
LEMMA IterateIInv ==
  ASSUME IInv, TypeOK', iterate_body
  PROVE  IInv'
<1> USE ConstantsAssumption
    DEF IInv, TypeOK, ResctrlTypeOK, AllGroups, Steps, Down, AddPids,
           NoRelation, fsVars, taskVars, loopVars, addVars, histVars
<1>1. CASE measure
  <2>1. Snapshot'
    BY <1>1 DEF measure, Snapshot, get_pids
  <2>2. Coherent'
    BY <1>1 DEF measure, Snapshot, Coherent, Exists
  <2>3. Directories'
    BY <1>1 DEF measure, Snapshot, Coherent, Directories, InSync, InPerform,
           Moving
  <2>4. Placement'
    BY <1>1 DEF measure, Snapshot, Coherent, Directories, Placement, InSync,
           InPerform, Moving, PlacedUnlessRaced, IsPlaced, PlacedIn, get_pids
  <2>5. Recovery'
    BY <1>1 DEF measure, Snapshot, Coherent, Recovery, InSync, Moving
  <2> QED
    BY <2>1, <2>2, <2>3, <2>4, <2>5
<1>2. CASE skip_iteration
  <2>1. Snapshot' /\ Directories' /\ Placement'
    BY <1>2, OutsideLoops DEF skip_iteration, Snapshot
  <2>2. Coherent'
    BY <1>2 DEF skip_iteration, Coherent, Exists
  <2>3. Recovery'
    BY <1>2 DEF skip_iteration, Recovery, InSync
  <2> QED
    BY <2>1, <2>2, <2>3
<1>3. CASE allocate
  <2>1. Snapshot'
    BY <1>3, AllocatorAssumption DEF allocate, Snapshot, get_pids, Valid,
           RdtAllocations
  <2>2. Coherent'
    BY <1>3, AllocatorAssumption DEF allocate, Snapshot, Coherent, Exists,
           Valid, RdtAllocations
  <2>3. Directories'
    BY <1>3, AllocatorAssumption DEF allocate, Snapshot, Coherent, Directories,
           InSync, InPerform, Moving, Valid, RdtAllocations
  <2>4. Placement'
    BY <1>3, AllocatorAssumption DEF allocate, Snapshot, Coherent, Directories,
           Placement, InSync, InPerform, Moving, PlacedUnlessRaced, IsPlaced,
           PlacedIn, get_pids, Valid, RdtAllocations
  <2>5. Recovery'
    BY <1>3, AllocatorAssumption DEF allocate, Snapshot, Coherent, Recovery,
           InSync, Moving, Valid, RdtAllocations
  <2> QED
    BY <2>1, <2>2, <2>3, <2>4, <2>5
<1>4. CASE ignore_allocations
  <2>1. Snapshot' /\ Directories' /\ Placement'
    BY <1>4, OutsideLoops DEF ignore_allocations, Snapshot
  <2>2. Coherent'
    BY <1>4 DEF ignore_allocations, Coherent, Exists
  <2>3. Recovery'
    BY <1>4 DEF ignore_allocations, Recovery, InSync
  <2> QED
    BY <2>1, <2>2, <2>3
<1>5. CASE remove_source
  <2>1. Snapshot'
    BY <1>5 DEF remove_source, Snapshot, get_pids, remove, RmdirCtrlGroup,
           RmdirMonGroup, HasOneMonGroup
  <2>2. Coherent'
    <3>1. CASE HasOneMonGroup(resgroup[cur])
      BY <1>5, <3>1, RmdirKeepsCoherence DEF remove_source, remove, Snapshot
    <3>2. CASE ~HasOneMonGroup(resgroup[cur])
      BY <1>5, <3>2 DEF remove_source, Coherent, Exists
    <3> QED
      BY <3>1, <3>2
  <2>3. Directories'
    BY <1>5 DEF remove_source, Snapshot, Coherent, Directories, InSync,
           InPerform, Moving, remove, RmdirCtrlGroup, RmdirMonGroup,
           HasOneMonGroup
  <2>4. Placement'
    BY <1>5 DEF remove_source, Snapshot, Coherent, Directories, Placement,
           InSync, InPerform, Moving, PlacedUnlessRaced, IsPlaced, PlacedIn,
           get_pids, remove, RmdirCtrlGroup, RmdirMonGroup, HasOneMonGroup
  <2>5. Recovery'
    BY <1>5 DEF remove_source, Snapshot, Coherent, Recovery, InSync, Moving,
           remove, RmdirCtrlGroup, RmdirMonGroup, HasOneMonGroup
  <2> QED
    BY <2>1, <2>2, <2>3, <2>4, <2>5
<1>6. CASE end_iteration
  <2>1. Snapshot' /\ Directories' /\ Placement'
    BY <1>6, OutsideLoops DEF end_iteration, Snapshot
  <2>2. Coherent'
    BY <1>6 DEF end_iteration, Coherent, Exists
  <2>3. Recovery'
    BY <1>6 DEF end_iteration, Recovery, InSync
  <2> QED
    BY <2>1, <2>2, <2>3
<1> QED
    BY <1>1, <1>2, <1>3, <1>4, <1>5, <1>6 DEF iterate_body

\* The agent ends, which forgets everything, or starts.
LEMMA LifecycleIInv ==
  ASSUME IInv, TypeOK', finish \/ stopped \/ Killed \/ start
                        \/ cleanup_resctrl \/ resctrl_reset
  PROVE  IInv'
<1> USE ConstantsAssumption
    DEF IInv, TypeOK, ResctrlTypeOK, AllGroups, Steps, Down, AddPids,
           NoRelation, fsVars, taskVars, loopVars, addVars, histVars
<1>1. CASE finish
  <2>1. Snapshot' /\ Directories' /\ Placement'
    BY <1>1, OutsideLoops DEF finish, Snapshot
  <2>2. Coherent'
    BY <1>1 DEF finish, Coherent, Exists
  <2>3. Recovery'
    BY <1>1 DEF finish, Recovery, InSync
  <2> QED
    BY <2>1, <2>2, <2>3
<1>2. CASE stopped
  <2>1. Snapshot' /\ Directories' /\ Placement'
    BY <1>2, OutsideLoops DEF stopped, Snapshot, Dies
  <2>2. Coherent'
    BY <1>2 DEF stopped, Dies, Coherent, Exists
  <2>3. Recovery'
    BY <1>2 DEF stopped, Dies, Recovery, InSync
  <2> QED
    BY <2>1, <2>2, <2>3
<1>3. CASE Killed
  <2>1. Snapshot' /\ Directories' /\ Placement'
    BY <1>3, OutsideLoops DEF Killed, Snapshot, Dies
  <2>2. Coherent'
    BY <1>3 DEF Killed, Dies, Coherent, Exists
  <2>3. Recovery'
    BY <1>3 DEF Killed, Dies, Recovery, InSync
  <2> QED
    BY <2>1, <2>2, <2>3
<1>4. CASE start
  <2>1. Snapshot' /\ Directories' /\ Placement'
    BY <1>4, OutsideLoops DEF start, Snapshot
  <2>2. Coherent'
    BY <1>4 DEF start, Coherent, Exists
  <2>3. Recovery'
    BY <1>4 DEF start, Recovery, InSync
  <2> QED
    BY <2>1, <2>2, <2>3
<1>5. CASE cleanup_resctrl
  <2>1. Snapshot' /\ Directories' /\ Placement'
    BY <1>5, OutsideLoops DEF cleanup_resctrl, Snapshot
  <2>2. Coherent'
    <3>1. ASSUME NEW c \in Containers, reset_mon_group(c) PROVE Coherent'
      BY <1>5, <3>1, RmdirKeepsCoherence DEF cleanup_resctrl, reset_mon_group
    <3>2. ASSUME NEW g \in Groups, NEW c \in Containers, reset_ctrl_group(g)
          PROVE  Coherent'
      BY <1>5, <3>2, RmdirKeepsCoherence DEF cleanup_resctrl, reset_ctrl_group
    <3>3. ASSUME NEW g \in Groups, Containers = {}, reset_ctrl_group(g)
          PROVE  Coherent'
      BY <1>5, <3>3 DEF cleanup_resctrl, reset_ctrl_group, RmdirCtrlGroup,
                        Coherent, Exists
    <3> QED
      BY <1>5, <3>1, <3>2, <3>3 DEF cleanup_resctrl
  <2>3. Recovery'
    BY <1>5 DEF cleanup_resctrl, Recovery, InSync
  <2> QED
    BY <2>1, <2>2, <2>3
<1>6. CASE resctrl_reset
  <2>1. Snapshot' /\ Directories' /\ Placement'
    BY <1>6, OutsideLoops DEF resctrl_reset, Snapshot
  <2>2. Coherent'
    BY <1>6 DEF resctrl_reset, Coherent, Exists
  <2>3. Recovery'
    BY <1>6 DEF resctrl_reset, Recovery, InSync
  <2> QED
    BY <2>1, <2>2, <2>3
<1> QED
    BY <1>1, <1>2, <1>3, <1>4, <1>5, <1>6

\* Every step preserves IInv.
LEMMA NextIInv == IInv /\ [Next]_vars => IInv'
<1> SUFFICES ASSUME IInv, [Next]_vars PROVE IInv'
    OBVIOUS
<1>1. TypeOK'
    BY TypeOKStep
<1>2. CASE UNCHANGED vars
    BY <1>2
    DEF vars, IInv, TypeOK, ResctrlTypeOK, Snapshot, Coherent, Directories,
        Placement, Recovery, InSync, InPerform, Moving, PlacedUnlessRaced,
        IsPlaced, PlacedIn, get_pids, Exists
<1>3. CASE Environment
    BY <1>1, <1>3, EnvironmentIInv
<1>4. CASE get_tasks \/ sync_containers_state
    BY <1>1, <1>4, SyncIInv
<1>5. CASE AddPidsStep
    BY <1>1, <1>5, AddPidsIInv
<1>6. CASE iterate_body
    BY <1>1, <1>6, IterateIInv
<1>7. CASE finish \/ stopped \/ Killed \/ start \/ cleanup_resctrl
             \/ resctrl_reset
    BY <1>1, <1>7, LifecycleIInv
<1> QED
    BY <1>2, <1>3, <1>4, <1>5, <1>6, <1>7 DEF Next, Agent

\* IInv is an invariant.
THEOREM Invariance == Spec => []IInv
<1>1. Init => IInv
    BY InitIInv
<1>2. IInv /\ [Next]_vars => IInv'
    BY NextIInv
<1> QED
    BY <1>1, <1>2, PTL DEF Spec

-----------------------------------------------------------------------------
(***************************************************************************)
(* The theorems.                                                           *)
(***************************************************************************)

\* Every variable keeps its type.
THEOREM TypeCorrect == Spec => []TypeOK
<1>1. IInv => TypeOK
    BY DEF IInv
<1> QED
    BY <1>1, Invariance, PTL

\* No process is ever in the monitoring group of another container, whatever
\* the interleaving of add_pids with forks, exits and restarts of the agent.
THEOREM NeverForeign == Spec => []NoForeignProcess
<1>1. IInv => NoForeignProcess
    BY DEF IInv, Coherent, NoForeignProcess
<1> QED
    BY <1>1, Invariance, PTL

\* A container whose processes did not come or go while add_pids wrote them is
\* wholly in its control and monitoring group for the rest of the iteration.
THEOREM PlacementHolds == Spec => []PlacedUnlessRaced
<1>1. IInv => PlacedUnlessRaced
    BY DEF IInv, Placement
<1> QED
    BY <1>1, Invariance, PTL

\* The group perform_allocations moves a container from is there when
\* get_mon_groups lists it.
THEOREM MoveSourcesExist == Spec => []MoveSourceExists
<1>1. ASSUME IInv, NEW c \in Containers, c \in mon[resgroup[c]]
      PROVE  Exists(resgroup[c])
    BY <1>1 DEF IInv, TypeOK, Coherent
<1>2. IInv => MoveSourceExists
    BY <1>1
    DEF IInv, TypeOK, Directories, InPerform, MoveSourceExists, Snapshot
<1> QED
    BY <1>2, Invariance, PTL

\* A move removes no control group but the one that held the moved container's
\* monitoring group alone.
THEOREM MovesRemoveTheirOwn == Spec => RemovedSourceIsOwn
<1>1. IInv /\ [Next]_vars =>
        [pc = "remove_source" =>
           \A g \in groups \ groups' : mon[g] = {cur}]_vars
  <2> SUFFICES ASSUME IInv, Next, pc = "remove_source",
                      NEW g \in groups \ groups'
               PROVE  mon[g] = {cur}
      BY DEF vars
  <2>1. cur \in mon[resgroup[cur]]
      BY DEF IInv, Snapshot, Directories, InPerform
  <2>2. CASE remove_source
      BY <2>1, <2>2
      DEF remove_source, remove, RmdirCtrlGroup, RmdirMonGroup, HasOneMonGroup,
          fsVars
  <2>3. CASE ~remove_source
      BY <2>3
      DEF Next, Environment, TaskListed, TaskUnlisted, SubcgroupsChange, Exec,
          Fork, Exit, Agent, get_tasks, sync_containers_state, cleanup,
          cleanup_raises, refresh_subcontainers, read_relation,
          clean_taskless_groups, reread_relation, begin_sync,
          AddPidsStep, AddPids, add_pids, add_pids_raises, write_ctrl,
          write_mon, make_mon_group, added, iterate_body, measure,
          skip_iteration, allocate, ignore_allocations, end_iteration, finish,
          stopped, Killed, start, cleanup_resctrl, resctrl_reset, Down, fsVars
  <2> QED
      BY <2>2, <2>3
<1> QED
    BY <1>1, Invariance, PTL DEF Spec, RemovedSourceIsOwn

\* A restarted agent that may not reset resctrl leaves the processes of a
\* container that was wholly in one group where they are.
THEOREM RestartsKeepWholeGroups == Spec => RestartKeepsWholeGroups
<1>1. IInv /\ [Next]_vars =>
        [recovering => \A p \in Pids :
           WhollyIn(owner[p], clos[p]) => KeepsGroup(p)]_vars
  <2> SUFFICES ASSUME IInv, Next, recovering, NEW p \in Pids,
                      WhollyIn(owner[p], clos[p]), owner'[p] = owner[p]
               PROVE  clos'[p] = clos[p]
      BY DEF vars, KeepsGroup
  <2> USE ConstantsAssumption
      DEF IInv, TypeOK, ResctrlTypeOK, fsVars
  <2>1. clos[p] # Root => owner[p] \in mon[clos[p]]
      BY DEF WhollyIn, Taskless, Coherent
  <2>2. CASE Environment
      BY <2>2 DEF Environment, TaskListed, TaskUnlisted, SubcgroupsChange, Exec,
                  Fork, Exit
  <2>3. ASSUME NEW g \in AllGroups, NEW c \in Containers,
               clean_taskless_groups(g, c)
        PROVE  clos'[p] = clos[p]
    <3>1. CASE RmdirCtrlGroup(g) /\ g # Root /\ Taskless(g, c)
               /\ relation[g] = {c}
      <4>1. clos[p] = g => mon[g] \subseteq {c} /\ owner[p] \in mon[g]
          BY <2>1, <2>3, <3>1 DEF clean_taskless_groups, Recovery
      <4>2. clos[p] # g
          BY <3>1, <4>1 DEF WhollyIn
      <4> QED
          BY <3>1, <4>2 DEF RmdirCtrlGroup
    <3>2. CASE RmdirMonGroup(g, c) \/ UNCHANGED fsVars
        BY <3>2 DEF RmdirMonGroup
    <3> QED
        BY <2>3, <3>1, <3>2 DEF clean_taskless_groups, clean_taskless_group
  <2>4. ASSUME NEW q \in Pids, write_ctrl(q) PROVE clos'[p] = clos[p]
    <3>1. CASE q # p \/ owner[p] = NoOne
        BY <2>4, <3>1 DEF write_ctrl, WriteCtrlTask
    <3>2. CASE q = p /\ owner[p] # NoOne
      <4>1. owner[p] = cur /\ cur \in Containers
          BY <2>4, <3>2 DEF write_ctrl, Snapshot, AddPids
      <4>2. cur \in mon[clos[p]]
          BY <4>1 DEF WhollyIn, Taskless, Coherent
      <4>3. cur \in mon[target[cur]]
          BY <2>4, <4>1, <4>2 DEF write_ctrl, Recovery, InSync, AddPids
      <4>4. target[cur] = clos[p]
          BY <4>1, <4>3 DEF WhollyIn
      <4> QED
          BY <2>4, <3>2, <4>4 DEF write_ctrl, WriteCtrlTask
    <3> QED
        BY <3>1, <3>2
  <2>5. CASE /\ ~Environment
             /\ ~\E g \in AllGroups, c \in Containers :
                   clean_taskless_groups(g, c)
             /\ ~\E q \in Pids : write_ctrl(q)
    <3>1. pc \notin Down \cup {"remove_source", "reset"}
        BY DEF Recovery, InSync, AddPids, Down, Snapshot
    <3>2. \A c \in Containers : ~cleanup(c) /\ ~refresh_subcontainers(c)
        BY DEF Recovery, cleanup, refresh_subcontainers
    <3> QED
        BY <2>5, <3>1, <3>2
        DEF Next, Agent, get_tasks, sync_containers_state, cleanup_raises,
            read_relation, reread_relation, begin_sync, AddPidsStep, add_pids,
            add_pids_raises, write_mon,
            make_mon_group, added, iterate_body, measure, skip_iteration,
            allocate, ignore_allocations, remove_source, end_iteration, finish,
            stopped, Killed, start, cleanup_resctrl, resctrl_reset
  <2> QED
      BY <2>2, <2>3, <2>4, <2>5
<1> QED
    BY <1>1, Invariance, PTL DEF Spec, RestartKeepsWholeGroups

=============================================================================
