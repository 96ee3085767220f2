------------------------------ MODULE Resctrl ------------------------------
(***************************************************************************)
(* The resctrl filesystem (/sys/fs/resctrl) and the operations that        *)
(* wca/resctrl.py performs on it.                                          *)
(*                                                                         *)
(* A control group is a directory that owns a CLOSID and a schemata file;  *)
(* a monitoring group is a directory mon_groups/<container> below one.     *)
(* The kernel keeps a (closid, rmid) pair per process.  The root group     *)
(* always exists and owns the first CLOSID.                                *)
(*                                                                         *)
(* The operators named after system calls describe the kernel, as          *)
(* wca/resctrl.py relies on it; the others are translated from the code.   *)
(***************************************************************************)
EXTENDS Naturals, FiniteSets

CONSTANTS
  Containers,   \* container names: the names of monitoring groups
  Pids,         \* process ids
  Groups,       \* names of control groups other than the root one
  Root,         \* the root control group (RESCTRL_ROOT_NAME, '' in the code)
  NoOne,        \* "no container": owner of a free pid, rmid of no mon group
  NumClosids    \* info/L3/num_closids: CLOSIDs of the platform, root's included

ASSUME ConstantsAssumption ==
  /\ Root \notin Groups
  /\ NoOne \notin Containers
  /\ NumClosids \in Nat \ {0}
  /\ IsFiniteSet(Groups)

VARIABLES
  owner,        \* owner[p]: container whose cgroup holds process p, or NoOne
  groups,       \* control group directories that exist, besides the root
  mon,          \* mon[g]: names of the directories in g/mon_groups
  clos,         \* clos[p]: control group of process p
  rmid          \* rmid[p]: monitoring group of p in clos[p]; NoOne if none

fsVars == <<groups, mon, clos, rmid>>

AllGroups == Groups \cup {Root}

ResctrlTypeOK ==
  /\ owner \in [Pids -> Containers \cup {NoOne}]
  /\ groups \in SUBSET Groups
  /\ mon \in [AllGroups -> SUBSET Containers]
  /\ clos \in [Pids -> AllGroups]
  /\ rmid \in [Pids -> Containers \cup {NoOne}]

ResctrlInit ==
  /\ owner = [p \in Pids |-> NoOne]
  /\ groups = {}
  /\ mon = [g \in AllGroups |-> {}]
  /\ clos = [p \in Pids |-> Root]
  /\ rmid = [p \in Pids |-> NoOne]

-----------------------------------------------------------------------------
(***************************************************************************)
(* What the code reads.                                                    *)
(***************************************************************************)

\* Mutant: the pids of every cgroup.
get_pids_of_all(c) == {p \in Pids : owner[p] # NoOne}

\* Cgroup.get_pids: the processes of c's cgroup; empty when the cgroup is gone.
get_pids(c) == {p \in Pids : owner[p] = c}

\* os.path.isdir of the control group's directory.
Exists(g) == g \in groups \cup {Root}

\* The tasks file of mon_groups/c in g is empty.
Taskless(g, c) == \A p \in Pids : clos[p] = g => rmid[p] # c

\* Mutant: any number of monitoring groups will do.
HasSomeMonGroup(g) == mon[g] # {}

\* len(get_mon_groups()) == 1: the group holds one monitoring group.
HasOneMonGroup(g) == \E c \in Containers : mon[g] = {c}

\* Mutant: the relation is not consulted.
NotReadBack(dirs, monDirs) == {[c \in Containers |-> Root]}

\* Mutant: no default for a container without a monitoring group.
NoDefaultGroup(dirs, monDirs) ==
  {rel \in [Containers -> AllGroups \cup {NoOne}] :
     \A c \in Containers :
       LET found == {g \in dirs : c \in monDirs[g]}
       IN  IF found = {} THEN rel[c] = NoOne ELSE rel[c] \in found}

(***************************************************************************)
(* read_mon_groups_relation and its inverse container_name_to_ctrl_group,  *)
(* for given directories: a name found in several control groups goes to   *)
(* the one listed last, in whatever order the kernel lists them, and the   *)
(* root group, which is read first, loses to any other.                    *)
(***************************************************************************)
CtrlGroupOf(dirs, monDirs) ==
  {rel \in [Containers -> AllGroups] :
     \A c \in Containers :
       LET found == {g \in dirs : c \in monDirs[g]}
       IN  IF found = {} THEN rel[c] = Root ELSE rel[c] \in found}

-----------------------------------------------------------------------------
(***************************************************************************)
(* System calls.                                                           *)
(***************************************************************************)

\* mkdir of a control group needs a free CLOSID; ENOSPC otherwise.
CanMakeCtrlGroup(g) == Exists(g) \/ Cardinality(groups) + 1 < NumClosids

\* rmdir of a control group: its monitoring groups go with it and its
\* processes return to the root group.
RmdirCtrlGroup(g) ==
  /\ groups' = groups \ {g}
  /\ mon' = [mon EXCEPT ![g] = {}]
  /\ clos' = [p \in Pids |-> IF clos[p] = g THEN Root ELSE clos[p]]
  /\ rmid' = [p \in Pids |-> IF clos[p] = g THEN NoOne ELSE rmid[p]]

\* rmdir of a monitoring group: its processes stay in the control group.
RmdirMonGroup(g, c) ==
  /\ mon' = [mon EXCEPT ![g] = @ \ {c}]
  /\ rmid' = [p \in Pids |->
                IF clos[p] = g /\ rmid[p] = c THEN NoOne ELSE rmid[p]]
  /\ UNCHANGED <<groups, clos>>

\* A pid written to the tasks file of a control group leaves the control
\* group it was in, and every monitoring group.
WriteCtrlTask(g, p) ==
  /\ clos' = [clos EXCEPT ![p] = g]
  /\ rmid' = [rmid EXCEPT ![p] = NoOne]

\* A pid written to the tasks file of a monitoring group of its own control
\* group; any other control group's is refused with EINVAL.
WriteMonTask(c, p) == rmid' = [rmid EXCEPT ![p] = c]

-----------------------------------------------------------------------------
(***************************************************************************)
(* ResGroup.remove(mongroup_name) on control group g.                      *)
(***************************************************************************)

\* get_mon_groups lists a directory that may be gone: FileNotFoundError.
RemoveRaises(g) == ~Exists(g)

\* The last monitoring group takes its control group with it, whoever it
\* belongs to; otherwise the one named is removed, if it is there.
remove(g, c) ==
  \/ /\ g # Root /\ HasOneMonGroup(g)
     /\ RmdirCtrlGroup(g)
  \/ /\ g = Root \/ ~HasOneMonGroup(g)
     /\ RmdirMonGroup(g, c)

(***************************************************************************)
(* clean_taskless_groups, for monitoring group c of g, where relation is   *)
(* what read_mon_groups_relation returned.  mon_groups_to_remove is reset  *)
(* for every monitoring group, so that its length is at most 1: a control  *)
(* group goes only if it has a single monitoring group.                    *)
(***************************************************************************)

\* Mutant: empty monitoring groups are kept.
keep_taskless_group(relation, g, c) == UNCHANGED fsVars

clean_taskless_group(relation, g, c) ==
  \/ /\ Taskless(g, c)
     /\ g # Root /\ relation[g] = {c}
     /\ RmdirCtrlGroup(g)
  \/ /\ Taskless(g, c)
     /\ g = Root \/ relation[g] # {c}
     /\ RmdirMonGroup(g, c)
  \/ ~Taskless(g, c) /\ UNCHANGED fsVars

(***************************************************************************)
(* cleanup_resctrl(..., reset_resctrl=True): rmdir of every monitoring     *)
(* group of the root, then of every control group.                         *)
(***************************************************************************)
reset_mon_group(c) ==
  /\ c \in mon[Root]
  /\ RmdirMonGroup(Root, c)

reset_ctrl_group(g) ==
  /\ mon[Root] = {}
  /\ g \in groups
  /\ RmdirCtrlGroup(g)

=============================================================================
