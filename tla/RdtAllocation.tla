--------------------------- MODULE RdtAllocation ---------------------------
(***************************************************************************)
(* What becomes of the rows of schemata an allocator asks for: validation, *)
(* calculate_changeset (AllocationsDict, RDTAllocationValue) and           *)
(* perform_allocations with RDTGroups, iteration after iteration, with     *)
(* control groups that are made and removed on the way.                    *)
(*                                                                         *)
(* ContainerManager models what races with the agent; here a container is  *)
(* one process that stays, and add_pids is one step.  A row stands for all *)
(* domains of a resource.                                                  *)
(***************************************************************************)
EXTENDS Resctrl

CONSTANTS
  NoName,       \* RDTAllocation.name of None
  Resources,    \* rows of schemata: L3, MB
  Full,         \* Full[r]: value of row r in a new control group
  Rounded(_, _),\* Rounded(r, v): what the kernel makes of v in row r
  Requests      \* the RDTAllocation objects an allocator may return

NoRow == 0      \* an l3 or mb of None; no valid row has this value

ASSUME RequestsAssumption ==
  /\ Containers \subseteq Groups
  /\ Pids = Containers
  /\ NoName \notin AllGroups /\ NoOne \notin AllGroups
  /\ Full \in [Resources -> Nat \ {NoRow}]
  /\ \A r \in Resources : Rounded(r, Full[r]) = Full[r]
  /\ Requests \subseteq [name : AllGroups \cup {NoName},
                         rows : [Resources -> Nat]]
  /\ \A request \in Requests, r \in Resources :
       LET row == Rounded(r, request.rows[r])
       IN  row \in Nat /\ Rounded(r, row) = row

VARIABLES
  schemata,     \* schemata[g][r]: row r of group g, Full if g is not there
  pc,           \* step of the iteration
  alloc,        \* the RDT part of the allocations returned last
  missing,      \* tasks whose current allocations could not be read
  changeset,    \* allocations_changeset_values, by task
  todo,         \* its tasks that perform_allocations has yet to visit
  cur,          \* the task it is at, or NoOne
  executed,     \* already_executed_resgroup_names of both RDTGroups objects
  faulty        \* something failed in this iteration

iterVars == <<alloc, missing, changeset, todo, cur, executed, faulty>>
vars == <<owner, groups, mon, clos, rmid, schemata, pc, alloc, missing,
          changeset, todo, cur, executed, faulty>>

Empty == [c \in {} |-> NoOne]

NewGroup == [g \in AllGroups |-> Full]

Performing == {"perform", "remove_source", "write"}

\* Which RDTGroups object an AllocationValue refers to: there is one for the
\* new allocations and one for the current ones.
Sides == {"new", "current"}

Change == [side : Sides, name : AllGroups, rows : [Resources -> Nat],
           resgroup : AllGroups, source : AllGroups \cup {NoOne}]

Allocations == UNION {[S -> Requests] : S \in SUBSET Containers}

\* Every variable has a value of its type: in particular the changeset names
\* only tasks with a container, and the loops visit only tasks of the changeset.
TypeOK ==
  /\ ResctrlTypeOK
  /\ schemata \in [AllGroups -> [Resources -> Nat]]
  /\ pc \in {"sync", "alloc"} \cup Performing
  /\ DOMAIN alloc \subseteq Containers
  /\ \A c \in DOMAIN alloc : alloc[c] \in Requests
  /\ missing \in SUBSET Containers
  /\ DOMAIN changeset \subseteq Containers
  /\ \A c \in DOMAIN changeset : changeset[c] \in Change
  /\ todo \in SUBSET DOMAIN changeset
  /\ cur \in DOMAIN changeset \cup {NoOne}
  /\ executed \in SUBSET (Sides \X AllGroups)
  /\ faulty \in BOOLEAN

Init ==
  /\ owner = [p \in Pids |-> p]
  /\ groups = {}
  /\ mon = [g \in AllGroups |-> {}]
  /\ clos = [p \in Pids |-> Root]
  /\ rmid = [p \in Pids |-> NoOne]
  /\ schemata = NewGroup
  /\ pc = "sync"
  /\ alloc = Empty /\ missing = {}
  /\ changeset = Empty /\ todo = {} /\ cur = NoOne
  /\ executed = {}
  /\ faulty = FALSE

-----------------------------------------------------------------------------
(***************************************************************************)
(* The kernel.                                                             *)
(***************************************************************************)

\* Rows of a control group go with its directory.
SchemataOfDirs(dirs) ==
  [g \in AllGroups |-> IF g \in dirs \cup {Root} THEN schemata[g] ELSE Full]

-----------------------------------------------------------------------------
(***************************************************************************)
(* sync_containers_state, with no races: what perform_allocations left of  *)
(* monitoring groups is cleaned, and every container has one, in the       *)
(* control group that its processes are in.                                *)
(***************************************************************************)
sync ==
  /\ pc = "sync"
  /\ pc' = "alloc"
  /\ groups' = groups \ {g \in Groups : \E c \in Containers :
                                          mon[g] = {c} /\ Taskless(g, c)}
  /\ mon' = [g \in AllGroups |-> {c \in Containers : clos[c] = g}]
  /\ rmid' = owner
  /\ schemata' = SchemataOfDirs(groups')
  /\ UNCHANGED <<owner, clos, iterVars>>

-----------------------------------------------------------------------------
(***************************************************************************)
(* _iterate_body: from the allocator's answer to the changeset.            *)
(***************************************************************************)

\* Mutant: no default for the name.
explicit_name(c, request) == request.name

\* RDTAllocationValue.get_resgroup_name.
get_resgroup_name(c, request) ==
  IF request.name = NoName THEN c ELSE request.name

\* Names of control groups in allocations a.
Named(a) == {get_resgroup_name(c, a[c]) : c \in DOMAIN a}

\* RDTGroups.validate; rows that validate_l3_string or normalize_mb_string
\* refuse are not among the Requests.
Valid(a) == Cardinality(Named(a)) <= NumClosids

\* _is_rdt_suballocation_changed: what is asked for against what is read back.
IsChanged(c, request, r) ==
  request.rows[r] \notin {NoRow, schemata[clos[c]][r]}

\* Mutant: only a move is a change.
moves_only(c, request, lost) ==
  c \in lost \/ get_resgroup_name(c, request) # clos[c]

\* calculate_changeset returns something for the task.
HasChange(c, request, lost) ==
  \/ c \in lost
  \/ get_resgroup_name(c, request) # clos[c]
  \/ \E r \in Resources : IsChanged(c, request, r)

\* Mutant: a row is left out of a move if the group the task leaves has it.
change_against_source(c, request, lost) ==
  LET name == get_resgroup_name(c, request)
  IN  [side |-> "new", name |-> name,
       rows |-> [r \in Resources |-> IF IsChanged(c, request, r)
                                       THEN request.rows[r] ELSE NoRow],
       resgroup |-> IF c \in lost THEN clos[c] ELSE name,
       source |-> IF c \in lost \/ name = clos[c] THEN NoOne ELSE clos[c]]

\* RDTAllocationValue.calculate_changeset.  For a task whose current
\* allocations are missing AllocationsDict.calculate_changeset takes the new
\* value as it was made: with the container's present group and no source.
ChangeOf(c, request, lost) ==
  LET name == get_resgroup_name(c, request)
      here == clos[c]
      new(resgroup, source) ==
        [side |-> "new", name |-> name, rows |-> request.rows,
         resgroup |-> resgroup, source |-> source]
  IN  IF c \in lost THEN new(here, NoOne)
      ELSE IF name # here THEN new(name, here)
      ELSE [side |-> "current", name |-> name,
            rows |-> [r \in Resources |-> IF IsChanged(c, request, r)
                                            THEN request.rows[r] ELSE NoRow],
            resgroup |-> here, source |-> NoOne]

allocate ==
  /\ pc = "alloc"
  /\ \E a \in Allocations : \E lost \in SUBSET DOMAIN a :
       /\ Valid(a)
       /\ alloc' = a
       /\ missing' = lost
       /\ todo' = {c \in DOMAIN a : HasChange(c, a[c], lost)}
       /\ changeset' = [c \in todo' |-> ChangeOf(c, a[c], lost)]
       /\ faulty' = (lost # {})
  /\ pc' = "perform"
  /\ UNCHANGED <<owner, fsVars, schemata, cur, executed>>

\* InvalidAllocations, for the number of groups or for a row: nothing of the
\* allocator's answer is performed.
ignore_allocations ==
  /\ pc = "alloc"
  /\ pc' = "sync"
  /\ faulty' = TRUE
  /\ UNCHANGED <<owner, fsVars, schemata, alloc, missing, changeset, todo,
                 cur, executed>>

-----------------------------------------------------------------------------
(***************************************************************************)
(* perform_allocations, task by task in the order of the allocator's dict. *)
(***************************************************************************)
PutIn(c, g) ==
  /\ groups' = groups \cup ({g} \ {Root})
  /\ mon' = [mon EXCEPT ![g] = @ \cup {c}]
  /\ clos' = [clos EXCEPT ![c] = g]
  /\ rmid' = [rmid EXCEPT ![c] = c]

perform_allocations(c) ==
  /\ pc = "perform" /\ c \in todo
  /\ todo' = todo \ {c}
  /\ cur' = c
  /\ \/ /\ changeset[c].source = NoOne
        /\ pc' = "write"
        /\ UNCHANGED fsVars
     \/ /\ changeset[c].source # NoOne
        /\ CanMakeCtrlGroup(changeset[c].resgroup)
        /\ pc' = "remove_source"
        /\ PutIn(c, changeset[c].resgroup)
  /\ UNCHANGED <<owner, schemata, alloc, missing, changeset, executed, faulty>>

remove_source ==
  /\ pc = "remove_source"
  /\ LET source == changeset[cur].source
     IN  IF HasOneMonGroup(source)
           THEN remove(source, cur)
           ELSE UNCHANGED fsVars
  /\ schemata' = SchemataOfDirs(groups')
  /\ pc' = "write"
  /\ UNCHANGED <<owner, iterVars>>

\* RDTGroups.should_perform_schemata_write.
should_perform_schemata_write(c) ==
  <<changeset[c].side, changeset[c].name>> \notin executed

\* Rows of the change, unless the kernel refuses one: write_schemata logs the
\* error and goes on.  The agent's end between two rows leaves what a refusal
\* of the second one followed by the agent's end does.
write_schemata ==
  /\ pc = "write"
  /\ LET change == changeset[cur]
         lines == {r \in Resources : change.rows[r] # NoRow}
         wanted == IF should_perform_schemata_write(cur) THEN lines ELSE {}
     IN  \E refused \in SUBSET wanted :
           /\ schemata' =
                [schemata EXCEPT ![change.resgroup] =
                   [r \in Resources |->
                      IF r \in wanted \ refused
                        THEN Rounded(r, change.rows[r]) ELSE @[r]]]
           /\ faulty' = (faulty \/ refused # {})
           /\ executed' = executed \cup {<<change.side, change.name>>}
  /\ pc' = "perform"
  /\ cur' = NoOne
  /\ UNCHANGED <<owner, fsVars, alloc, missing, changeset, todo>>

end_iteration ==
  /\ pc = "perform" /\ todo = {}
  /\ pc' = "sync"
  /\ missing' = {} /\ changeset' = Empty /\ executed' = {}
  /\ UNCHANGED <<owner, fsVars, schemata, alloc, todo, cur, faulty>>

-----------------------------------------------------------------------------
(***************************************************************************)
(* The agent ends, of ENOSPC in add_pids or of anything else, and is       *)
(* started: _initialize_rdt gives the root group its default rows back.    *)
(* With remove_all_resctrl_groups it would go on from Init.                *)
(***************************************************************************)
restart ==
  /\ schemata' = [schemata EXCEPT ![Root] = Full]
  /\ pc' = "sync"
  /\ missing' = {} /\ changeset' = Empty /\ executed' = {}
  /\ todo' = {} /\ cur' = NoOne
  /\ faulty' = TRUE
  /\ UNCHANGED <<owner, fsVars, alloc>>

Next ==
  \/ sync \/ allocate \/ ignore_allocations
  \/ \E c \in Containers : perform_allocations(c)
  \/ remove_source \/ write_schemata \/ end_iteration \/ restart

Spec == Init /\ [][Next]_vars

\* The agent's loop does not stop, and its supervisor restarts it.
FairSpec == Spec /\ WF_vars(Next)

-----------------------------------------------------------------------------
(***************************************************************************)
(* What must hold.                                                         *)
(***************************************************************************)

\* Every task is in the group named for it, and that group has the rows asked
\* for.
Applied(a) ==
  \A c \in DOMAIN a :
    LET name == get_resgroup_name(c, a[c])
    IN  /\ clos[c] = name
        /\ \A r \in Resources :
             a[c].rows[r] # NoRow =>
               schemata[name][r] = Rounded(r, a[c].rows[r])

SameGroup(a, c, d) == get_resgroup_name(c, a[c]) = get_resgroup_name(d, a[d])

\* Tasks of one group ask for the same rows.
Uniform(a) ==
  \A c, d \in DOMAIN a : SameGroup(a, c, d) => a[c].rows = a[d].rows

\* Tasks of one group do not ask for different values of a row; "optional -
\* when not provided does not change the existing allocation".
Compatible(a) ==
  \A c, d \in DOMAIN a : SameGroup(a, c, d) =>
    \A r \in Resources :
      NoRow \in {a[c].rows[r], a[d].rows[r]} \/ a[c].rows[r] = a[d].rows[r]

\* The kernel takes the rows as they are.
Aligned(a) ==
  \A c \in DOMAIN a, r \in Resources :
    a[c].rows[r] # NoRow => Rounded(r, a[c].rows[r]) = a[c].rows[r]

\* "Desired allocations that will be applied in the current iteration"
\* (docs/allocation.rst), if the tasks that share a group ask for the same: in
\* whatever order the tasks are visited, groups emptied by one task and made
\* again for another and writes skipped by RDTGroups included.
AppliedWhenUniform ==
  pc = "perform" /\ todo = {} /\ ~faulty /\ Uniform(alloc) => Applied(alloc)

\* A task that is omitted stays where it is, and so do the rows of its group
\* unless the allocator names that group for another task.
Spares(c) ==
  /\ clos'[c] = clos[c]
  /\ clos[c] \notin Named(alloc) => schemata'[clos[c]] = schemata[clos[c]]

\* "For omitted tasks, allocations will not be affected"
\* (docs/allocation.rst), when all current allocations could be read.
OmittedUnaffectedUnlessMissing ==
  [][missing = {} /\ {pc, pc'} \subseteq Performing =>
       \A c \in Containers \ DOMAIN alloc : Spares(c)]_vars

\* The allocator has settled on an answer, and nothing fails any more.
Settled == <>[][UNCHANGED alloc]_vars /\ <>[](~faulty)

\* Whatever was refused, left half done or skipped before, an answer whose
\* rows do not contradict each other is applied after some iterations and
\* stays applied, if the kernel takes its values as they are.
RowsConverge ==
  Settled /\ <>[](Compatible(alloc) /\ Aligned(alloc)) => <>[]Applied(alloc)

=============================================================================
