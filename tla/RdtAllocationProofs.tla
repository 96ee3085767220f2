------------------------ MODULE RdtAllocationProofs ------------------------
(***************************************************************************)
(* Proofs about RdtAllocation, for any containers, groups, CLOSIDs, rows,  *)
(* rounding by the kernel and requests of the allocator.                   *)
(*                                                                         *)
(* The inductive invariant IInv says how the tasks hold on to the          *)
(* directories of their groups (Home), what a change of the changeset may  *)
(* still count on when its turn comes (Pending), and what is settled for a *)
(* task once its turn is over (Finished), even where its write was skipped *)
(* as a repetition (Executed).                                             *)
(***************************************************************************)
EXTENDS RdtAllocation, TLAPS

Name(c) == get_resgroup_name(c, alloc[c])

\* A task's monitoring group keeps its control group from being removed: by
\* sync, and from then on by remove_source.
Home ==
  /\ owner = [p \in Pids |-> p]
  /\ \A g \in AllGroups : mon[g] # {} => Exists(g)
  /\ \A c \in Containers : Exists(clos[c])
  /\ \A c \in Containers : clos[c] # Root => rmid[c] = c /\ c \in mon[clos[c]]
  /\ pc # "sync" => \A c \in Containers : c \in mon[clos[c]]

\* Where the iteration is.
Position ==
  /\ pc \notin Performing => todo = {} /\ executed = {}
  /\ pc \in {"remove_source", "write"} <=> cur # NoOne
  /\ cur \notin todo
  /\ pc \in Performing => DOMAIN changeset \subseteq DOMAIN alloc
  /\ missing # {} => faulty

\* Row r of task c's group is the row asked for, if one is.
HasRow(c, r) ==
  alloc[c].rows[r] # NoRow =>
    schemata[Name(c)][r] = Rounded(r, alloc[c].rows[r])

\* Rows of a group are values that the kernel would take again.
Stored ==
  \A g \in AllGroups, r \in Resources :
    Rounded(r, schemata[g][r]) = schemata[g][r]

\* A change names its task's group; a task that does not move is there.
Targets ==
  pc \in Performing =>
    \A c \in todo \cup ({cur} \ {NoOne}) :
      /\ changeset[c].name = Name(c)
      /\ \A r \in Resources : changeset[c].rows[r] \in {NoRow, alloc[c].rows[r]}
      /\ missing = {} => changeset[c].resgroup = Name(c)

Moves ==
  pc \in Performing =>
    /\ \A c \in todo :
         LET source == changeset[c].source
         IN  IF source = NoOne THEN missing = {} => clos[c] = Name(c)
             ELSE source = clos[c] /\ changeset[c].resgroup # source
                  /\ changeset[c].resgroup = Name(c)
    /\ pc = "remove_source" =>
         /\ changeset[cur].source \in AllGroups
         /\ cur \in mon[changeset[cur].source]
         /\ changeset[cur].source # clos[cur]
         /\ clos[cur] = Name(cur)
    /\ pc = "write" /\ missing = {} => clos[cur] = Name(cur)

\* A row that is left out of a change is there.
Pending ==
  pc \in Performing /\ ~faulty /\ Uniform(alloc) =>
    \A c \in todo \cup ({cur} \ {NoOne}), r \in Resources :
      changeset[c].rows[r] = NoRow /\ alloc[c].rows[r] # NoRow =>
        clos[c] = Name(c) /\ HasRow(c, r)

\* Tasks that are not, or no longer, to be visited.
Over == DOMAIN alloc \ (todo \cup {cur})

Finished ==
  pc \in Performing /\ ~faulty /\ Uniform(alloc) =>
    \A c \in Over : clos[c] = Name(c) /\ \A r \in Resources : HasRow(c, r)

\* A write is skipped only if one for the same group has been made.
Executed ==
  pc \in Performing =>
    \A entry \in executed : \E d \in Over : entry[2] = Name(d)

IInv ==
  /\ TypeOK /\ Home /\ Position /\ Stored
  /\ Targets /\ Moves /\ Pending /\ Finished /\ Executed


-----------------------------------------------------------------------------

\* NoOne is no task and no group.
LEMMA NoOneApart == NoOne \notin Containers /\ NoOne \notin AllGroups
BY ConstantsAssumption, RequestsAssumption

\* What get_resgroup_name returns is the name of a group.
LEMMA NameType ==
  ASSUME NEW c \in Containers, NEW request \in Requests
  PROVE  get_resgroup_name(c, request) \in AllGroups
BY RequestsAssumption DEF get_resgroup_name, AllGroups

\* Rows of a request are numbers, and so is what the kernel makes of them, which
\* it would take again.
LEMMA RequestType ==
  ASSUME NEW request \in Requests, NEW r \in Resources
  PROVE  /\ request.rows \in [Resources -> Nat]
         /\ Rounded(r, request.rows[r]) \in Nat
         /\ Rounded(r, Rounded(r, request.rows[r])) = Rounded(r, request.rows[r])
BY RequestsAssumption

\* resctrl as a fresh agent finds it: nothing but the root group.
LEMMA InitIInv == Init => IInv
<1> SUFFICES ASSUME Init PROVE IInv
  OBVIOUS
<1> USE DEF Init, Empty
<1>1. TypeOK
  BY RequestsAssumption DEF TypeOK, ResctrlTypeOK, AllGroups, NewGroup, Performing
<1>2. Home
  BY RequestsAssumption DEF Home, Exists, AllGroups
<1>3. Position
  BY DEF Position, Performing
<1>4. Stored
  BY RequestsAssumption DEF Stored, NewGroup
<1>5. Targets /\ Moves /\ Pending /\ Finished /\ Executed
  BY DEF Targets, Moves, Pending, Finished, Executed, Performing
<1>. QED
  BY <1>1, <1>2, <1>3, <1>4, <1>5 DEF IInv

\* sync removes no control group that a task is in.
LEMMA SyncStep == IInv /\ sync => IInv'
<1> SUFFICES ASSUME IInv, sync PROVE IInv'
  OBVIOUS
<1> USE DEF IInv
<1>0. pc' \notin Performing
  BY DEF sync, Performing
<1>1. TypeOK'
  <2>1. ResctrlTypeOK'
    BY RequestsAssumption DEF TypeOK, ResctrlTypeOK, sync, AllGroups
  <2>2. schemata' \in [AllGroups -> [Resources -> Nat]]
    BY RequestsAssumption DEF TypeOK, sync, SchemataOfDirs
  <2>. QED
    BY <2>1, <2>2 DEF TypeOK, sync, iterVars
<1>2. ASSUME NEW c \in Containers PROVE clos[c] \in groups' \cup {Root}
  BY RequestsAssumption
     DEF Home, sync, Exists, Taskless, TypeOK, ResctrlTypeOK, AllGroups
<1>3. Home'
  <2>1. ASSUME NEW g \in AllGroups, mon'[g] # {} PROVE Exists(g)'
    BY <1>2, <2>1 DEF sync, Exists
  <2>2. ASSUME NEW c \in Containers
        PROVE  Exists(clos[c])' /\ rmid'[c] = c /\ c \in mon'[clos'[c]]
    BY <1>2, RequestsAssumption
       DEF sync, Exists, Home, TypeOK, ResctrlTypeOK
  <2>. QED
    BY <2>1, <2>2 DEF Home, sync
<1>4. Position'
  BY <1>0 DEF Position, sync, iterVars, Performing
<1>5. Stored'
  BY RequestsAssumption DEF Stored, sync, SchemataOfDirs, TypeOK
<1>. QED
  BY <1>0, <1>1, <1>3, <1>4, <1>5
     DEF IInv, Targets, Moves, Pending, Finished, Executed

\* What calculate_changeset leaves out is as the allocator wants it.
LEMMA AllocateStep == IInv /\ allocate => IInv'
<1> SUFFICES ASSUME IInv, allocate PROVE IInv'
  OBVIOUS
<1> USE DEF IInv
<1>0. PICK a \in Allocations, lost \in SUBSET Containers :
        /\ lost \subseteq DOMAIN a
        /\ alloc' = a
        /\ missing' = lost
        /\ todo' = {c \in DOMAIN a : HasChange(c, a[c], lost)}
        /\ changeset' = [c \in todo' |-> ChangeOf(c, a[c], lost)]
        /\ faulty' = (lost # {})
  BY DEF allocate, Allocations
<1>1. /\ DOMAIN a \subseteq Containers
      /\ \A c \in DOMAIN a : a[c] \in Requests
  BY DEF Allocations
<1>2. /\ pc = "alloc" /\ pc' = "perform" /\ cur = NoOne /\ executed = {}
      /\ UNCHANGED <<owner, groups, mon, clos, rmid, schemata, cur, executed>>
  BY DEF allocate, fsVars, Position, Performing
<1>3. ASSUME NEW c \in todo'
      PROVE  /\ c \in Containers /\ c \in DOMAIN a /\ a[c] \in Requests
             /\ changeset'[c] = ChangeOf(c, a[c], lost)
             /\ Name(c)' = get_resgroup_name(c, a[c])
             /\ Name(c)' \in AllGroups
             /\ clos[c] \in AllGroups
             /\ a[c].rows \in [Resources -> Nat]
  <2>1. c \in Containers /\ c \in DOMAIN a /\ a[c] \in Requests
    BY <1>0, <1>1
  <2>. QED
    BY <1>0, <2>1, NameType, RequestsAssumption
       DEF Name, get_resgroup_name, TypeOK, ResctrlTypeOK
<1>4. TypeOK'
  <2>1. \A c \in todo' : ChangeOf(c, a[c], lost) \in Change
    <3> SUFFICES ASSUME NEW c \in todo' PROVE ChangeOf(c, a[c], lost) \in Change
      OBVIOUS
    <3> DEFINE name == get_resgroup_name(c, a[c])
    <3>1. name \in AllGroups /\ clos[c] \in AllGroups
      BY <1>3
    <3> HIDE DEF name
    <3>2. [r \in Resources |-> IF IsChanged(c, a[c], r) THEN a[c].rows[r]
                                 ELSE NoRow] \in [Resources -> Nat]
      BY <1>3 DEF NoRow
    <3>. QED
      BY <1>3, <3>1, <3>2 DEF ChangeOf, Change, Sides, name
  <2>. QED
    BY <1>0, <1>1, <1>2, <2>1
       DEF TypeOK, ResctrlTypeOK, Performing
<1>5. Home'
  BY <1>2 DEF Home, Exists
<1>6. Position'
  BY <1>0, <1>1, <1>2, NoOneApart DEF Position, Performing
<1>7. Stored'
  BY <1>2 DEF Stored
<1>8. Targets'
  <2> SUFFICES ASSUME NEW c \in todo'
               PROVE  /\ changeset'[c].name = Name(c)'
                      /\ \A r \in Resources :
                           changeset'[c].rows[r] \in {NoRow, alloc'[c].rows[r]}
                      /\ lost = {} => changeset'[c].resgroup = Name(c)'
    BY <1>0, <1>2 DEF Targets
  <2>. QED
    BY <1>0, <1>3 DEF ChangeOf
<1>9. Moves'
  <2> SUFFICES ASSUME NEW c \in todo'
               PROVE  IF changeset'[c].source = NoOne
                        THEN lost = {} => clos[c] = Name(c)'
                        ELSE /\ changeset'[c].source = clos[c]
                             /\ changeset'[c].resgroup # changeset'[c].source
                             /\ changeset'[c].resgroup = Name(c)'
    BY <1>0, <1>2 DEF Moves
  <2>. QED
    BY <1>0, <1>3, NoOneApart DEF ChangeOf
<1>10. ASSUME NEW c \in DOMAIN a, NEW r \in Resources,
              lost = {}, get_resgroup_name(c, a[c]) = clos[c],
              ~IsChanged(c, a[c], r)
       PROVE  clos'[c] = Name(c)' /\ HasRow(c, r)'
  <2>1. clos[c] \in AllGroups
    BY <1>1, RequestsAssumption DEF TypeOK, ResctrlTypeOK
  <2>2. clos'[c] = clos[c] /\ Name(c)' = clos[c]
    BY <1>0, <1>2, <1>10 DEF Name
  <2>3. a[c].rows[r] # NoRow => schemata[clos[c]][r] = a[c].rows[r]
    BY <1>10 DEF IsChanged
  <2>4. Rounded(r, schemata[clos[c]][r]) = schemata[clos[c]][r]
    BY <2>1 DEF Stored
  <2>. QED
    BY <1>0, <1>2, <2>2, <2>3, <2>4 DEF HasRow
<1>11. Pending'
  <2> SUFFICES ASSUME NEW c \in todo', NEW r \in Resources, lost = {},
                      changeset'[c].rows[r] = NoRow, a[c].rows[r] # NoRow
               PROVE  clos'[c] = Name(c)' /\ HasRow(c, r)'
    BY <1>0, <1>2 DEF Pending
  <2>1. get_resgroup_name(c, a[c]) = clos[c] /\ ~IsChanged(c, a[c], r)
    <3>1. ChangeOf(c, a[c], lost).rows[r] = NoRow
      BY <1>3
    <3>2. c \notin lost
      OBVIOUS
    <3>. QED
      BY <3>1, <3>2 DEF ChangeOf
  <2>. QED
    BY <1>3, <1>10, <2>1
<1>12. Finished'
  <2> SUFFICES ASSUME NEW c \in DOMAIN a \ todo', lost = {}
               PROVE  /\ clos'[c] = Name(c)'
                      /\ \A r \in Resources : HasRow(c, r)'
    BY <1>0, <1>2 DEF Finished, Over
  <2>1. get_resgroup_name(c, a[c]) = clos[c]
    BY <1>0 DEF HasChange
  <2>2. \A r \in Resources : ~IsChanged(c, a[c], r)
    BY <1>0 DEF HasChange
  <2>3. clos'[c] = Name(c)'
    BY <1>0, <1>2, <2>1 DEF Name
  <2>. QED
    BY <1>10, <2>1, <2>2, <2>3
<1>13. Executed'
  BY <1>2 DEF Executed
<1>. QED
  BY <1>4, <1>5, <1>6, <1>7, <1>8, <1>9, <1>11, <1>12, <1>13 DEF IInv

\* The steps that lead out of perform_allocations, and the one that never
\* enters it.
LEMMA LeaveStep ==
  IInv /\ (ignore_allocations \/ end_iteration \/ restart) => IInv'
<1> SUFFICES ASSUME IInv, ignore_allocations \/ end_iteration \/ restart
             PROVE  IInv'
  OBVIOUS
<1> USE DEF IInv
<1>0. /\ pc' = "sync"
      /\ UNCHANGED <<owner, groups, mon, clos, rmid, alloc>>
      /\ todo' = {} /\ executed' = {} /\ cur' = NoOne
  BY DEF ignore_allocations, end_iteration, restart, fsVars, Position, Performing
<1>1. pc' \notin Performing
  BY <1>0 DEF Performing
<1>2. schemata' \in [AllGroups -> [Resources -> Nat]] /\ Stored'
  <2>1. CASE schemata' = schemata
    BY <2>1 DEF Stored, TypeOK
  <2>2. CASE schemata' = [schemata EXCEPT ![Root] = Full]
    BY <2>2, RequestsAssumption DEF Stored, TypeOK
  <2>. QED
    BY <2>1, <2>2 DEF ignore_allocations, end_iteration, restart
<1>3. TypeOK'
  <2>1. UNCHANGED changeset \/ changeset' = Empty
    BY DEF ignore_allocations, end_iteration, restart
  <2>2. UNCHANGED missing \/ missing' = {}
    BY DEF ignore_allocations, end_iteration, restart
  <2>3. faulty' \in BOOLEAN
    BY DEF ignore_allocations, end_iteration, restart, TypeOK
  <2>4. /\ DOMAIN changeset' \subseteq Containers
        /\ \A c \in DOMAIN changeset' : changeset'[c] \in Change
    BY <2>1 DEF TypeOK, Empty
  <2>. QED
    BY <1>0, <1>2, <2>2, <2>3, <2>4 DEF TypeOK, ResctrlTypeOK
<1>4. Home'
  BY <1>0 DEF Home, Exists
<1>5. Position'
  BY <1>0, <1>1
     DEF Position, Performing, ignore_allocations, end_iteration, restart
<1>. QED
  BY <1>1, <1>2, <1>3, <1>4, <1>5
     DEF IInv, Targets, Moves, Pending, Finished, Executed

\* A task that is visited is put in its group, or is there.
LEMMA PerformStep ==
  ASSUME NEW t \in Containers
  PROVE  IInv /\ perform_allocations(t) => IInv'
<1> SUFFICES ASSUME IInv, perform_allocations(t) PROVE IInv'
  OBVIOUS
<1> USE DEF IInv
<1> DEFINE g0 == changeset[t].resgroup
           moved == changeset[t].source # NoOne
<1>0. /\ pc = "perform" /\ t \in todo /\ cur = NoOne
      /\ todo' = todo \ {t} /\ cur' = t
      /\ UNCHANGED <<owner, schemata, alloc, missing, changeset, executed, faulty>>
      /\ t \in DOMAIN changeset /\ changeset[t] \in Change
      /\ pc' = IF moved THEN "remove_source" ELSE "write"
      /\ ~moved => UNCHANGED <<groups, mon, clos, rmid>>
      /\ moved => PutIn(t, g0)
  BY DEF perform_allocations, fsVars, Position, TypeOK
<1>1. g0 \in AllGroups /\ t # NoOne /\ pc \in Performing /\ pc' \in Performing
      /\ changeset[t].source \in AllGroups \cup {NoOne}
  BY <1>0, NoOneApart DEF Change, Performing
<1>2. /\ mon \in [AllGroups -> SUBSET Containers]
      /\ clos \in [Containers -> AllGroups]
      /\ rmid \in [Containers -> Containers \cup {NoOne}]
      /\ groups \subseteq Groups
      /\ todo \subseteq Containers
  BY RequestsAssumption DEF TypeOK, ResctrlTypeOK
<1>3. ASSUME NEW c \in Containers, c # t
      PROVE  clos'[c] = clos[c] /\ rmid'[c] = rmid[c]
  BY <1>0, <1>2, <1>3 DEF PutIn
<1>4. moved => clos'[t] = g0 /\ rmid'[t] = t /\ t \in mon'[g0]
  BY <1>0, <1>1, <1>2 DEF PutIn
<1>5. \A g \in AllGroups : mon[g] \subseteq mon'[g]
  BY <1>0, <1>1, <1>2 DEF PutIn
<1>6. groups \subseteq groups' /\ (moved => g0 \in groups' \cup {Root})
  BY <1>0 DEF PutIn
<1>7. moved => /\ changeset[t].source = clos[t] /\ g0 # clos[t] /\ g0 = Name(t)
  BY <1>0, <1>1 DEF Moves
<1>8. \A c : Name(c)' = Name(c)
  BY <1>0 DEF Name
<1>9. TypeOK'
  <2>1. ResctrlTypeOK'
    <3>1. CASE moved
      BY <1>0, <1>1, <1>2, <3>1 DEF PutIn, TypeOK, ResctrlTypeOK, AllGroups
    <3>2. CASE ~moved
      BY <1>0, <3>2 DEF TypeOK, ResctrlTypeOK
    <3>. QED BY <3>1, <3>2
  <2>. QED
    BY <1>0, <1>1, <2>1 DEF TypeOK
<1>10. Home'
  <2>1. ASSUME NEW g \in AllGroups, mon'[g] # {} PROVE Exists(g)'
    BY <1>0, <1>1, <1>2, <1>6, <2>1 DEF PutIn, Home, Exists
  <2>2. ASSUME NEW c \in Containers
        PROVE  /\ Exists(clos[c])' /\ c \in mon'[clos'[c]]
               /\ clos'[c] # Root => rmid'[c] = c
    <3>1. CASE c = t /\ moved
      BY <1>4, <1>6, <3>1 DEF Exists
    <3>2. CASE c # t \/ ~moved
      <4>1. clos'[c] = clos[c] /\ rmid'[c] = rmid[c]
        BY <1>0, <1>3, <3>2
      <4>. QED
        BY <1>0, <1>2, <1>5, <1>6, <4>1 DEF Home, Exists
    <3>. QED BY <3>1, <3>2
  <2>. QED
    BY <1>0, <2>1, <2>2 DEF Home
<1>11. Position'
  BY <1>0, <1>1 DEF Position, Performing
<1>12. Stored'
  BY <1>0 DEF Stored
<1>13. Targets'
  BY <1>0, <1>1, <1>8 DEF Targets
<1>14. Moves'
  <2>1. ASSUME NEW c \in todo'
        PROVE  LET source == changeset[c].source
               IN  IF source = NoOne THEN missing = {} => clos'[c] = Name(c)
                   ELSE source = clos'[c] /\ changeset[c].resgroup # source
                        /\ changeset[c].resgroup = Name(c)
    BY <1>0, <1>1, <1>2, <1>3 DEF Moves
  <2>2. CASE moved
    <3>1. t \in mon'[changeset[t].source]
      BY <1>0, <1>1, <1>2, <1>5, <1>7, <2>2 DEF Home
    <3>. QED
      BY <1>0, <1>1, <1>4, <1>7, <1>8, <2>1, <2>2, <3>1 DEF Moves
  <2>3. CASE ~moved
    <3>1. missing = {} => clos'[t] = Name(t)
      BY <1>0, <1>1, <2>3 DEF Moves
    <3>. QED
      BY <1>0, <1>8, <2>1, <2>3, <3>1 DEF Moves
  <2>. QED BY <2>2, <2>3
<1>15. ASSUME NEW c \in Containers, clos[c] = Name(c) PROVE clos'[c] = Name(c)
  BY <1>0, <1>3, <1>4, <1>7, <1>15
<1>16. \A c, r : HasRow(c, r)' = HasRow(c, r)
  BY <1>0 DEF HasRow, Name
<1>17. Pending'
  <2> SUFFICES ASSUME ~faulty, Uniform(alloc),
                      NEW c \in todo, NEW r \in Resources,
                      changeset[c].rows[r] = NoRow, alloc[c].rows[r] # NoRow
               PROVE  clos'[c] = Name(c) /\ HasRow(c, r)
    BY <1>0, <1>1, <1>8, <1>16 DEF Pending, Uniform, SameGroup
  <2>1. clos[c] = Name(c) /\ HasRow(c, r)
    BY <1>1 DEF Pending
  <2>. QED
    BY <1>2, <1>15, <2>1
<1>18. Over' = Over
  <2>1. NoOne \notin DOMAIN alloc
    BY NoOneApart DEF TypeOK
  <2>. QED
    BY <1>0, <2>1 DEF Over
<1>19. Finished'
  <2> SUFFICES ASSUME ~faulty, Uniform(alloc), NEW c \in Over
               PROVE  clos'[c] = Name(c) /\ \A r \in Resources : HasRow(c, r)
    BY <1>0, <1>1, <1>8, <1>16, <1>18 DEF Finished, Uniform, SameGroup
  <2>1. clos[c] = Name(c) /\ \A r \in Resources : HasRow(c, r)
    BY <1>1 DEF Finished
  <2>2. c \in Containers
    BY DEF Over, TypeOK
  <2>. QED
    BY <1>15, <2>1, <2>2
<1>20. Executed'
  BY <1>0, <1>1, <1>8, <1>18 DEF Executed
<1>. QED
  BY <1>9, <1>10, <1>11, <1>12, <1>13, <1>14, <1>17, <1>19, <1>20 DEF IInv

\* remove_source takes no group from a task, and no task from its group.
LEMMA RemoveKeeps ==
  ASSUME IInv, remove_source
  PROVE  /\ \A c \in Containers : /\ clos'[c] = clos[c]
                                  /\ Exists(clos[c])'
                                  /\ rmid'[c] = rmid[c]
                                  /\ c \in mon'[clos[c]]
                                  /\ schemata'[clos[c]] = schemata[clos[c]]
         /\ \A g \in AllGroups : mon'[g] # {} => Exists(g)'
         /\ ResctrlTypeOK'
         /\ schemata' \in [AllGroups -> [Resources -> Nat]]
         /\ Stored'
<1> USE DEF IInv
<1> DEFINE s == changeset[cur].source
<1>0. /\ pc = "remove_source"
      /\ owner' = owner
      /\ schemata' = SchemataOfDirs(groups')
  BY DEF remove_source
<1>1. /\ s \in AllGroups /\ cur \in mon[s] /\ s # clos[cur]
      /\ cur \in Containers
  BY <1>0 DEF Moves, Performing, TypeOK, Position
<1>2. /\ mon \in [AllGroups -> SUBSET Containers]
      /\ clos \in [Containers -> AllGroups]
      /\ rmid \in [Containers -> Containers \cup {NoOne}]
      /\ groups \subseteq Groups
      /\ Pids = Containers
      /\ schemata \in [AllGroups -> [Resources -> Nat]]
  BY RequestsAssumption DEF TypeOK, ResctrlTypeOK
<1>3. \A c \in Containers : c \in mon[clos[c]] /\ Exists(clos[c])
  BY <1>0 DEF Home
<1>4. /\ schemata' \in [AllGroups -> [Resources -> Nat]]
      /\ \A g \in AllGroups : schemata'[g] = schemata[g] \/ schemata'[g] = Full
      /\ \A g \in AllGroups : g \in groups' \cup {Root} => schemata'[g] = schemata[g]
  BY <1>0, <1>2, RequestsAssumption DEF SchemataOfDirs
<1>5. Stored'
  BY <1>4, RequestsAssumption DEF Stored
<1>6. \A g \in AllGroups : mon[g] # {} => g \in groups \cup {Root}
  BY DEF Home, Exists
<1>7. CASE ~HasOneMonGroup(s)
  <2>1. UNCHANGED <<groups, mon, clos, rmid>>
    BY <1>7 DEF remove_source, fsVars
  <2>. QED
    BY <1>0, <1>2, <1>3, <1>4, <1>5, <1>6, <2>1 DEF Exists, TypeOK, ResctrlTypeOK
<1>8. CASE HasOneMonGroup(s)
  <2>1. mon[s] = {cur}
    BY <1>1, <1>8 DEF HasOneMonGroup
  <2>2. \A c \in Containers : clos[c] # s
    BY <1>1, <1>3, <2>1
  <2>3. remove(s, cur)
    BY <1>8 DEF remove_source
  <2>4. /\ clos' = clos /\ rmid' = rmid
        /\ mon' \in [AllGroups -> SUBSET Containers]
        /\ \A g \in AllGroups : g # s => mon'[g] = mon[g]
        /\ mon'[s] = {}
        /\ groups' \in SUBSET groups
        /\ \A g \in AllGroups : g # s /\ g \in groups => g \in groups'
    <3>1. CASE s # Root
      <4>1. RmdirCtrlGroup(s)
        BY <1>8, <2>3, <3>1 DEF remove
      <4>2. clos' = clos /\ rmid' = rmid
        BY <1>2, <2>2, <4>1 DEF RmdirCtrlGroup
      <4>. QED
        BY <1>1, <1>2, <4>1, <4>2 DEF RmdirCtrlGroup
    <3>2. CASE s = Root
      <4>1. RmdirMonGroup(s, cur)
        BY <2>3, <3>2 DEF remove
      <4>2. clos' = clos /\ rmid' = rmid
        BY <1>2, <2>2, <4>1 DEF RmdirMonGroup
      <4>. QED
        BY <1>1, <1>2, <2>1, <4>1, <4>2 DEF RmdirMonGroup
    <3>. QED BY <3>1, <3>2
  <2>5. ResctrlTypeOK'
    BY <1>0, <1>2, <2>4 DEF TypeOK, ResctrlTypeOK
  <2>6. \A g \in AllGroups : mon'[g] # {} => Exists(g)'
    BY <1>6, <2>4 DEF Exists
  <2>. QED
    BY <1>2, <1>3, <1>4, <1>5, <2>2, <2>4, <2>5, <2>6 DEF Exists
<1>. QED BY <1>7, <1>8

\* remove_source keeps IInv, as it takes nothing that IInv speaks of.
LEMMA RemoveStep == IInv /\ remove_source => IInv'
<1> SUFFICES ASSUME IInv, remove_source PROVE IInv'
  OBVIOUS
<1> USE DEF IInv
<1>0. /\ pc = "remove_source" /\ pc' = "write"
      /\ UNCHANGED <<owner, alloc, missing, changeset, todo, cur, executed, faulty>>
      /\ pc \in Performing /\ pc' \in Performing
      /\ cur \in Containers /\ todo \subseteq Containers
      /\ DOMAIN alloc \subseteq Containers
  BY DEF remove_source, iterVars, Performing, Position, TypeOK
<1>1. /\ \A c : Name(c)' = Name(c)
      /\ Over' = Over /\ Over \subseteq Containers
      /\ Uniform(alloc)' = Uniform(alloc)
  BY <1>0 DEF Name, Over, Uniform, SameGroup
<1>2. TypeOK'
  BY <1>0, RemoveKeeps DEF TypeOK
<1>3. Home'
  BY <1>0, RemoveKeeps DEF Home
<1>4. Position'
  BY <1>0 DEF Position
<1>5. Targets'
  BY <1>0, <1>1 DEF Targets
<1>6. Moves'
  BY <1>0, <1>1, RemoveKeeps DEF Moves
<1>7. ASSUME NEW c \in Containers, NEW r \in Resources,
             clos[c] = Name(c), HasRow(c, r)
      PROVE  clos'[c] = Name(c) /\ HasRow(c, r)'
  BY <1>0, <1>1, <1>7, RemoveKeeps DEF HasRow
<1>8. Pending'
  BY <1>0, <1>1, <1>7 DEF Pending
<1>9. Finished'
  <2> SUFFICES ASSUME ~faulty, Uniform(alloc), NEW c \in Over
               PROVE  /\ clos'[c] = Name(c)
                      /\ \A r \in Resources : HasRow(c, r)'
    BY <1>0, <1>1 DEF Finished
  <2>1. clos[c] = Name(c) /\ \A r \in Resources : HasRow(c, r)
    BY <1>0 DEF Finished
  <2>. QED
    BY <1>1, <1>7, <2>1, RemoveKeeps
<1>10. Executed'
  BY <1>0, <1>1 DEF Executed
<1>. QED
  BY <1>2, <1>3, <1>4, <1>5, <1>6, <1>8, <1>9, <1>10, RemoveKeeps DEF IInv

\* write_schemata gives the group the rows its task asks for, or finds them
\* there: they are left out of the change, or another task's change had them.
LEMMA WriteStep == IInv /\ write_schemata => IInv'
<1> SUFFICES ASSUME IInv, write_schemata PROVE IInv'
  OBVIOUS
<1> USE DEF IInv
<1> DEFINE change == changeset[cur]
           lines == {r \in Resources : change.rows[r] # NoRow}
           wanted == IF should_perform_schemata_write(cur) THEN lines ELSE {}
<1>0. PICK refused \in SUBSET wanted :
        /\ schemata' =
             [schemata EXCEPT ![change.resgroup] =
                [r \in Resources |->
                   IF r \in wanted \ refused
                     THEN Rounded(r, change.rows[r]) ELSE @[r]]]
        /\ faulty' = (faulty \/ refused # {})
        /\ executed' = executed \cup {<<change.side, change.name>>}
  BY DEF write_schemata
<1>1. /\ pc = "write" /\ pc' = "perform" /\ cur' = NoOne
      /\ UNCHANGED <<owner, groups, mon, clos, rmid, alloc, missing, changeset, todo>>
      /\ pc \in Performing /\ pc' \in Performing
      /\ cur \in DOMAIN changeset /\ cur # NoOne
      /\ cur \in Containers /\ todo \subseteq Containers
      /\ cur \in DOMAIN alloc
      /\ DOMAIN alloc \subseteq Containers
      /\ change \in Change
      /\ NoOne \notin DOMAIN alloc
  BY NoOneApart DEF write_schemata, fsVars, Performing, Position, TypeOK
<1>2. /\ change.resgroup \in AllGroups /\ change.side \in Sides
      /\ change.name = Name(cur) /\ Name(cur) \in AllGroups
      /\ missing = {} => change.resgroup = Name(cur)
      /\ \A r \in lines : change.rows[r] = alloc[cur].rows[r]
      /\ alloc[cur] \in Requests
  <2>1. change.resgroup \in AllGroups /\ change.side \in Sides
        /\ change.name \in AllGroups
    BY <1>1 DEF Change
  <2>. QED
    BY <1>1, <2>1 DEF Targets, TypeOK
<1>3. /\ \A c : Name(c)' = Name(c)
      /\ Uniform(alloc)' = Uniform(alloc)
      /\ Over' = Over \cup {cur}
      /\ cur \notin todo
  BY <1>1 DEF Name, Over, Uniform, SameGroup, Position
<1>4. \A r \in wanted : r \in Resources /\ change.rows[r] = alloc[cur].rows[r]
                        /\ alloc[cur].rows[r] # NoRow
  BY <1>2
<1> HIDE DEF wanted, lines
<1>5. schemata \in [AllGroups -> [Resources -> Nat]]
  BY DEF TypeOK
<1>6. \A r \in wanted : /\ Rounded(r, change.rows[r]) \in Nat
                        /\ Rounded(r, Rounded(r, change.rows[r]))
                             = Rounded(r, change.rows[r])
  BY <1>2, <1>4, RequestType
<1>7. schemata' \in [AllGroups -> [Resources -> Nat]] /\ Stored'
  BY <1>0, <1>2, <1>5, <1>6 DEF Stored
<1>8. TypeOK'
  <2>1. executed' \in SUBSET (Sides \X AllGroups)
    BY <1>0, <1>2 DEF TypeOK
  <2>2. faulty' \in BOOLEAN
    BY <1>0
  <2>. QED
    BY <1>1, <1>7, <2>1, <2>2 DEF TypeOK, ResctrlTypeOK
<1>9. Home'
  BY <1>1 DEF Home, Exists
<1>10. Position'
  BY <1>0, <1>1, NoOneApart DEF Position, Performing, TypeOK
<1>11. Targets'
  BY <1>1, <1>3 DEF Targets
<1>12. Moves'
  BY <1>1, <1>3 DEF Moves
<1>13. Executed'
  BY <1>0, <1>1, <1>2, <1>3 DEF Executed
<1>14. ASSUME ~faulty', Uniform(alloc)
       PROVE  Pending' /\ Finished'
  <2>1. ~faulty /\ refused = {} /\ missing = {} /\ change.resgroup = Name(cur)
    BY <1>0, <1>2, <1>14 DEF Position, TypeOK
  <2>2. clos[cur] = Name(cur)
    BY <1>1, <2>1 DEF Moves
  <2>3. ASSUME NEW r \in Resources, alloc[cur].rows[r] # NoRow
        PROVE  schemata'[Name(cur)][r] = Rounded(r, alloc[cur].rows[r])
    <3>1. CASE r \in wanted
      BY <1>0, <1>2, <1>4, <1>5, <2>1, <3>1
    <3>2. CASE r \notin wanted
      <4>1. schemata'[Name(cur)][r] = schemata[Name(cur)][r]
        BY <1>0, <1>2, <1>5, <2>1, <3>2
      <4>2. CASE r \notin lines
        <5>1. change.rows[r] = NoRow
          BY <4>2 DEF lines
        <5>. QED
          BY <1>1, <1>14, <2>1, <2>3, <4>1, <5>1 DEF Pending, HasRow
      <4>3. CASE ~should_perform_schemata_write(cur)
        <5>1. PICK d \in Over : Name(cur) = Name(d)
          BY <1>1, <1>2, <4>3 DEF should_perform_schemata_write, Executed
        <5>2. HasRow(d, r)
          BY <1>1, <1>14, <2>1 DEF Finished
        <5>3. alloc[d].rows = alloc[cur].rows
          BY <1>1, <1>14, <5>1 DEF Uniform, SameGroup, Name, Over
        <5>. QED
          BY <2>3, <4>1, <5>1, <5>2, <5>3 DEF HasRow
      <4>. QED
        BY <3>2, <4>2, <4>3 DEF wanted
    <3>. QED BY <3>1, <3>2
  <2>4. ASSUME NEW c \in DOMAIN alloc, NEW r \in Resources, HasRow(c, r)
        PROVE  HasRow(c, r)'
    <3>1. CASE Name(c) = Name(cur)
      <4>1. alloc[c].rows = alloc[cur].rows
        BY <1>1, <1>14, <3>1 DEF Uniform, SameGroup, Name
      <4>. QED
        BY <1>1, <1>3, <2>3, <3>1, <4>1 DEF HasRow
    <3>2. CASE Name(c) # Name(cur)
      <4>1. schemata'[Name(c)] = schemata[Name(c)]
        <5>1. Name(c) \in AllGroups
          BY <1>1, NameType DEF Name, TypeOK
        <5>. QED
          BY <1>0, <1>5, <2>1, <3>2, <5>1
      <4>. QED
        BY <1>1, <1>3, <2>4, <4>1 DEF HasRow
    <3>. QED BY <3>1, <3>2
  <2>5. Pending'
    <3> SUFFICES ASSUME NEW c \in todo, NEW r \in Resources,
                        changeset[c].rows[r] = NoRow, alloc[c].rows[r] # NoRow
                 PROVE  clos[c] = Name(c) /\ HasRow(c, r)'
      BY <1>1, <1>3 DEF Pending
    <3>1. clos[c] = Name(c) /\ HasRow(c, r)
      BY <1>1, <1>14, <2>1 DEF Pending
    <3>2. c \in DOMAIN alloc
      BY <1>1 DEF Position, TypeOK
    <3>. QED
      BY <2>4, <3>1, <3>2
  <2>6. Finished'
    <3> SUFFICES ASSUME NEW c \in Over \cup {cur}
                 PROVE  /\ clos[c] = Name(c)
                        /\ \A r \in Resources : HasRow(c, r)'
      BY <1>1, <1>3 DEF Finished
    <3>1. CASE c = cur
      BY <1>1, <1>3, <2>2, <2>3, <3>1 DEF HasRow
    <3>2. CASE c \in Over
      <4>1. clos[c] = Name(c) /\ \A r \in Resources : HasRow(c, r)
        BY <1>1, <1>14, <2>1, <3>2 DEF Finished
      <4>. QED
        BY <2>4, <3>2, <4>1 DEF Over
    <3>. QED BY <3>1, <3>2
  <2>. QED BY <2>5, <2>6
<1>15. Pending' /\ Finished'
  BY <1>3, <1>14 DEF Pending, Finished
<1>. QED
  BY <1>7, <1>8, <1>9, <1>10, <1>11, <1>12, <1>13, <1>15 DEF IInv

-----------------------------------------------------------------------------

\* Every step of the agent and of the kernel keeps IInv.
LEMMA IInvStep == IInv /\ [Next]_vars => IInv'
<1> SUFFICES ASSUME IInv, [Next]_vars PROVE IInv'
  OBVIOUS
<1>1. CASE UNCHANGED vars
  BY <1>1 DEF vars, IInv, TypeOK, ResctrlTypeOK, Home, Exists, Position, Stored,
       Targets, Moves, Pending, Finished, Executed, Over, HasRow, Name,
       Uniform, SameGroup
<1>2. CASE Next
  BY <1>2, SyncStep, AllocateStep, LeaveStep, PerformStep, RemoveStep, WriteStep
     DEF Next
<1>. QED
  BY <1>1, <1>2

\* IInv holds throughout, restarts of the agent included.
LEMMA IInvHolds == Spec => []IInv
BY InitIInv, IInvStep, PTL DEF Spec

\* The variables of the kernel and of the iteration stay in their types: every
\* change names a group that is one, with rows that are some, and
\* perform_allocations is always at a task of the changeset.
THEOREM TypeCorrect == Spec => []TypeOK
<1>1. IInv => TypeOK
  BY DEF IInv
<1>. QED
  BY <1>1, IInvHolds, PTL

\* When perform_allocations is through and nothing failed, an answer that asks
\* the same for all tasks of a group is in place, in whatever order its tasks
\* were visited, whichever groups were emptied and made again meanwhile and
\* whichever writes RDTGroups.should_perform_schemata_write skipped.
THEOREM UniformIsApplied == Spec => []AppliedWhenUniform
<1>1. IInv => AppliedWhenUniform
  <2> SUFFICES ASSUME IInv, pc = "perform", todo = {}, ~faulty, Uniform(alloc),
                      NEW c \in DOMAIN alloc
               PROVE  /\ clos[c] = Name(c)
                      /\ \A r \in Resources : HasRow(c, r)
    BY DEF AppliedWhenUniform, Applied, Name, HasRow
  <2>1. cur = NoOne /\ NoOne \notin DOMAIN alloc
    BY NoOneApart DEF IInv, Position, TypeOK
  <2>. QED
    BY <2>1 DEF IInv, Finished, Over, Performing
<1>. QED
  BY <1>1, IInvHolds, PTL

\* A step of perform_allocations neither moves a task that the allocator left
\* out nor touches the rows of its group, unless that group is named for
\* another task: remove_source removes no group that has tasks.
THEOREM OmittedAreSpared == Spec => OmittedUnaffectedUnlessMissing
<1>1. IInv /\ [Next]_vars =>
        [missing = {} /\ {pc, pc'} \subseteq Performing =>
           \A c \in Containers \ DOMAIN alloc : Spares(c)]_vars
  <2> SUFFICES ASSUME IInv, Next, missing = {}, pc \in Performing,
                      pc' \in Performing,
                      NEW c \in Containers, c \notin DOMAIN alloc
               PROVE  Spares(c)
    BY DEF OmittedUnaffectedUnlessMissing
  <2>0. clos \in [Containers -> AllGroups] /\ clos[c] \in AllGroups
    BY RequestsAssumption DEF IInv, TypeOK, ResctrlTypeOK
  <2>1. CASE \E t \in Containers : perform_allocations(t)
    <3>1. PICK t \in Containers : perform_allocations(t)
      BY <2>1
    <3>2. t \in todo /\ schemata' = schemata
      BY <3>1 DEF perform_allocations
    <3>3. t # c
      BY <3>2 DEF IInv, Position, TypeOK
    <3>4. clos'[c] = clos[c]
      BY <2>0, <3>1, <3>3 DEF perform_allocations, PutIn, fsVars
    <3>. QED
      BY <3>2, <3>4 DEF Spares
  <2>2. CASE remove_source
    BY <2>2, RemoveKeeps DEF Spares
  <2>3. CASE write_schemata
    <3>1. clos' = clos
      BY <2>3 DEF write_schemata, fsVars
    <3>2. /\ cur \in DOMAIN alloc
          /\ changeset[cur].resgroup = Name(cur)
      BY <2>3 DEF write_schemata, IInv, Position, TypeOK, Targets
    <3>3. changeset[cur].resgroup \in Named(alloc)
      BY <3>2 DEF Named, Name
    <3>4. \A g \in AllGroups :
            g # changeset[cur].resgroup => schemata'[g] = schemata[g]
      BY <2>3 DEF write_schemata, IInv, TypeOK
    <3>. QED
      BY <2>0, <3>1, <3>3, <3>4 DEF Spares
  <2>. QED
    BY <2>1, <2>2, <2>3
       DEF Next, sync, allocate, ignore_allocations, end_iteration, restart,
           Performing
<1>. QED
  BY <1>1, IInvHolds, PTL DEF Spec, OmittedUnaffectedUnlessMissing

=============================================================================
