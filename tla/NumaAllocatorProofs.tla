------------------------ MODULE NumaAllocatorProofs ------------------------
(***************************************************************************)
(* Proofs about NumaAllocator: a pinned task stays on its node and its     *)
(* pages gather there; no node holds more memory than it has.              *)
(*                                                                         *)
(* That nodes stay balanced is left to TLC: it does not hold for hundreds  *)
(* of tasks, when scores of nodes, rounded to four places, cannot tell     *)
(* them apart any more.                                                    *)
(***************************************************************************)
EXTENDS NumaAllocator, FiniteSetTheorems, TLAPS

\* Every variable has its type; pages are counted with natural numbers.
Types ==
  /\ tasks \subseteq Tasks
  /\ pinned \in [Tasks -> NumaNodes \cup {NotPinned}]
  /\ mems \in [Tasks -> SUBSET NumaNodes]
  /\ pages \in [Tasks -> [NumaNodes -> Nat]]
  /\ _pages_to_move \subseteq Tasks

\* The snapshot d is of tasks, and says where each of them that still runs is
\* pinned: only the allocator pins tasks, and it uses its snapshot up.
Snapshot(d) ==
  /\ DOMAIN d.limit \subseteq Tasks
  /\ DOMAIN d.pinned = DOMAIN d.limit
  /\ \A t \in tasks \cap DOMAIN d.limit : d.pinned[t] = pinned[t]

Measured == data # NoData => Snapshot(data)

IInv == Types /\ Measured

-----------------------------------------------------------------------------
\* The node a task is to be pinned to is a node, or there is none.
LEMMA TargetsAreNodes ==
  ASSUME NEW t
  PROVE  Target(t) \in NumaNodes \cup {NotPinned}
BY DEF Target

\* The task that is pinned was measured, is not pinned as long as it runs, and
\* gets a node.
LEMMA FreshlyPinned ==
  ASSUME Types, Measured, data # NoData,
         NEW to, to = [t \in Considered |-> Target(t)],
         NEW u \in balance_task(to) \cap tasks
  PROVE  /\ u \in Tasks
         /\ pinned[u] = NotPinned
         /\ to[u] \in NumaNodes
<1>1. /\ u \in Considered
      /\ u \in tasks
      /\ to[u] # NotPinned
      /\ to[u] = Target(u)
  BY DEF balance_task
<1>2. /\ u \in DOMAIN data.limit
      /\ data.pinned[u] = NotPinned
  BY <1>1 DEF Considered
<1>3. pinned[u] = data.pinned[u]
  BY <1>1, <1>2 DEF Measured, Snapshot
<1>4. to[u] \in NumaNodes
  BY <1>1, TargetsAreNodes
<1> QED
  BY <1>1, <1>2, <1>3, <1>4 DEF Types

\* A task whose pages are moved again was measured, and is pinned to the node of
\* the snapshot as long as it runs.
LEMMA MovedAgain ==
  ASSUME Types, Measured, data # NoData,
         NEW u \in _remigrate_pages_of_unbalanced_tasks \cap tasks
  PROVE  /\ u \in Tasks
         /\ data.pinned[u] = pinned[u]
         /\ pinned[u] \in NumaNodes
<1>1. /\ u \in DOMAIN data.limit
      /\ u \in tasks
      /\ data.pinned[u] # NotPinned
  BY DEF _remigrate_pages_of_unbalanced_tasks
<1>2. data.pinned[u] = pinned[u]
  BY <1>1 DEF Measured, Snapshot
<1> QED
  BY <1>1, <1>2 DEF Types

\* Gathering the pages of a task takes none from the node they gather on.
LEMMA GatheredPages ==
  ASSUME NEW t, NEW n, NEW q \in Gathered(t, n)
  PROVE  /\ q \in [NumaNodes -> Nat]
         /\ q[n] >= pages[t][n]
<1>1. /\ q \in [NumaNodes -> 0..Sum(pages[t])]
      /\ q[n] >= pages[t][n]
  BY DEF Gathered
<1>2. 0..Sum(pages[t]) \subseteq Nat
  OBVIOUS
<1> QED
  BY <1>1, <1>2

\* The kernel moves pages of the tasks it is asked to only, towards the nodes it
\* is asked to.
LEMMA MovedPages ==
  ASSUME Types, NEW to, DOMAIN to \subseteq Tasks, NEW p \in Moved(to)
  PROVE  /\ p \in [Tasks -> [NumaNodes -> Nat]]
         /\ \A t \in Tasks \ DOMAIN to : p[t] = pages[t]
         /\ \A t \in DOMAIN to : p[t][to[t]] >= pages[t][to[t]]
<1>1. PICK q :
        /\ \A t \in DOMAIN to : q[t] \in Gathered(t, to[t])
        /\ p = [t \in Tasks |-> IF t \in DOMAIN to THEN q[t] ELSE pages[t]]
  BY DEF Moved
<1>2. \A t \in DOMAIN to :
        /\ p[t] \in [NumaNodes -> Nat]
        /\ p[t][to[t]] >= pages[t][to[t]]
  <2>1. TAKE t \in DOMAIN to
  <2>2. q[t] \in Gathered(t, to[t])
    BY <1>1
  <2>3. /\ q[t] \in [NumaNodes -> Nat]
        /\ q[t][to[t]] >= pages[t][to[t]]
    BY <2>2, GatheredPages
  <2>4. p[t] = q[t]
    BY <1>1
  <2> QED
    BY <2>3, <2>4
<1>3. \A t \in Tasks \ DOMAIN to : p[t] = pages[t]
  BY <1>1
<1>4. p = [t \in Tasks |-> p[t]]
  BY <1>1
<1>5. \A t \in Tasks : p[t] \in [NumaNodes -> Nat]
  BY <1>2, <1>3 DEF Types
<1> QED
  BY <1>2, <1>3, <1>4, <1>5

\* What holds from a step to the next for each task that runs on: where it is
\* pinned it stays, and its pages on that node stay.
Steady ==
  \A t \in tasks \cap tasks' : pinned[t] # NotPinned =>
    /\ pinned'[t] = pinned[t]
    /\ pages'[t][pinned[t]] >= pages[t][pinned[t]]

\* A task that is not touched by a step is steady.
LEMMA LeftAlone ==
  ASSUME Types, NEW t \in Tasks, pinned[t] # NotPinned,
         pinned'[t] = pinned[t], pages'[t] = pages[t]
  PROVE  /\ pinned'[t] = pinned[t]
         /\ pages'[t][pinned[t]] >= pages[t][pinned[t]]
<1>1. pages[t][pinned[t]] \in Nat
  BY DEF Types
<1> QED
  BY <1>1

\* allocate keeps types and disturbs no task that is pinned.
LEMMA AllocateIsSteady ==
  ASSUME Types, Measured, allocate
  PROVE  Types' /\ Steady
<1>1. data # NoData
  BY DEF allocate
<1> DEFINE Effect(to, pin, again) ==
             /\ _allocate_task(pin, to)
             /\ pages' \in Moved(MigratePages(pin, again, to))
           Nodes == [t \in Considered |-> Target(t)]
           Again == _remigrate_pages_of_unbalanced_tasks \cap tasks
<1>2. \E to \in {Nodes} : \E pin \in {balance_task(to) \cap tasks} :
      \E again \in {Again} : Effect(to, pin, again)
  <2>1. Applied
    BY DEF allocate
  <2> QED
    BY <2>1 DEF Applied
<1> HIDE DEF Effect, Nodes, Again
<1>3. PICK to, pin : /\ to = Nodes
                     /\ pin = balance_task(to) \cap tasks
                     /\ Effect(to, pin, Again)
  BY <1>2
<1>4. PICK again : /\ again = _remigrate_pages_of_unbalanced_tasks \cap tasks
                   /\ to = [t \in Considered |-> Target(t)]
                   /\ _allocate_task(pin, to)
                   /\ pages' \in Moved(MigratePages(pin, again, to))
  BY <1>3 DEF Effect, Nodes, Again
<1>5. PICK goal : goal = MigratePages(pin, again, to)
  OBVIOUS
<1>6. \A u \in pin : /\ u \in Tasks
                     /\ pinned[u] = NotPinned
                     /\ to[u] \in NumaNodes
  BY <1>1, <1>3, <1>4, FreshlyPinned
<1>7. \A u \in again : /\ u \in Tasks
                       /\ data.pinned[u] = pinned[u]
                       /\ pinned[u] \in NumaNodes
  BY <1>1, <1>4, MovedAgain
<1>8. DOMAIN goal \subseteq Tasks
  BY <1>5, <1>6, <1>7 DEF MigratePages, _get_pages_to_move
<1>9. /\ pages' \in [Tasks -> [NumaNodes -> Nat]]
      /\ \A t \in Tasks \ DOMAIN goal : pages'[t] = pages[t]
      /\ \A t \in DOMAIN goal : pages'[t][goal[t]] >= pages[t][goal[t]]
  <2>1. pages' \in Moved(goal)
    BY <1>4, <1>5
  <2> QED
    BY <1>8, <2>1, MovedPages
<1>10. Types'
  <2>1. pinned' \in [Tasks -> NumaNodes \cup {NotPinned}]
    BY <1>4, <1>6 DEF _allocate_task, Types
  <2>2. mems' \in [Tasks -> SUBSET NumaNodes]
    BY <1>4, <1>6 DEF _allocate_task, Types
  <2>3. _pages_to_move' \subseteq Tasks
    <3>1. DOMAIN data.limit \subseteq Tasks
      BY <1>1 DEF Measured, Snapshot
    <3>2. _pages_to_move' = IF options.dryrun THEN _pages_to_move
                            ELSE _update_pages_to_move
      BY DEF allocate
    <3> QED
      BY <3>1, <3>2 DEF _update_pages_to_move, Types
  <2>4. tasks' \subseteq Tasks
    BY DEF allocate, Types
  <2> QED
    BY <1>9, <2>1, <2>2, <2>3, <2>4 DEF Types
<1>11. ASSUME NEW t \in tasks \cap tasks', pinned[t] # NotPinned
       PROVE  /\ pinned'[t] = pinned[t]
              /\ pages'[t][pinned[t]] >= pages[t][pinned[t]]
  <2>1. t \in Tasks /\ t \notin pin
    BY <1>6, <1>11 DEF Types
  <2>2. pinned'[t] = pinned[t]
    BY <1>4, <2>1 DEF _allocate_task
  <2>3. CASE t \notin DOMAIN goal
    <3>1. pages'[t] = pages[t]
      BY <1>9, <2>1, <2>3
    <3> QED
      BY <1>11, <2>1, <2>2, <3>1, LeftAlone
  <2>4. CASE t \in DOMAIN goal
    <3>1. t \in again
      BY <1>5, <2>1, <2>4 DEF MigratePages, _get_pages_to_move
    <3>2. goal[t] = pinned[t]
      BY <1>5, <1>7, <2>1, <2>4, <3>1 DEF MigratePages
    <3> QED
      BY <1>9, <2>2, <2>4, <3>2
  <2> QED
    BY <2>3, <2>4
<1> QED
  BY <1>10, <1>11 DEF Steady

\* Using memory only adds pages to a node.
LEMMA TouchIsSteady ==
  ASSUME Types, NEW u \in Tasks, NEW n \in NumaNodes, Touch(u, n)
  PROVE  Types' /\ Steady
<1>1. /\ u \in tasks
      /\ pages' = [pages EXCEPT ![u][n] = @ + 1]
      /\ UNCHANGED <<tasks, pinned, mems, data, _pages_to_move>>
  BY DEF Touch
<1>2. /\ pages' \in [Tasks -> [NumaNodes -> Nat]]
      /\ \A t \in Tasks : \A m \in NumaNodes : pages'[t][m] >= pages[t][m]
  <2>1. pages \in [Tasks -> [NumaNodes -> Nat]]
    BY DEF Types
  <2>2. pages' = [pages EXCEPT ![u] = [pages[u] EXCEPT ![n] = pages[u][n] + 1]]
    BY <1>1
  <2>3. PICK q : q = [pages[u] EXCEPT ![n] = pages[u][n] + 1]
    OBVIOUS
  <2>4. /\ q \in [NumaNodes -> Nat]
        /\ \A m \in NumaNodes : q[m] >= pages[u][m]
    BY <2>1, <2>3
  <2>5. \A t \in Tasks : pages'[t] = IF t = u THEN q ELSE pages[t]
    BY <2>1, <2>2, <2>3
  <2>6. \A t \in Tasks : \A m \in NumaNodes : pages[t][m] >= pages[t][m]
    BY <2>1
  <2>7. pages' \in [Tasks -> [NumaNodes -> Nat]]
    BY <2>1, <2>2, <2>3, <2>4
  <2> QED
    BY <2>4, <2>5, <2>6, <2>7
<1>3. Steady
  BY <1>1, <1>2 DEF Steady, Types
<1> QED
  BY <1>1, <1>2, <1>3 DEF Types

\* A task that leaves takes nothing from the others.
LEMMA LeaveIsSteady ==
  ASSUME Types, NEW u \in Tasks, Leave(u)
  PROVE  Types' /\ Steady
<1>1. /\ tasks' = tasks \ {u}
      /\ pages' = [pages EXCEPT ![u] = [n \in NumaNodes |-> 0]]
      /\ pinned' = [pinned EXCEPT ![u] = NotPinned]
      /\ mems' = [mems EXCEPT ![u] = NumaNodes]
      /\ _pages_to_move' = _pages_to_move
  BY DEF Leave
<1>2. Types'
  BY <1>1 DEF Types
<1>3. ASSUME NEW t \in tasks \cap tasks', pinned[t] # NotPinned
      PROVE  /\ pinned'[t] = pinned[t]
             /\ pages'[t][pinned[t]] >= pages[t][pinned[t]]
  <2>1. t \in Tasks /\ t # u
    BY <1>1 DEF Types
  <2>2. pinned'[t] = pinned[t] /\ pages'[t] = pages[t]
    BY <1>1, <2>1 DEF Types
  <2> QED
    BY <1>3, <2>1, <2>2, LeftAlone
<1> QED
  BY <1>2, <1>3 DEF Steady

\* The snapshot is not disturbed by a step that keeps it, pins no task and starts
\* none.
LEMMA SnapshotIsKept ==
  ASSUME Types, Measured, data' = data, tasks' \subseteq tasks,
         \A t \in tasks' : pinned'[t] = pinned[t]
  PROVE  Measured'
<1>1. SUFFICES ASSUME data' # NoData
               PROVE  Snapshot(data)'
  BY DEF Measured
<1>2. Snapshot(data)
  BY <1>1 DEF Measured
<1> QED
  BY <1>2 DEF Snapshot

\* Each step keeps the invariant and is steady.
LEMMA NextStep ==
  ASSUME IInv, [Next]_vars
  PROVE  IInv' /\ Steady
<1> USE DEF IInv
<1>1. CASE Measure
  <2>1. /\ tasks' = tasks /\ pages' = pages /\ pinned' = pinned /\ mems' = mems
        /\ _pages_to_move' = _pages_to_move
    BY <1>1 DEF Measure
  <2>2. Types'
    BY <2>1 DEF Types
  <2>3. /\ data'.limit = [t \in tasks |-> _get_task_memory_limit(t)]
        /\ data'.pinned = [t \in tasks |-> pinned[t]]
    BY <1>1 DEF Measure
  <2>4. Measured'
    BY <2>1, <2>3 DEF Measured, Snapshot, Types
  <2>5. Steady
    BY <2>1, LeftAlone DEF Steady, Types
  <2> QED
    BY <2>2, <2>4, <2>5
<1>2. CASE allocate
  <2>1. Types' /\ Steady
    BY <1>2, AllocateIsSteady
  <2>2. Measured'
    BY <1>2 DEF allocate, Measured, NoData
  <2> QED
    BY <2>1, <2>2
<1>3. ASSUME NEW u \in Tasks, Leave(u)
      PROVE  IInv' /\ Steady
  <2>1. Types' /\ Steady
    BY <1>3, LeaveIsSteady
  <2>2. /\ data' = data /\ tasks' = tasks \ {u}
        /\ pinned' = [pinned EXCEPT ![u] = NotPinned]
    BY <1>3 DEF Leave
  <2>3. \A t \in tasks' : pinned'[t] = pinned[t]
    BY <2>2 DEF Types
  <2>4. Measured'
    BY <2>2, <2>3, SnapshotIsKept
  <2> QED
    BY <2>1, <2>4
<1>4. ASSUME NEW u \in Tasks, NEW n \in NumaNodes, Touch(u, n)
      PROVE  IInv' /\ Steady
  <2>1. Types' /\ Steady
    BY <1>4, TouchIsSteady
  <2>2. data' = data /\ tasks' = tasks /\ pinned' = pinned
    BY <1>4 DEF Touch
  <2>3. Measured'
    BY <2>2, SnapshotIsKept
  <2> QED
    BY <2>1, <2>3
<1>5. CASE UNCHANGED vars
  <2>1. /\ tasks' = tasks /\ pages' = pages /\ pinned' = pinned /\ mems' = mems
        /\ data' = data /\ _pages_to_move' = _pages_to_move
    BY <1>5 DEF vars
  <2>2. Types'
    BY <2>1 DEF Types
  <2>3. Measured'
    BY <2>1, SnapshotIsKept
  <2>4. Steady
    BY <2>1, LeftAlone DEF Steady, Types
  <2> QED
    BY <2>2, <2>3, <2>4
<1>6. CASE Die
  <2>1. /\ tasks' = tasks /\ pages' = pages /\ pinned' = pinned /\ mems' = mems
        /\ _pages_to_move' = {} /\ data' = NoData
    BY <1>6 DEF Die
  <2>2. Types'
    BY <2>1 DEF Types
  <2>3. Steady
    BY <2>1, LeftAlone DEF Steady, Types
  <2> QED
    BY <2>1, <2>2, <2>3 DEF Measured, NoData
<1> QED
  BY <1>1, <1>2, <1>3, <1>4, <1>5, <1>6 DEF Next

-----------------------------------------------------------------------------
\* No node holds more memory of tasks than it has.
Capacious == \A n \in NumaNodes : Cardinality(Used(pages, n)) <= NodeSize

\* The units that finitely many tasks use of a node can be counted.
LEMMA UsedIsFinite ==
  ASSUME Types, IsFiniteSet(Tasks), NEW p \in [Tasks -> [NumaNodes -> Nat]],
         NEW n \in NumaNodes
  PROVE  /\ IsFiniteSet(Used(p, n))
         /\ Cardinality(Used(p, n)) \in Nat
<1> DEFINE units == [t \in tasks |-> {t} \X (1..p[t][n])]
           parts == {{t} \X (1..p[t][n]) : t \in tasks}
<1>1. IsFiniteSet(tasks)
  <2>1. tasks \in SUBSET Tasks
    BY DEF Types
  <2> QED
    BY <2>1, FS_Subset
<1>2. IsFiniteSet(parts)
  <2>1. units \in Surjection(tasks, parts)
    BY DEF Surjection
  <2> QED
    BY <1>1, <2>1, FS_Surjection
<1>3. ASSUME NEW part \in parts
      PROVE  IsFiniteSet(part)
  <2>1. PICK t \in tasks : part = {t} \X (1..p[t][n])
    OBVIOUS
  <2>2. p[t][n] \in Int
    BY DEF Types
  <2>3. IsFiniteSet({t})
    BY FS_Singleton
  <2>4. IsFiniteSet(1..p[t][n])
    BY <2>2, FS_Interval
  <2> QED
    BY <2>1, <2>3, <2>4, FS_Product
<1>4. IsFiniteSet(UNION parts)
  BY <1>2, <1>3, FS_UNION
<1>5. IsFiniteSet(Used(p, n))
  BY <1>4 DEF Used
<1> QED
  BY <1>5, FS_CardinalityType

\* A task takes a unit only of a node that has a free one.
LEMMA TouchFits ==
  ASSUME Types, Capacious, NEW t \in Tasks, NEW n \in NumaNodes, Touch(t, n)
  PROVE  Capacious'
<1>1. /\ tasks' = tasks
      /\ t \in tasks
      /\ free[n] > 0
      /\ pages' = [pages EXCEPT ![t][n] = @ + 1]
  BY DEF Touch
<1>2. PICK i : i = pages[t][n]
  OBVIOUS
<1>3. i \in Nat
  BY <1>2 DEF Types
<1>4. \A u \in Tasks : \A m \in NumaNodes :
        pages'[u][m] = IF u = t /\ m = n THEN i + 1 ELSE pages[u][m]
  BY <1>1, <1>2 DEF Types
<1>5. ASSUME NEW m \in NumaNodes, m # n
      PROVE  Cardinality(Used(pages, m)') <= NodeSize
  <2>1. \A u \in tasks : pages'[u][m] = pages[u][m]
    BY <1>4, <1>5 DEF Types
  <2>2. Used(pages, m)' = Used(pages, m)
    BY <1>1, <2>1 DEF Used
  <2> QED
    BY <2>2 DEF Capacious
<1>6. Cardinality(Used(pages, n)') <= NodeSize
  <2>1. Used(pages, n)' = Used(pages, n) \cup {<<t, i + 1>>}
    <3>1. \A u \in tasks \ {t} : 1..pages'[u][n] = 1..pages[u][n]
      BY <1>4 DEF Types
    <3>2. 1..pages'[t][n] = (1..i) \cup {i + 1}
      BY <1>3, <1>4
    <3>3. \A x : x \in Used(pages, n)' <=>
                   \E u \in tasks : \E j \in 1..pages'[u][n] : x = <<u, j>>
      BY <1>1 DEF Used
    <3>4. \A x : x \in Used(pages, n) <=>
                   \E u \in tasks : \E j \in 1..pages[u][n] : x = <<u, j>>
      BY DEF Used
    <3>5. ASSUME NEW x
          PROVE  x \in Used(pages, n)' <=> x \in Used(pages, n) \/ x = <<t, i + 1>>
      <4>1. (\E u \in tasks : \E j \in 1..pages'[u][n] : x = <<u, j>>) <=>
              \/ \E u \in tasks \ {t} : \E j \in 1..pages[u][n] : x = <<u, j>>
              \/ \E j \in 1..i : x = <<t, j>>
              \/ x = <<t, i + 1>>
        BY <1>1, <3>1, <3>2
      <4>2. (\E u \in tasks : \E j \in 1..pages[u][n] : x = <<u, j>>) <=>
              \/ \E u \in tasks \ {t} : \E j \in 1..pages[u][n] : x = <<u, j>>
              \/ \E j \in 1..i : x = <<t, j>>
        BY <1>1, <1>2
      <4> QED
        BY <3>3, <3>4, <4>1, <4>2
    <3> QED
      BY <3>5
  <2>2. /\ IsFiniteSet(Used(pages, n))
        /\ Cardinality(Used(pages, n)) \in Nat
    <3>1. pages \in [Tasks -> [NumaNodes -> Nat]]
      BY DEF Types
    <3>2. IsFiniteSet(Tasks)
      BY NumaAssumption
    <3> QED
      BY <3>1, <3>2, UsedIsFinite
  <2>3. PICK S, x : S = Used(pages, n) /\ x = <<t, i + 1>>
    OBVIOUS
  <2>4. Cardinality(S \cup {x}) \in {Cardinality(S), Cardinality(S) + 1}
    BY <2>2, <2>3, FS_AddElement
  <2>5. NodeSize - Cardinality(S) > 0
    BY <1>1, <2>3 DEF free
  <2>6. NodeSize \in Nat
    BY NumaAssumption
  <2> QED
    BY <2>1, <2>2, <2>3, <2>4, <2>5, <2>6
<1> QED
  BY <1>5, <1>6 DEF Capacious

\* What a task that leaves had used becomes free.
LEMMA LeaveFits ==
  ASSUME Types, Capacious, NEW t \in Tasks, Leave(t)
  PROVE  Capacious'
<1>1. /\ tasks' = tasks \ {t}
      /\ pages' = [pages EXCEPT ![t] = [n \in NumaNodes |-> 0]]
  BY DEF Leave
<1>2. SUFFICES ASSUME NEW n \in NumaNodes
               PROVE  Cardinality(Used(pages, n)') <= NodeSize
  BY DEF Capacious
<1>3. \A u \in tasks' : pages'[u] = pages[u]
  BY <1>1 DEF Types
<1>4. Used(pages, n)' \in SUBSET Used(pages, n)
  BY <1>1, <1>3 DEF Used
<1>5. /\ IsFiniteSet(Used(pages, n))
      /\ Cardinality(Used(pages, n)) \in Nat
  <2>1. pages \in [Tasks -> [NumaNodes -> Nat]]
    BY DEF Types
  <2>2. IsFiniteSet(Tasks)
    BY NumaAssumption
  <2> QED
    BY <2>1, <2>2, UsedIsFinite
<1>6. /\ Cardinality(Used(pages, n)') \in Nat
      /\ Cardinality(Used(pages, n)') <= Cardinality(Used(pages, n))
  BY <1>4, <1>5, FS_Subset, FS_CardinalityType
<1>7. Cardinality(Used(pages, n)) <= NodeSize
  BY DEF Capacious
<1>8. NodeSize \in Nat
  BY NumaAssumption
<1> QED
  BY <1>5, <1>6, <1>7, <1>8

\* The kernel moves pages only as far as there is room.
LEMMA AllocateFits ==
  ASSUME allocate
  PROVE  Capacious'
<1>1. /\ tasks' = tasks
      /\ Applied
  BY DEF allocate
<1>2. PICK to : pages' \in Moved(to)
  BY <1>1 DEF Applied
<1>3. Room(pages')
  BY <1>2 DEF Moved
<1>4. \A n \in NumaNodes : Used(pages, n)' = Used(pages', n)
  BY <1>1 DEF Used
<1> QED
  BY <1>3, <1>4 DEF Room, Capacious

\* Each step leaves every node with no more memory in use than it has.
LEMMA StepFits ==
  ASSUME IInv, Capacious, [Next]_vars
  PROVE  Capacious'
<1>1. Types
  BY DEF IInv
<1>2. CASE allocate
  BY <1>2, AllocateFits
<1>3. ASSUME NEW t \in Tasks, Leave(t)
      PROVE  Capacious'
  BY <1>1, <1>3, LeaveFits
<1>4. ASSUME NEW t \in Tasks, NEW n \in NumaNodes, Touch(t, n)
      PROVE  Capacious'
  BY <1>1, <1>4, TouchFits
<1>5. CASE UNCHANGED <<tasks, pages>>
  BY <1>5 DEF Capacious, Used
<1>6. Measure \/ Die \/ UNCHANGED vars => UNCHANGED <<tasks, pages>>
  BY DEF Measure, Die, vars
<1> QED
  BY <1>2, <1>3, <1>4, <1>5, <1>6 DEF Next

-----------------------------------------------------------------------------
\* In every reachable state variables have their types, and what the allocator
\* measured says where each task that still runs is pinned.
THEOREM Invariance == Spec => []IInv
<1>1. Init => IInv
  BY DEF Init, IInv, Types, Measured, NoData
<1>2. IInv /\ [Next]_vars => IInv'
  BY NextStep
<1> QED
  BY <1>1, <1>2, PTL DEF Spec

\* Variables have their types and no node ever holds more memory than it has,
\* however many tasks there are, whatever they use and wherever the allocator has
\* their pages moved.
THEOREM TypeCorrect == Spec => []TypeOK
<1>1. Init => Capacious
  <2>1. SUFFICES ASSUME Init, NEW n \in NumaNodes
                 PROVE  Cardinality(Used(pages, n)) <= NodeSize
    BY DEF Capacious
  <2>2. \A t \in tasks : pages[t][n] = 0
    BY <2>1 DEF Init
  <2>3. Used(pages, n) = {}
    BY <2>2 DEF Used
  <2> QED
    BY <2>3, FS_EmptySet, NumaAssumption
<1>2. IInv /\ Capacious /\ [Next]_vars => Capacious'
  BY StepFits
<1>3. IInv /\ Capacious => TypeOK
  <2>1. SUFFICES ASSUME IInv, Capacious
                 PROVE  TypeOK
    OBVIOUS
  <2>2. Types
    BY <2>1 DEF IInv
  <2>3. ASSUME NEW n \in NumaNodes
        PROVE  free[n] \in 0..NodeSize
    <3>1. pages \in [Tasks -> [NumaNodes -> Nat]]
      BY <2>2 DEF Types
    <3>2. IsFiniteSet(Tasks) /\ NodeSize \in Nat
      BY NumaAssumption
    <3>3. Cardinality(Used(pages, n)) \in Nat
      BY <2>2, <3>1, <3>2, UsedIsFinite
    <3>4. Cardinality(Used(pages, n)) <= NodeSize
      BY <2>1 DEF Capacious
    <3>5. free[n] = NodeSize - Cardinality(Used(pages, n))
      BY DEF free
    <3> QED
      BY <3>2, <3>3, <3>4, <3>5
  <2> QED
    BY <2>2, <2>3 DEF Types, TypeOK
<1> QED
  BY <1>1, <1>2, <1>3, Invariance, PTL DEF Spec

\* A task that is pinned stays on its node as long as it runs, and its pages are
\* moved to that node only, whatever the settings and however many tasks and
\* nodes there are.
THEOREM PinnedStayAndGather == Spec => StaysAndGathers
<1>1. IInv /\ [Next]_vars =>
        [\A t \in tasks \cap tasks' : pinned[t] # NotPinned =>
           /\ pinned'[t] = pinned[t]
           /\ pages'[t][pinned[t]] >= pages[t][pinned[t]]]_vars
  BY NextStep DEF Steady
<1> QED
  BY <1>1, Invariance, PTL DEF Spec, StaysAndGathers

=============================================================================
