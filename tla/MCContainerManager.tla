------------------------ MODULE MCContainerManager ------------------------
(***************************************************************************)
(* Small instances of ContainerManager.                                    *)
(***************************************************************************)
EXTENDS ContainerManager, TLC

\* An allocator that may return anything, for any tasks.
AnyAllocation(S) == RdtAllocations

\* An allocator with one answer for each set of tasks: a container is in one
\* group when it is alone, and when both are there the first of them leaves
\* that group for another one while the second enters it.
CompanyAllocation(S) ==
  LET shared == CHOOSE g \in Groups : TRUE
      other  == CHOOSE g \in Groups \ {shared} : TRUE
      first  == CHOOSE c \in Containers : TRUE
  IN  {[c \in S |-> IF c = first /\ S = Containers THEN other ELSE shared]}

\* Tasks end between the iterations only; their processes whenever they like.
TasksEndBetween == listed' # listed => pc = "idle"

FairMovesSpec == Init /\ [][Next /\ TasksEndBetween]_vars /\ WF_vars(Agent)

Sym ==
  Permutations(Pids) \cup Permutations(Containers) \cup Permutations(Groups)

===========================================================================
