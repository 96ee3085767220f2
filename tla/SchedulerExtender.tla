------------------------- MODULE SchedulerExtender -------------------------
(***************************************************************************)
(* wca-scheduler as an extender of kube-scheduler: the request handlers of *)
(* wca/scheduler/server.py, each of which reads nodes, pods and metrics    *)
(* one request after another (cluster_data_provider.py, kubeapi.py,        *)
(* prometheus.py), decides with an algorithm of SchedulerAlgorithms,       *)
(* counts in the metrics registry and answers.                             *)
(*                                                                         *)
(* External: the cluster (nodes join, pods are bound, started and deleted; *)
(* a pod kube-scheduler has not asked for yet is as good as not created)   *)
(* and kube-scheduler, which schedules one pod at a time, gives            *)
(* up waiting after a timeout and tries a pod again.                       *)
(***************************************************************************)
EXTENDS SchedulerAlgorithms

CONSTANTS
  Nodes,         \* nodes there may be
  Late,          \* nodes that may join while the extender runs
  NodeType,      \* NodeType[n]: "dram" or "pmem"
  Capacity,      \* Capacity[n]: resources of node n
  Requested,     \* Requested[a]: resources an app asks for
  Score,         \* Score[a]: score of app a
  Foreign,       \* pods that may be of a namespace that is not monitored
  Handlers,      \* request handlers that run at the same time
  MaxExtra,      \* bound on timeouts and calls of /reschedule together
  MaxMissing     \* counts missing, beyond which they are not told apart

\* No pod, no node, no handler.
None == 0

ASSUME ExtenderAssumption ==
  /\ IsFiniteSet(Nodes)
  /\ Late \subseteq Nodes
  /\ Foreign \subseteq Tasks /\ None \notin Tasks
  /\ {MaxExtra, MaxMissing} \subseteq Nat
  /\ 1 \in DOMAIN Score
  /\ \A a \in DOMAIN Score : Score[a] \in Int

\* Node n has all that the pods of a set ask for.
Fits(n, pods) ==
  enough_resources_on_node(Capacity[n],
                           used_resources_on_node(Dimensions, pods, Requested),
                           calculate_read_write_ratio(Capacity[n]))

\* Neither requests nor capacities are negative, and a node that has a capacity for
\* reads and writes of memory can do some of both.
ASSUME ResourcesAssumption ==
  /\ IsFiniteSet(Tasks)
  /\ \A p \in Tasks : Requested[AppOf[p]] \in [Dimensions -> Amount]
  /\ \A n \in Nodes :
       /\ Capacity[n] \in [Dimensions -> Amount]
       /\ \A d \in Dimensions \cap {"membw_read", "membw_write"} : Capacity[n][d][1] > 0

VARIABLES
  algorithm,  \* algorithm in the configuration
  ignored,    \* pods of namespaces that are not monitored
  nodes,      \* nodes of the cluster
  profiled,   \* apps that Prometheus has a score of
  cached,     \* nodes_type, read when the extender started
  pod,        \* state of a pod
  on,         \* spec.nodeName of a pod, or None
  handler,    \* handler[h]: the request it works on
  missing,    \* how many requests each counter has not counted
  scheduler,  \* kube-scheduler: what it does, for which pod, waiting for whom
  unseen,     \* history: nodes a pod was bound to without seeing all its pods
  abandoned,  \* history: counters of requests kube-scheduler did not wait for
  timeouts, reschedules

vars == <<algorithm, ignored, nodes, profiled, cached, pod, on, handler, missing,
          scheduler, unseen, abandoned, timeouts, reschedules>>

cluster == <<nodes, profiled, pod, on, unseen>>

bounds == <<abandoned, timeouts, reschedules>>

Counters == {"filter", "prioritize", "pod_ignore_filter", "pod_ignore_prioritize"}

\* step: what the handler does next; names: nodes of the request, then of the
\* answer; known: nodes it read; seen: what get_apps_counts returned; todo: pods
\* to delete; behind: additions to its counter since it read it.
\* History: blind: nodes with pods it could not see.
Idle == [op |-> "none", pod |-> None, step |-> "done", names |-> {}, known |-> {},
         seen |-> <<>>, blind |-> {}, todo |-> <<>>, behind |-> 0]

Waiting == [step |-> "idle", pod |-> None, on |-> None, names |-> {}, blind |-> {}]

\* Pods that take room on node n.
Bound(n) == {p \in Tasks : on[p] = n /\ pod[p] \in {"bound", "running"}}

\* A request for a pod of another namespace is answered without the algorithm.
Ignored(h) == handler[h].op \in {"filter", "prioritize"} /\ handler[h].pod \in ignored

\* The counter of a request to filter or prioritize.
Counter(h) ==
  CASE ~Ignored(h) -> handler[h].op
    [] Ignored(h) /\ handler[h].op = "filter" -> "pod_ignore_filter"
    [] OTHER -> "pod_ignore_prioritize"

Init ==
  /\ algorithm \in {"Fit", "Score"}
  /\ ignored \in {{}, Foreign}
  /\ nodes \in {Nodes, Nodes \ Late}
  /\ profiled = {1}
  /\ cached = [n \in nodes |-> NodeType[n]]
  /\ pod = [p \in Tasks |-> "pending"]
  /\ on = [p \in Tasks |-> None]
  /\ handler = [h \in Handlers |-> Idle]
  /\ missing = [c \in Counters |-> 0]
  /\ scheduler = Waiting
  /\ unseen = {} /\ abandoned = {}
  /\ timeouts = 0 /\ reschedules = 0

-----------------------------------------------------------------------------
(***************************************************************************)
(* The cluster (external).                                                 *)
(***************************************************************************)
NodeJoins(n) ==
  /\ n \in Late \ nodes
  /\ nodes' = nodes \cup {n}
  /\ UNCHANGED <<algorithm, ignored, profiled, cached, pod, on, handler, missing,
                 scheduler, unseen, bounds>>

\* The last score of an app becomes known.
AppsProfiled ==
  /\ profiled # DOMAIN Score
  /\ profiled' = DOMAIN Score
  /\ UNCHANGED <<algorithm, ignored, nodes, cached, pod, on, handler, missing,
                 scheduler, unseen, bounds>>

\* The kubelet reports status.hostIP.
PodStarted(p) ==
  /\ pod[p] = "bound"
  /\ pod' = [pod EXCEPT ![p] = "running"]
  /\ UNCHANGED <<algorithm, ignored, nodes, profiled, cached, on, handler, missing,
                 scheduler, unseen, bounds>>

-----------------------------------------------------------------------------
(***************************************************************************)
(* kube-scheduler (external).                                              *)
(***************************************************************************)
\* Which of the idle handlers takes a request does not matter.
Takes(h) == /\ handler[h].op = "none"
            /\ h = CHOOSE g \in Handlers : handler[g].op = "none"

Request(h, op, p, names) ==
  handler' = [handler EXCEPT ![h] =
    [Idle EXCEPT !.op = op, !.pod = p, !.names = names, !.step = "nodes"]]

Ask(p, h) ==
  /\ scheduler.step = "idle"
  /\ pod[p] = "pending"
  /\ Takes(h)
  /\ Request(h, "filter", p, nodes)
  /\ scheduler' = [Waiting EXCEPT !.step = "filter", !.pod = p, !.on = h]
  /\ UNCHANGED <<algorithm, ignored, cached, cluster, missing, bounds>>

\* The answer to /filter: no node, one node, or several to be prioritized.
Filtered(h) ==
  /\ scheduler.step = "filter" /\ scheduler.on = h
  /\ handler[h].step = "answered"
  /\ LET names == handler[h].names
     IN  IF names = {}
         THEN /\ scheduler' = Waiting
              /\ handler' = [handler EXCEPT ![h] = Idle]
         ELSE /\ scheduler' = [scheduler EXCEPT !.step = "prioritize",
                                 !.names = names, !.blind = handler[h].blind]
              /\ Request(h, "prioritize", scheduler.pod, names)
  /\ UNCHANGED <<algorithm, ignored, cached, cluster, missing, bounds>>

\* The answer to /prioritize is one summand of a node's score: any of the nodes
\* that were accepted may win.
Bind(h, n) ==
  /\ scheduler.step = "prioritize" /\ scheduler.on = h
  /\ handler[h].step = "answered"
  /\ n \in scheduler.names
  /\ pod' = [pod EXCEPT ![scheduler.pod] = "bound"]
  /\ on' = [on EXCEPT ![scheduler.pod] = n]
  /\ unseen' = unseen \cup ({n} \cap scheduler.blind)
  /\ scheduler' = Waiting
  /\ handler' = [handler EXCEPT ![h] = Idle]
  /\ UNCHANGED <<algorithm, ignored, nodes, profiled, cached, missing, bounds>>

\* HTTP error 500: the pod is tried again.
Refused(h) ==
  /\ scheduler.on = h /\ scheduler.step # "idle"
  /\ handler[h].step = "failed"
  /\ scheduler' = Waiting
  /\ handler' = [handler EXCEPT ![h] = Idle]
  /\ UNCHANGED <<algorithm, ignored, cached, cluster, missing, bounds>>

\* kube-scheduler stops waiting; the handler does not know.  What it has yet to
\* read and to decide changes nothing any more, only what it adds to its counter.
Timeout ==
  /\ scheduler.step # "idle"
  /\ handler[scheduler.on].step \notin {"answered", "failed"}
  /\ timeouts + reschedules < MaxExtra
  /\ timeouts' = timeouts + 1
  /\ abandoned' = abandoned \cup {Counter(scheduler.on)}
  /\ scheduler' = Waiting
  /\ handler' = [handler EXCEPT ![scheduler.on] =
       [Idle EXCEPT !.op = handler[scheduler.on].op,
          !.pod = IF scheduler.pod \in ignored THEN scheduler.pod ELSE None,
          !.behind = handler[scheduler.on].behind,
          !.step = IF handler[scheduler.on].step = "add" THEN "add" ELSE "count"]]
  /\ UNCHANGED <<algorithm, ignored, cached, cluster, missing, reschedules>>

\* An answer nobody waits for, and that of /reschedule.
Dropped(h) ==
  /\ handler[h].step \in {"answered", "failed"}
  /\ scheduler.step = "idle" \/ scheduler.on # h
  /\ handler' = [handler EXCEPT ![h] = Idle]
  /\ UNCHANGED <<algorithm, ignored, cached, cluster, missing, scheduler, bounds>>

\* GET /reschedule, from outside.
CallReschedule(h) ==
  /\ Takes(h)
  /\ timeouts + reschedules < MaxExtra
  /\ reschedules' = reschedules + 1
  /\ Request(h, "reschedule", None, {})
  /\ UNCHANGED <<algorithm, ignored, cached, cluster, missing, scheduler, abandoned,
                 timeouts>>

-----------------------------------------------------------------------------
(***************************************************************************)
(* The handlers of the server.                                             *)
(***************************************************************************)
others == <<algorithm, ignored, cached, cluster, scheduler, bounds>>

\* get_apps_counts: nodes.
ReadNodes(h) ==
  /\ handler[h].step = "nodes"
  /\ handler' = [handler EXCEPT
       ![h] = IF Ignored(h)
              THEN [@ EXCEPT !.step = "count"]
              ELSE [@ EXCEPT !.step = "pods", !.known = nodes]]
  /\ UNCHANGED <<others, missing>>

\* A pod counts if it has a nodeName and a hostIP.
Counts(p) == pod[p] = "running"

\* get_apps_counts: pods of the monitored namespaces.  A pod on a node that was
\* not read is a KeyError.
ReadPods(h) ==
  /\ handler[h].step = "pods"
  /\ LET counted == {p \in Tasks \ ignored : Counts(p)}
     IN  handler' = [handler EXCEPT ![h] =
           IF \E p \in counted : on[p] \notin handler[h].known
           THEN [@ EXCEPT !.step = "failed"]
           ELSE [@ EXCEPT !.step = "decide",
                   !.seen = [n \in handler[h].known |-> {p \in counted : on[p] = n}],
                   !.blind = {on[p] : p \in {r \in Tasks \ ignored : pod[r] = "bound"}
                                             \ counted}]]
  /\ UNCHANGED <<others, missing>>

\* What does not depend on pods is read when the algorithm runs.
get_nodes_capacities == [n \in nodes |-> Capacity[n]]

\* requested_resources of apps, as Prometheus has them.
get_apps_requested_resources == Requested

get_apps_profile == [a \in profiled |-> Score[a]]

get_nodes_type == [n \in nodes |-> NodeType[n]]

\* query_data_provider, and what Score reads; no node has its cpu scaled, and the
\* dram hit ratio of none is too low.
Query(h) ==
  [capacities |-> get_nodes_capacities,
   assigned |-> handler[h].seen,
   spec |-> get_apps_requested_resources,
   profile |-> get_apps_profile,
   types |-> get_nodes_type,
   cached |-> cached, pmem |-> {}, violated |-> {}]

\* KeyError, DataMissingException in the loop over the nodes of the request.
Raises(q, h) ==
  \E n \in handler[h].names :
    \/ DataMissing(q, n, AppOf[handler[h].pod])
    \/ algorithm = "Score" /\ n \notin DOMAIN cached

Filter(h) ==
  /\ handler[h].op = "filter" /\ handler[h].step = "decide"
  /\ \E q \in {Query(h)} :
       IF Raises(q, h) THEN handler' = [handler EXCEPT ![h].step = "failed"]
       ELSE \E answer \in filter(algorithm, q, handler[h].names,
                                 AppOf[handler[h].pod]) :
            handler' = [handler EXCEPT ![h] =
              [@ EXCEPT !.step = "count", !.names = answer.NodeNames,
                        !.known = {}, !.seen = <<>>]]
  /\ UNCHANGED <<others, missing>>

\* What was read is not looked at: Fit and Score give every node the same priority.
Prioritize(h) ==
  /\ handler[h].op = "prioritize" /\ handler[h].step = "decide"
  /\ handler' = [handler EXCEPT ![h] =
       [@ EXCEPT !.step = "count", !.names = {}, !.known = {}, !.seen = <<>>]]
  /\ UNCHANGED <<others, missing>>

\* MetricRegistry.add, value += 1: the value is read ...
CountRead(h) ==
  /\ handler[h].step = "count"
  /\ handler' = [handler EXCEPT ![h].step = "add"]
  /\ UNCHANGED <<others, missing>>

\* Mutant: found by its labels, of which no counter has any.
SameLabels(g, c) == TRUE

\* The handler adds to the metric of that name.
SameMetric(g, c) == Counter(g) = c

\* Mutant: one addition too many is taken off.
Overwrites_less(h) == handler[h].behind - 1

\* Additions the handler undoes by writing one more than it read.
Overwrites(h) == handler[h].behind

\* ... and written; another handler may have added in between.
CountWrite(h) ==
  /\ handler[h].step = "add"
  /\ LET Bounded(n) == IF n > MaxMissing THEN MaxMissing ELSE n
         c == Counter(h)
     IN  /\ missing' = [missing EXCEPT ![c] = Bounded(@ + Overwrites(h))]
         /\ handler' = [g \in Handlers |->
              CASE g = h -> [handler[h] EXCEPT !.step = "answered", !.behind = 0]
                [] g # h /\ handler[g].step = "add" /\ SameMetric(g, c) ->
                     [handler[g] EXCEPT !.behind = Bounded(@ + 1)]
                [] OTHER -> handler[g]]
  /\ UNCHANGED others

\* Score looks up in its cached types the nodes that it read with the pods and,
\* once it considers a pod of a dram node, those it reads with their capacities.
LookupRaises(h) ==
  /\ algorithm = "Score"
  /\ \/ ~handler[h].known \subseteq DOMAIN cached
     \/ Misplaced(Query(h), "dram") # {} /\ ~nodes \subseteq DOMAIN cached

\* reschedule_once: what to delete.
Reschedule(h) ==
  /\ handler[h].op = "reschedule" /\ handler[h].step = "decide"
  /\ handler' = [handler EXCEPT ![h] =
       IF LookupRaises(h)
       THEN [@ EXCEPT !.step = "failed"]
       ELSE LET result == reschedule(algorithm, Query(h))
            IN  [@ EXCEPT !.todo = result,
                   !.step = IF result = <<>> THEN "answered" ELSE "delete"]]
  /\ UNCHANGED <<others, missing>>

\* kubeapi.delete of one pod: a pod that is not there any more is an error 404,
\* which ends the request.
Delete(h) ==
  /\ handler[h].step = "delete"
  /\ LET p == Head(handler[h].todo)
     IN  IF pod[p] = "gone"
         THEN /\ handler' = [handler EXCEPT ![h].step = "failed", ![h].todo = <<>>]
              /\ UNCHANGED <<pod, on>>
         ELSE /\ pod' = [pod EXCEPT ![p] = "gone"]
              /\ on' = [on EXCEPT ![p] = None]
              /\ handler' = [handler EXCEPT
                   ![h].todo = Tail(@),
                   ![h].step = IF Len(handler[h].todo) = 1 THEN "answered" ELSE @]
  /\ UNCHANGED <<algorithm, ignored, cached, nodes, profiled, unseen, scheduler, bounds, missing>>

Serve(h) ==
  \/ ReadNodes(h) \/ ReadPods(h) \/ Filter(h) \/ Prioritize(h)
  \/ CountRead(h) \/ CountWrite(h) \/ Reschedule(h) \/ Delete(h)

KubeScheduler ==
  \/ \E p \in Tasks, h \in Handlers : Ask(p, h)
  \/ \E h \in Handlers : Filtered(h) \/ Refused(h) \/ Dropped(h)
  \/ \E h \in Handlers, n \in Nodes : Bind(h, n)

Next ==
  \/ \E n \in Nodes : NodeJoins(n)
  \/ AppsProfiled
  \/ \E p \in Tasks : PodStarted(p)
  \/ KubeScheduler
  \/ Timeout
  \/ \E h \in Handlers : CallReschedule(h) \/ Serve(h)

\* Handlers and kube-scheduler keep working; each pod gets its turn again and
\* again, and a pod that is bound starts.
Fairness ==
  /\ \A h \in Handlers :
       /\ WF_vars(Serve(h))
       /\ WF_vars(Filtered(h) \/ Refused(h) \/ Dropped(h) \/ \E n \in Nodes : Bind(h, n))
  /\ \A p \in Tasks :
       /\ SF_vars(\E h \in Handlers : Ask(p, h))
       /\ WF_vars(PodStarted(p))

Spec == Init /\ [][Next]_vars /\ Fairness

-----------------------------------------------------------------------------
(***************************************************************************)
(* Properties.                                                             *)
(***************************************************************************)

\* Every variable has a value of its type, and a pod that was bound has a node.
TypeOK ==
  /\ algorithm \in {"Fit", "Score"}
  /\ nodes \subseteq Nodes /\ unseen \subseteq Nodes
  /\ DOMAIN cached \subseteq nodes /\ profiled \subseteq DOMAIN Score
  /\ pod \in [Tasks -> {"pending", "bound", "running", "gone"}]
  /\ on \in [Tasks -> Nodes \cup {None}]
  /\ \A p \in Tasks : pod[p] \in {"bound", "running"} => on[p] \in nodes
  /\ missing \in [Counters -> 0..MaxMissing] /\ abandoned \subseteq Counters
  /\ \A h \in Handlers : DOMAIN handler[h].seen \subseteq nodes

\* Pods of the default namespace never need more than a node has, unless the
\* extender decided on a pod without having seen all pods of the node: bound,
\* but not started when it read them.
FitsUnlessUnseen == \A n \in nodes \ unseen : Fits(n, Bound(n) \ ignored)

\* No addition to a counter is lost to a handler that adds at the same time, as
\* long as kube-scheduler has waited for every answer to the requests it counts:
\* a handler left behind by a timeout may undo others of its kind, however many,
\* and none of another kind.  (A request answered with an error is not counted.)
Counted == \A c \in Counters \ abandoned : missing[c] = 0

\* What Score deletes fits: once the pods listed are gone, there is a pmem node
\* for each of them that was on a dram node, next to the pods that stay there and
\* the others that come, unless a pod was bound to a pmem node without having
\* seen all its pods, and the node may have been too full all along.
MovesHaveRoom ==
  \A h \in Handlers :
    LET pmem == {n \in DOMAIN handler[h].seen : NodeType[n] = "pmem"}
        todo == Range(handler[h].todo)
        Staying(n) == {p \in handler[h].seen[n] : p \notin todo /\ pod[p] # "gone"}
        coming == {p \in todo : pod[p] = "running" /\ NodeType[on[p]] = "dram"}
    IN  handler[h].step = "delete" /\ pmem \cap unseen = {} =>
          \E place \in [coming -> pmem] : \A n \in pmem :
            Fits(n, Staying(n) \cup {p \in coming : place[p] = n})

\* Every pod of a cluster without late nodes (or with Fit, which caches no node
\* types) is bound in the end, or there is no room for it.
EventuallyBound ==
  \A p \in Tasks :
    pod[p] = "pending" ~>
      \/ pod[p] # "pending"
      \/ algorithm = "Score" /\ ~nodes \subseteq DOMAIN cached
      \/ \A n \in nodes : ~Fits(n, (Bound(n) \cup {p}) \ ignored)

=============================================================================
