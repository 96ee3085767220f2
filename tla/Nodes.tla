-------------------------------- MODULE Nodes --------------------------------
(***************************************************************************)
(* How the agent learns which tasks run on its host: from a Kubernetes API *)
(* server or kubelet (src/wca/kubernetes.py), a Mesos agent                *)
(* (src/wca/mesos.py) or a list of cgroups (src/wca/extra/static_node.py). *)
(*                                                                         *)
(* pods is what the orchestrator knows: a function from tasks to records   *)
(*   state    "absent", "starting" (no container status yet, or a          *)
(*            container that is not ready), "ready" (for Mesos: the last   *)
(*            status is RUNNING) or "ended"                                *)
(*   cgroup   its cgroups exist (for Mesos: its executor's do)             *)
(*   ours     of this host and a monitored namespace (Mesos: the status    *)
(*            names the executor's pid; static: a configured cgroup)       *)
(* answer is how the request ended: "ok", "refused" (connection error),    *)
(* "timeout" or "error" (an HTTP status that is not a success).            *)
(***************************************************************************)
EXTENDS Metrics

\* With the cgroupfs driver the path of a ready pod's cgroup is looked up.
_build_cgroup_path(setup, pod) ==
  IF setup.systemd \/ pod.cgroup THEN "no" ELSE "cgroup"

\* The hosts of pods are not compared.
ReadyPods_anywhere(pods) == {t \in DOMAIN pods : pods[t].state = "ready"}

\* kubeapi answers per monitored namespace with the pods of every host, kubelet
\* with the pods of every namespace of its host: both are filtered.
ReadyPods(pods) == {t \in DOMAIN pods : pods[t].state = "ready" /\ pods[t].ours}

KubernetesNode_get_tasks(setup, answer, pods) ==
  CASE answer \in {"refused", "timeout"} -> Raises("synchronization")
    [] answer = "error" -> Raises("http")
    [] answer = "ok" ->
         IF \E t \in ReadyPods(pods) : _build_cgroup_path(setup, pods[t]) # "no"
           THEN Raises("cgroup")
           ELSE Returns(ReadyPods(pods))

\* /proc/PID/cgroup of the executor names a cgroup.
find_cgroup(task) == task.cgroup

\* A task whose executor has no cgroup is ignored.
MesosNode_get_tasks(answer, pods) ==
  CASE answer = "refused" -> Raises("synchronization")
    [] answer \in {"timeout", "error"} -> Raises("http")
    [] answer = "ok" ->
         Returns({t \in DOMAIN pods : pods[t].state = "ready" /\ pods[t].ours /\ find_cgroup(pods[t])})

StaticNode_get_tasks(pods) ==
  Returns({t \in DOMAIN pods : pods[t].ours /\ pods[t].cgroup})

get_tasks(setup, answer, pods) ==
  CASE setup.node \in {"kubelet", "kubeapi"} -> KubernetesNode_get_tasks(setup, answer, pods)
    [] setup.node = "mesos" -> MesosNode_get_tasks(answer, pods)
    [] setup.node = "static" -> StaticNode_get_tasks(pods)

Answers(setup) == IF setup.node = "static" THEN {"ok"}
                  ELSE {"ok", "refused", "timeout", "error"}

\* Pods are sets of containers, other tasks are one container.
IsSet(setup) == setup.node \in {"kubelet", "kubeapi"}
=============================================================================
