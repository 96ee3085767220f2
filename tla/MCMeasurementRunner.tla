------------------------ MODULE MCMeasurementRunner ------------------------
(* Small instance of MeasurementRunner: setups that differ in everything   *)
(* the agent branches on.                                                  *)
EXTENDS MeasurementRunner

Plain ==
  [node |-> "static", systemd |-> FALSE, rdt |-> "auto", events |-> {}, aggregate |-> TRUE,
   derived |-> FALSE, uncore |-> {}, wss |-> FALSE, sched |-> FALSE, zoneinfo |-> FALSE,
   vmstat |-> FALSE, topology |-> "off", detector |-> FALSE, storages |-> <<"log">>,
   resctrl |-> FALSE, monitoring |-> FALSE, supported |-> KnownEvents, ht |-> TRUE,
   root |-> TRUE, tools |-> FALSE, pmus |-> {}]

Core == Names(CoreEvents)

MCSetups ==
  { \* pods, all sources
    [Plain EXCEPT !.node = "kubelet", !.events = Core \cup {"task_raw_event"},
       !.aggregate = FALSE, !.derived = TRUE, !.sched = TRUE, !.wss = TRUE,
       !.resctrl = TRUE, !.monitoring = TRUE, !.zoneinfo = TRUE, !.vmstat = TRUE],
    \* flat tasks, the machine's counters
    [Plain EXCEPT !.node = "mesos", !.events = {"task_instructions", "task_cycles"},
       !.aggregate = FALSE, !.derived = TRUE,
       !.uncore = KnownUncoreEvents, !.pmus = {"imc", "upi", "cha"}, !.topology = "auto",
       !.tools = TRUE],
    \* summed events, pods under systemd, two storages
    [Plain EXCEPT !.node = "kubeapi", !.systemd = TRUE, !.events = Core,
       !.derived = TRUE, !.storages = <<"kafka", "log">>],
    \* detection
    [Plain EXCEPT !.detector = TRUE, !.rdt = "on", !.resctrl = TRUE, !.monitoring = TRUE,
       !.wss = TRUE],
    \* setups that do not start, or, as monitoring is missing, end in every iteration
    [Plain EXCEPT !.rdt = "on"],
    [Plain EXCEPT !.events = KnownEvents, !.supported = KnownEvents, !.root = FALSE],
    [Plain EXCEPT !.topology = "on"],
    [Plain EXCEPT !.uncore = {"platform_cas_count"}, !.pmus = {"imc", "upi", "cha"},
       !.root = FALSE],
    [Plain EXCEPT !.resctrl = TRUE, !.wss = TRUE],
    [Plain EXCEPT !.resctrl = TRUE, !.rdt = "off"] }

=============================================================================
