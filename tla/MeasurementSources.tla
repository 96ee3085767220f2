------------------------- MODULE MeasurementSources -------------------------
(***************************************************************************)
(* Where the agent's measurements come from: for a task its cgroup, its    *)
(* perf events, its monitoring group, /proc/PID/smaps and /proc/PID/sched  *)
(* (src/wca/{containers,cgroups,perf,resctrl,sched_stats}.py); for the     *)
(* machine /proc, /sys, the uncore counters and two external tools         *)
(* (src/wca/{platforms,perf_uncore,pmembw,zoneinfo,vmstats}.py).           *)
(*                                                                         *)
(* A setup is the agent's configuration with the machine it runs on:       *)
(*   node       "kubelet", "kubeapi", "mesos" or "static"                  *)
(*   systemd    kubernetes' cgroup driver is systemd                       *)
(*   rdt        rdt_enabled: "auto", "on" or "off"                         *)
(*   events, aggregate, derived, uncore, wss, sched, zoneinfo, vmstat,     *)
(*   topology   the runner's options (topology: "auto", "on" or "off")     *)
(*   detector   the runner is a DetectionRunner                            *)
(*   storages   sequence of "log" and "kafka"                              *)
(*   resctrl, monitoring, supported (events), ht, root, tools (ipmctl and  *)
(*   dmidecode are installed), pmus (kinds of uncore units)                *)
(* What a machine does at a moment - whether a counter ran, or anything    *)
(* was counted - is a parameter of the operators.                          *)
(***************************************************************************)
EXTENDS Metrics

At(depth, names) == [m \in names |-> depth]

-----------------------------------------------------------------------------
(* Tasks. *)

\* The events this cpu can count.
filter_out_event_names_for_cpu(setup) == setup.events \cap setup.supported

\* A cgroup that is gone is a missing measurement.
Cgroup_get_measurements(exists) ==
  IF ~exists
    THEN Raises("missing")
    ELSE Returns(At(0, {"task_cpu_usage", "task_mem_usage"})
                   ++ At(1, {"task_mem_numa_pages"}))

\* Events are opened per cpu for the cgroup's directory; they are read also
\* after the cgroup was removed.
PerfCounters_open(setup, exists) ==
  filter_out_event_names_for_cpu(setup) = {} \/ exists

\* The cpu usage counted so far is forgotten when a container is created.
reset_counters(exists) == exists

PerfCounters_get_measurements(setup) ==
  At(IF setup.aggregate THEN 0 ELSE 1,
     filter_out_event_names_for_cpu(setup) \cup {"task_scaling_factor"})

ResGroup_get_measurements == At(0, {"task_mem_bandwidth", "task_llc_occupancy"})

\* alive: the processes listed in the cgroup are still there when
\* /proc/PID/sched is opened.
get_pids_sched_measurements(alive) ==
  IF alive
    THEN merge_measurements(TRUE, At(1, {"task_sched_stat"})
                                    ++ At(2, {"task_sched_stat_numa_faults"}))
    ELSE Raises("process")

\* One cgroup.  grouped: the container holds a resctrl group; reference bits
\* are only measured with one, and the variable is unbound without.
Container__get_measurements(setup, wss, grouped, exists, alive) ==
  Then(Cgroup_get_measurements(exists), LAMBDA cgroup :
  Then(IF setup.sched THEN get_pids_sched_measurements(alive) ELSE Returns(None), LAMBDA sched :
    IF wss /\ ~grouped
      THEN Raises("unbound")
      ELSE flatten_measurements(
             <<cgroup,
               IF grouped THEN ResGroup_get_measurements ELSE None,
               IF filter_out_event_names_for_cpu(setup) # {}
                 THEN PerfCounters_get_measurements(setup) ELSE None,
               IF wss THEN At(0, {"task_wss"}) ELSE None,
               sched>>)))

\* With derived metrics: prev are the metrics measured the last time.
Container_get_measurements(setup, wss, grouped, exists, alive, prev, ran) ==
  Then(Container__get_measurements(setup, wss, grouped, exists, alive),
       LAMBDA measured : IF setup.derived
                           THEN PerfCgroup_derive(setup.aggregate, measured, prev, ran)
                           ELSE Returns(measured))

\* A pod: the resctrl group and the reference bits are the pod's, the rest is
\* the sum over its containers, which have no group of their own.
ContainerSet_get_measurements(setup, grouped, exists, alive, prev, ran) ==
  Then(Container_get_measurements(setup, FALSE, FALSE, exists, alive, prev, ran),
       LAMBDA contained :
  Then(merge_measurements(setup.aggregate, contained),
       LAMBDA merged :
         Returns(merged ++ (IF grouped THEN ResGroup_get_measurements ELSE None)
                        ++ (IF setup.wss THEN At(0, {"task_wss"}) ELSE None))))

-----------------------------------------------------------------------------
(* The machine. *)

\* Every uncore unit must exist, whatever events are asked for.
_discover_pmu_uncore_config(setup) == {"imc", "upi", "cha"} \subseteq setup.pmus

\* Opening the uncore counters takes privileges nobody has checked for.
UncorePerfCounters_open(setup) == setup.root

\* ran: the counters ran since they were opened; if not, the scaling factor
\* looked up has no name.
UncorePerfCounters_get_measurements(setup, ran) ==
  IF ran
    THEN Returns(At(2, setup.uncore \cup {"platform_scaling_uncore_factor"}))
    ELSE Raises("name")

uncore_get_measurements(setup, prev, ran, busy) ==
  IF setup.uncore = {}
    THEN Returns(None)
    ELSE Then(UncorePerfCounters_get_measurements(setup, ran),
              LAMBDA measured : IF setup.derived THEN Uncore_derive(measured, prev, busy)
                                ELSE Returns(measured))

\* Once per run of the agent, from ipmctl.
_get_ipmctl(setup) == setup.tools
_get_ipmctl_dimm_info == At(0, {"platform_nvdimm"})
get_bandwidth(setup) ==
  IF _get_ipmctl(setup)
    THEN At(1, {"platform_nvdimm_bandwidth"}) ++ _get_ipmctl_dimm_info
    ELSE None

get_zoneinfo_measurements == At(3, {"platform_zoneinfo"})
parse_vmstat_keys == At(2, {"platform_node_vmstat"}) ++ At(1, {"platform_vmstat"})

_parse_dmidecode_output == At(1, {"platform_dimm"}) ++ At(0, {"platform_dimm_speed"})

\* Once per run of the agent, from ipmctl and dmidecode; in strict mode both
\* must be there.
get_platform_static_information(setup) ==
  IF setup.tools
    THEN Returns(At(0, {"platform_mem_mode_size"}) ++ _parse_dmidecode_output)
    ELSE IF setup.topology = "on" THEN Raises("tools") ELSE Returns(None)

\* Readers of /proc/stat, /proc/meminfo, /proc/vmstat and the meminfo of nodes.
parse_proc_stat == At(1, {"platform_cpu_usage"})
parse_proc_meminfo == At(0, {"platform_mem_usage"})
parse_proc_vmstat == At(0, {"platform_vmstat_counter"})
parse_node_meminfo == At(1, {"platform_mem_numa"})

\* The topology is known, everything else is exported.
create_metrics(setup, measurements) ==
  Then(export_metrics_from_measurements(setup.aggregate, measurements),
       LAMBDA metrics :
         Returns(At(0, {"platform_topology", "platform_last_seen", "wca"}) ++ metrics))

collect_platform_information(setup, extra) ==
  Then(IF setup.topology = "off" THEN Returns(None) ELSE get_platform_static_information(setup),
       LAMBDA static :
         create_metrics(setup, parse_proc_vmstat ++ static ++ extra ++ parse_node_meminfo
                                 ++ parse_proc_meminfo ++ parse_proc_stat))

\* What one iteration measures of the machine.
PlatformMeasurements(setup, prev, ran, busy) ==
  Then(uncore_get_measurements(setup, prev, ran, busy),
       LAMBDA uncore :
         collect_platform_information(setup,
           uncore ++ get_bandwidth(setup)
             ++ (IF setup.zoneinfo THEN get_zoneinfo_measurements ELSE None)
             ++ (IF setup.vmstat THEN parse_vmstat_keys ELSE None)))
=============================================================================
