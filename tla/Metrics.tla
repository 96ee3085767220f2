------------------------------- MODULE Metrics -------------------------------
(***************************************************************************)
(* The metrics of the agent (src/wca/metrics.py) and what happens to a     *)
(* measurement whose shape is not the one METRICS_METADATA gives.          *)
(*                                                                         *)
(* A measured value is a number, or a dictionary of measured values, one   *)
(* nesting per level of the metric; all the code asks of it is how deep it *)
(* nests.  Measurements are therefore functions from metrics to depths.    *)
(* Metrics with the same source, levels and use share one name here, e.g.  *)
(* "task_event" stands for all events no derived metric is computed from.  *)
(***************************************************************************)
EXTENDS Naturals, Sequences

\* The dictionary f and what else g has.
f ++ g ==
  CHOOSE h \in {[x \in DOMAIN a \cup DOMAIN b |-> IF x \in DOMAIN a THEN a[x] ELSE b[x]] :
                  a \in {f}, b \in {g}} : TRUE

\* The metrics of these names, which share what the catalogue says of them.
Metadata(source, levels, names) == {[source |-> source, levels |-> levels, names |-> names]}

Names(entries) == UNION {e.names : e \in entries}

\* The events derived metrics are computed from, and the other ones.
CoreEvents ==
  Metadata("perf_cgroup", <<>>, {"task_instructions", "task_cycles",
                                 "task_cache_misses", "task_cache_references"})
OtherEvents == Metadata("perf_cgroup", <<>>, {"task_event"})
ScalingFactors == Metadata("perf_cgroup", <<>>, {"task_scaling_factor"})
DerivedEvents ==
  Metadata("derived_perf_cgroup", <<>>,
           {"task_ips", "task_ipc", "task_cache_hit_ratio", "task_mpki"})
TaskResctrl == Metadata("resctrl", <<>>, {"task_mem_bandwidth", "task_llc_occupancy"})
TaskCgroup ==
  Metadata("cgroup", <<>>, {"task_cpu_usage", "task_mem_usage"})
    \cup Metadata("cgroup", <<"numa_node">>, {"task_mem_numa_pages"})
TaskWss == Metadata("smaps", <<>>, {"task_wss"})
TaskSched ==
  Metadata("sched", <<"key">>, {"task_sched_stat"})
    \cup Metadata("sched", <<"numa_node", "fault_type">>, {"task_sched_stat_numa_faults"})
TaskInternal ==
  Metadata("orchestrator", <<>>, {"task_requested"})
    \cup Metadata("internal", <<>>, {"task_up"})
PlatformTopology ==
  Metadata("internal", <<>>, {"platform_topology"})
    \cup Metadata("dmidecode", <<"dimm_type">>, {"platform_dimm"})
    \cup Metadata("dmidecode", <<>>, {"platform_dimm_speed"})
    \cup Metadata("ipmctl", <<>>, {"platform_mem_mode_size"})
PlatformUsage ==
  Metadata("procfs", <<"cpu">>, {"platform_cpu_usage"})
    \cup Metadata("procfs", <<>>, {"platform_mem_usage"})
    \cup Metadata("sysfs", <<"numa_node">>, {"platform_mem_numa"})
PlatformVmstat ==
  Metadata("procfs", <<>>, {"platform_vmstat_counter"})
    \cup Metadata("procfs", <<"key">>, {"platform_vmstat"})
    \cup Metadata("procfs", <<"numa_node", "key">>, {"platform_node_vmstat"})
UncoreEvents ==
  Metadata("perf_uncore", <<"socket", "pmu_type">>,
           {"platform_cas_count", "platform_pmm_bandwidth", "platform_upi_flits",
            "platform_rpq"})
DerivedUncore ==
  Metadata("derived_perf_uncore", <<"socket">>, {"platform_rpq_read_latency"})
    \cup Metadata("derived_perf_uncore", <<"socket", "pmu_type">>,
                {"platform_dram_bytes", "platform_pmm_bytes",
                 "platform_dram_hit_ratio", "platform_upi_bandwidth"})
    \cup Metadata("perf_uncore", <<"socket", "pmu_type">>, {"platform_scaling_uncore_factor"})
PlatformZoneinfo ==
  Metadata("procfs", <<"numa_node", "zone", "key">>, {"platform_zoneinfo"})
Internal == Metadata("internal", <<>>, {"platform_last_seen", "wca"})
Nvdimm ==
  Metadata("internal", <<>>, {"platform_nvdimm"})
    \cup Metadata("internal", <<"socket">>, {"platform_nvdimm_bandwidth"})

\* Events and uncore events the user names himself get their metadata when
\* the runner is created.
UserMetrics ==
  Metadata("perf_cgroup", <<>>, {"task_raw_event"})
    \cup Metadata("perf_uncore", <<"socket", "pmu_type">>, {"platform_user_event"})

Catalogue ==
  CoreEvents \cup OtherEvents \cup ScalingFactors \cup DerivedEvents \cup TaskResctrl
    \cup TaskCgroup \cup TaskWss \cup TaskSched \cup TaskInternal \cup PlatformTopology
    \cup PlatformUsage \cup PlatformVmstat \cup UncoreEvents \cup DerivedUncore
    \cup PlatformZoneinfo \cup Internal \cup Nvdimm \cup UserMetrics

Metric == Names(Catalogue)
METRICS_METADATA == [m \in Metric |-> CHOOSE e \in Catalogue : m \in e.names]
KnownEvents == {m \in Metric : METRICS_METADATA[m].source = "perf_cgroup"}
                 \ {"task_scaling_factor"}
KnownUncoreEvents == Names(UncoreEvents) \cup {"platform_user_event"}

\* A forgotten "cpu" level for events that are not summed over cpus.
Depth_fixed(aggregate, m) == Len(METRICS_METADATA[m].levels)

\* The length of a metric's levels once the runner has set them: events that
\* are not summed over the cpus, and what is derived from them, have the level
\* "cpu".
Depth(aggregate, m) ==
  IF /\ ~aggregate
     /\ METRICS_METADATA[m].source \in {"perf_cgroup", "derived_perf_cgroup"}
    THEN 1
    ELSE Len(METRICS_METADATA[m].levels)

-----------------------------------------------------------------------------
(* Results.  An operation yields measurements, or raises for a reason.     *)

Returns(measurements) == [raised |-> "no", of |-> measurements]
Raises(reason) == [raised |-> reason, of |-> <<>>]

None == [m \in {} |-> 0]

\* What Op makes of the measurements, unless they raised.
Then(result, Op(_)) ==
  CHOOSE r \in {IF v.raised = "no" THEN Op(v.of) ELSE v : v \in {result}} : TRUE

Shaped(aggregate, measurements) ==
  \A m \in DOMAIN measurements : measurements[m] = Depth(aggregate, m)

\* Measurements of several sources must not overlap.
flatten_measurements(sources) ==
  Then(Returns(sources),
       LAMBDA all : IF \E i, j \in DOMAIN all : i # j /\ DOMAIN all[i] \cap DOMAIN all[j] # {}
                      THEN Raises("overlap")
                      ELSE Returns([m \in UNION {DOMAIN all[i] : i \in DOMAIN all} |->
                                      all[CHOOSE i \in DOMAIN all : m \in DOMAIN all[i]][m]]))

\* The sum over several measurements: summing dictionaries, or going into a
\* number, is a TypeError or an AttributeError.
merge_measurements(aggregate, measurements) ==
  IF Shaped(aggregate, measurements) THEN Returns(measurements) ELSE Raises("levels")

\* Measurements become metrics level by level.  Too shallow a value raises; too
\* deep a one leaves a dictionary as the metric's value.
export_metrics_from_measurements(aggregate, measurements) ==
  Then(Returns(measurements),
       LAMBDA all : IF \E m \in DOMAIN all : all[m] < Depth(aggregate, m)
                      THEN Raises("levels")
                      ELSE Returns([m \in DOMAIN all |-> all[m] - Depth(aggregate, m)]))

\* Values that are not numbers have no Prometheus form.
is_convertable_to_prometheus_exposition_format(metrics) ==
  \A m \in DOMAIN metrics : metrics[m] = 0

-----------------------------------------------------------------------------
(* Derived metrics, computed from the growth of counters since they were   *)
(* last measured.                                                          *)

\* The counters have been measured now and before.
Available(measurements, prev, names) ==
  names \subseteq DOMAIN measurements \cap prev

DerivedPerf(measurements, prev) ==
  (IF Available(measurements, prev, {"task_instructions", "task_cycles"})
     THEN {"task_ipc", "task_ips"} ELSE {})
    \cup (IF Available(measurements, prev, {"task_instructions", "task_cache_misses"})
            THEN {"task_mpki"} ELSE {})
    \cup (IF Available(measurements, prev, {"task_cache_references", "task_cache_misses"})
            THEN {"task_cache_hit_ratio"} ELSE {})

\* Per cpu, a division by zero leaves the cpu out; summed over the cpus only
\* the instructions per cycle are guarded against a task that did not run.
PerfCgroup_derive(aggregate, measurements, prev, ran) ==
  LET names == DerivedPerf(measurements, prev)
      kept == IF aggregate /\ ~ran THEN names \ {"task_ipc"} ELSE names
  IN  IF names # {} /\ ~Shaped(aggregate, measurements)
        THEN Raises("levels")
        ELSE IF aggregate /\ ~ran /\ names \cap {"task_mpki", "task_cache_hit_ratio"} # {}
          THEN Raises("division")
          ELSE Returns(measurements ++ [m \in kept |-> IF aggregate THEN 0 ELSE 1])

DerivedFromUncore ==
  [platform_cas_count     |-> {"platform_dram_bytes"},
   platform_pmm_bandwidth |-> {"platform_pmm_bytes", "platform_dram_hit_ratio"},
   platform_upi_flits     |-> {"platform_upi_bandwidth"},
   platform_rpq           |-> {"platform_rpq_read_latency"},
   platform_user_event    |-> {}]

\* The hit ratio uses the DRAM traffic, which is unbound unless it was derived
\* too; the queue's latency divides by its inserts.
Uncore_derive(measurements, prev, busy) ==
  LET groups == {g \in DOMAIN DerivedFromUncore : Available(measurements, prev, {g})}
      names == UNION {DerivedFromUncore[g] : g \in groups}
  IN  IF "platform_pmm_bandwidth" \in groups /\ "platform_cas_count" \notin groups
        THEN Raises("unbound")
        ELSE IF "platform_rpq" \in groups /\ ~busy
          THEN Raises("division")
          ELSE Returns(measurements
                 ++ [m \in names |-> IF m = "platform_rpq_read_latency" THEN 1 ELSE 2])
=============================================================================
