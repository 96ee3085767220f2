----------------------- MODULE MeasurementRunnerProofs -----------------------
(***************************************************************************)
(* Proofs about MeasurementRunner, for any tasks and any setups.           *)
(*                                                                         *)
(* A package is whole because of what holds before it is stored: from the  *)
(* synchronization on, the containers managed are the tasks the node found *)
(* (Iteration); a missing measurement ends the iteration, so once all are  *)
(* measured the data is of exactly these tasks; and a storage is reached   *)
(* only after the ones before it took the package (Stored).                *)
(*                                                                         *)
(* No measurement has a wrong shape, whatever is configured, because every *)
(* source measures to the depth the catalogue gives (Depths), dictionaries *)
(* of different sources do not overlap, and merging, deriving, flattening  *)
(* and exporting keep the depth (Levels).                                  *)
(***************************************************************************)
EXTENDS MeasurementRunner, TLAPS

Pods == [state : {"absent", "starting", "ready", "ended"}, cgroup : BOOLEAN, ours : BOOLEAN]

Types ==
  /\ setup \in Setups
  /\ pc \in {"start", "tasks", "sync", "platform", "measure", "wait", "build", "store",
             "done", "exited", "dead"}
  /\ groups \in {"none", "monitored", "unmonitored"}
  /\ tasks \subseteq Tasks \ Foreign /\ managed \subseteq Tasks /\ prev \subseteq Tasks
  /\ uncore \in BOOLEAN
  /\ number \in {0, 1} /\ faults \in 0..MaxFaults
  /\ pods \in [Tasks -> Pods]
  /\ \A t \in Tasks : pods[t].ours <=> t \notin Foreign
  /\ stored \in [Storages -> [tasks : SUBSET Tasks, number : {0, 1, 2}]]

\* What an iteration has found out so far.
Iteration ==
  /\ DOMAIN data \subseteq tasks
  /\ pc \in {"start", "tasks", "sync", "platform"} => DOMAIN data = {}
  /\ pc \in {"platform", "measure", "wait", "build", "store", "done"} => managed = tasks
  /\ pc \in {"wait", "build", "store", "done"} => DOMAIN data = tasks
  /\ pc \in {"measure", "wait", "build", "store", "done"} => platform # None

\* The storages before the next one have the package.
Stored ==
  /\ pc = "store" =>
       /\ unsent \in Seq({"log", "kafka"})
       /\ Len(unsent) \in 1..Len(setup.storages)
       /\ \A s \in Storages : s < Next_storage => stored[s] = Package
  /\ pc = "done" => \A s \in Storages : stored[s] = Package

\* Every metric has the depth the catalogue gives.
Fits(aggregate, measurements) ==
  \A m \in DOMAIN measurements :
    measurements[m] \in Nat /\ measurements[m] = Depth(aggregate, m)

\* The agent counts known events only, and what it measured so far has the
\* shape that is exported.
Levels ==
  /\ cause \notin {"levels", "overlap"}
  /\ pc \notin {"start", "exited", "dead"} =>
       setup.events \subseteq KnownEvents /\ setup.uncore \subseteq KnownUncoreEvents
  /\ \A t \in DOMAIN data : Fits(setup.aggregate, data[t])
  /\ \A m \in DOMAIN platform : platform[m] = 0

IInv == Types /\ Iteration /\ Stored /\ Levels

-----------------------------------------------------------------------------
(***************************************************************************)
(* Dictionaries.                                                           *)
(***************************************************************************)

\* h has what f and g have, and f goes first.
Joins(h, f, g) ==
  /\ DOMAIN h = DOMAIN f \cup DOMAIN g
  /\ \A x \in DOMAIN f : h[x] = f[x]
  /\ \A x \in DOMAIN g \ DOMAIN f : h[x] = g[x]

LEMMA Merged == ASSUME NEW f, NEW g PROVE Joins(f ++ g, f, g)
<1>1. f ++ g = [x \in DOMAIN f \cup DOMAIN g |-> IF x \in DOMAIN f THEN f[x] ELSE g[x]]
    BY DEF ++
<1> QED
    BY <1>1 DEF Joins

LEMMA NothingMeasured == DOMAIN None = {}
BY DEF None

LEMMA NoneFits == ASSUME NEW a PROVE Fits(a, None)
BY NothingMeasured DEF Fits

LEMMA MergedFits ==
  ASSUME NEW a, NEW f, NEW g, Fits(a, f), Fits(a, g)
  PROVE  Fits(a, f ++ g)
<1>1. PICK h : h = f ++ g
    OBVIOUS
<1>2. Joins(h, f, g)
    BY <1>1, Merged
<1>3. Fits(a, h)
    BY <1>2 DEF Fits, Joins
<1> QED
    BY <1>1, <1>3

\* Measurements that fit are exported as numbers.
LEMMA Exported ==
  ASSUME NEW a, NEW f, Fits(a, f), NEW r, r = export_metrics_from_measurements(a, f)
  PROVE  r.raised = "no" /\ DOMAIN r.of = DOMAIN f /\ \A m \in DOMAIN f : r.of[m] = 0
<1>1. r = IF \E m \in DOMAIN f : f[m] < Depth(a, m)
          THEN Raises("levels")
          ELSE Returns([m \in DOMAIN f |-> f[m] - Depth(a, m)])
    BY DEF export_metrics_from_measurements, Then, Returns
<1>2. ~ \E m \in DOMAIN f : f[m] < Depth(a, m)
    BY DEF Fits
<1>3. PICK e : e = [m \in DOMAIN f |-> f[m] - Depth(a, m)]
    OBVIOUS
<1>4. r.raised = "no" /\ r.of = e
    BY <1>1, <1>2, <1>3 DEF Returns
<1>5. \A m \in DOMAIN f : f[m] - Depth(a, m) = 0
    BY DEF Fits
<1> QED
    BY <1>3, <1>4, <1>5

LEMMA FitsIsShaped == ASSUME NEW a, NEW f, Fits(a, f) PROVE Shaped(a, f)
BY DEF Fits, Shaped

-----------------------------------------------------------------------------
(***************************************************************************)
(* The catalogue.                                                          *)
(***************************************************************************)

\* Metrics with the same number of levels, whoever measures them.
Flat == {"task_cpu_usage", "task_mem_usage", "task_mem_bandwidth", "task_llc_occupancy",
         "task_wss", "task_up", "task_requested", "platform_nvdimm",
         "platform_mem_mode_size", "platform_dimm_speed", "platform_mem_usage",
         "platform_vmstat_counter"}
OneLevel == {"task_mem_numa_pages", "task_sched_stat", "platform_nvdimm_bandwidth",
             "platform_vmstat", "platform_dimm", "platform_cpu_usage", "platform_mem_numa",
             "platform_rpq_read_latency"}
UncoreNames == {"platform_cas_count", "platform_pmm_bandwidth", "platform_upi_flits",
                "platform_rpq", "platform_user_event"}
TwoLevels == {"task_sched_stat_numa_faults", "platform_node_vmstat",
              "platform_scaling_uncore_factor", "platform_dram_bytes", "platform_pmm_bytes",
              "platform_dram_hit_ratio", "platform_upi_bandwidth"} \cup UncoreNames
ThreeLevels == {"platform_zoneinfo"}
EventNames == {"task_instructions", "task_cycles", "task_cache_misses",
               "task_cache_references", "task_event", "task_raw_event"}
PerCpu == {"task_scaling_factor", "task_ips", "task_ipc", "task_cache_hit_ratio",
           "task_mpki"} \cup EventNames

\* What an entry says of its metrics.
Says(e, m) ==
  /\ m \in Flat => Len(e.levels) = 0
  /\ m \in OneLevel => Len(e.levels) = 1
  /\ m \in TwoLevels => Len(e.levels) = 2
  /\ m \in ThreeLevels => Len(e.levels) = 3
  /\ m \in PerCpu => Len(e.levels) = 0
  /\ m \in PerCpu <=> e.source \in {"perf_cgroup", "derived_perf_cgroup"}
  /\ e.source = "perf_cgroup" => m \in EventNames \cup {"task_scaling_factor"}

LEMMA Entry ==
  ASSUME NEW source, NEW levels, NEW names, NEW e \in Metadata(source, levels, names)
  PROVE  e.source = source /\ e.levels = levels /\ e.names = names
BY DEF Metadata

LEMMA Lengths ==
  /\ Len(<<>>) = 0
  /\ \A a, b, c : Len(<<a>>) = 1 /\ Len(<<a, b>>) = 2 /\ Len(<<a, b, c>>) = 3
OBVIOUS

LEMMA TaskEntries ==
  ASSUME NEW e \in CoreEvents \cup OtherEvents \cup ScalingFactors \cup DerivedEvents
                     \cup TaskResctrl \cup TaskCgroup \cup TaskWss \cup TaskSched
                     \cup TaskInternal,
         NEW m \in e.names
  PROVE  Says(e, m)
<1> USE DEF Says, Flat, OneLevel, UncoreNames, TwoLevels, ThreeLevels, EventNames, PerCpu
<1>1. CASE e \in CoreEvents
    BY <1>1, Entry, Lengths DEF CoreEvents
<1>2. CASE e \in OtherEvents
    BY <1>2, Entry, Lengths DEF OtherEvents
<1>3. CASE e \in ScalingFactors
    BY <1>3, Entry, Lengths DEF ScalingFactors
<1>4. CASE e \in DerivedEvents
    BY <1>4, Entry, Lengths DEF DerivedEvents
<1>5. CASE e \in TaskResctrl
    BY <1>5, Entry, Lengths DEF TaskResctrl
<1>6. CASE e \in TaskCgroup
    BY <1>6, Entry, Lengths DEF TaskCgroup
<1>7. CASE e \in TaskWss
    BY <1>7, Entry, Lengths DEF TaskWss
<1>8. CASE e \in TaskSched
    BY <1>8, Entry, Lengths DEF TaskSched
<1>9. CASE e \in TaskInternal
    BY <1>9, Entry, Lengths DEF TaskInternal
<1> QED
    BY <1>1, <1>2, <1>3, <1>4, <1>5, <1>6, <1>7, <1>8, <1>9

LEMMA PlatformEntries ==
  ASSUME NEW e \in PlatformTopology \cup PlatformUsage \cup PlatformVmstat \cup UncoreEvents
                     \cup DerivedUncore \cup PlatformZoneinfo \cup Internal \cup Nvdimm
                     \cup UserMetrics,
         NEW m \in e.names
  PROVE  Says(e, m)
<1> USE DEF Says, Flat, OneLevel, UncoreNames, TwoLevels, ThreeLevels, EventNames, PerCpu
<1>1. CASE e \in PlatformTopology
    BY <1>1, Entry, Lengths DEF PlatformTopology
<1>2. CASE e \in PlatformUsage
    BY <1>2, Entry, Lengths DEF PlatformUsage
<1>3. CASE e \in PlatformVmstat
    BY <1>3, Entry, Lengths DEF PlatformVmstat
<1>4. CASE e \in UncoreEvents
    BY <1>4, Entry, Lengths DEF UncoreEvents
<1>5. CASE e \in DerivedUncore
    BY <1>5, Entry, Lengths DEF DerivedUncore
<1>6. CASE e \in PlatformZoneinfo
    BY <1>6, Entry, Lengths DEF PlatformZoneinfo
<1>7. CASE e \in Internal
    BY <1>7, Entry, Lengths DEF Internal
<1>8. CASE e \in Nvdimm
    BY <1>8, Entry, Lengths DEF Nvdimm
<1>9. CASE e \in UserMetrics
    BY <1>9, Entry, Lengths DEF UserMetrics
<1> QED
    BY <1>1, <1>2, <1>3, <1>4, <1>5, <1>6, <1>7, <1>8, <1>9

LEMMA LookedUp ==
  ASSUME NEW m \in Metric
  PROVE  Says(METRICS_METADATA[m], m)
<1>1. \E e \in Catalogue : m \in e.names
    BY DEF Metric, Names
<1>2. PICK e : e = METRICS_METADATA[m]
    OBVIOUS
<1>3. e = CHOOSE x \in Catalogue : m \in x.names
    BY <1>2 DEF METRICS_METADATA
<1>4. e \in Catalogue /\ m \in e.names
    BY <1>1, <1>3
<1> QED
    BY <1>2, <1>4, TaskEntries, PlatformEntries DEF Catalogue

LEMMA Listed ==
  ASSUME NEW source, NEW levels, NEW names, Metadata(source, levels, names) \subseteq Catalogue
  PROVE  names \subseteq Metric
BY DEF Metric, Names, Metadata

\* Everything the agent measures is in the catalogue.
LEMMA Catalogued ==
  Flat \cup OneLevel \cup TwoLevels \cup ThreeLevels \cup PerCpu \subseteq Metric
<1>1. {"task_instructions", "task_cycles", "task_cache_misses", "task_cache_references"} \subseteq Metric
    BY Listed DEF Catalogue, CoreEvents
<1>2. /\ {"task_event"} \subseteq Metric
      /\ {"task_scaling_factor"} \subseteq Metric
    BY Listed DEF Catalogue, OtherEvents, ScalingFactors
<1>3. {"task_ips", "task_ipc", "task_cache_hit_ratio", "task_mpki"} \subseteq Metric
    BY Listed DEF Catalogue, DerivedEvents
<1>4. /\ {"task_mem_bandwidth", "task_llc_occupancy"} \subseteq Metric
      /\ {"task_wss"} \subseteq Metric
    BY Listed DEF Catalogue, TaskResctrl, TaskWss
<1>5. /\ {"task_cpu_usage", "task_mem_usage"} \subseteq Metric
      /\ {"task_mem_numa_pages"} \subseteq Metric
    BY Listed DEF Catalogue, TaskCgroup
<1>6. /\ {"task_sched_stat"} \subseteq Metric
      /\ {"task_sched_stat_numa_faults"} \subseteq Metric
    BY Listed DEF Catalogue, TaskSched
<1>7. /\ {"task_requested"} \subseteq Metric
      /\ {"task_up"} \subseteq Metric
    BY Listed DEF Catalogue, TaskInternal
<1>8. /\ {"platform_dimm"} \subseteq Metric
      /\ {"platform_dimm_speed"} \subseteq Metric
      /\ {"platform_mem_mode_size"} \subseteq Metric
    BY Listed DEF Catalogue, PlatformTopology
<1>9. /\ {"platform_cpu_usage"} \subseteq Metric
      /\ {"platform_mem_usage"} \subseteq Metric
      /\ {"platform_mem_numa"} \subseteq Metric
    BY Listed DEF Catalogue, PlatformUsage
<1>10. /\ {"platform_vmstat_counter"} \subseteq Metric
      /\ {"platform_vmstat"} \subseteq Metric
      /\ {"platform_node_vmstat"} \subseteq Metric
    BY Listed DEF Catalogue, PlatformVmstat
<1>11. /\ {"platform_zoneinfo"} \subseteq Metric
      /\ {"platform_nvdimm"} \subseteq Metric
      /\ {"platform_nvdimm_bandwidth"} \subseteq Metric
    BY Listed DEF Catalogue, PlatformZoneinfo, Nvdimm
<1>12. {"platform_cas_count", "platform_pmm_bandwidth", "platform_upi_flits", "platform_rpq"} \subseteq Metric
    BY Listed DEF Catalogue, UncoreEvents
<1>13. /\ {"platform_rpq_read_latency"} \subseteq Metric
      /\ {"platform_dram_bytes", "platform_pmm_bytes", "platform_dram_hit_ratio",
        "platform_upi_bandwidth"} \subseteq Metric
      /\ {"platform_scaling_uncore_factor"} \subseteq Metric
    BY Listed DEF Catalogue, DerivedUncore
<1>14. /\ {"task_raw_event"} \subseteq Metric
      /\ {"platform_user_event"} \subseteq Metric
    BY Listed DEF Catalogue, UserMetrics
<1> QED
    BY <1>1, <1>2, <1>3, <1>4, <1>5, <1>6, <1>7,
       <1>8, <1>9, <1>10, <1>11, <1>12, <1>13, <1>14
    DEF Flat, OneLevel, TwoLevels, ThreeLevels, PerCpu, UncoreNames, EventNames

\* The depth of everything the agent measures.
LEMMA Depths ==
  ASSUME NEW a, NEW m
  PROVE  /\ m \in Flat => Depth(a, m) = 0
         /\ m \in OneLevel => Depth(a, m) = 1
         /\ m \in TwoLevels => Depth(a, m) = 2
         /\ m \in ThreeLevels => Depth(a, m) = 3
         /\ m \in PerCpu => Depth(a, m) = IF a THEN 0 ELSE 1
<1>1. ASSUME m \in Metric PROVE Says(METRICS_METADATA[m], m)
    BY <1>1, LookedUp
<1>2. m \in PerCpu => m \notin Flat \cup OneLevel \cup TwoLevels \cup ThreeLevels
    BY DEF Flat, OneLevel, TwoLevels, ThreeLevels, UncoreNames, PerCpu, EventNames
<1>3. CASE m \in Metric
    BY <1>1, <1>2, <1>3 DEF Says, Depth
<1> QED
    BY <1>3, Catalogued

\* The events an agent that started may count.
LEMMA KnownNames == KnownEvents \subseteq EventNames /\ KnownUncoreEvents = UncoreNames
<1>1. KnownEvents \subseteq EventNames
    BY LookedUp DEF KnownEvents, Says
<1>2. Names(UncoreEvents) = {"platform_cas_count", "platform_pmm_bandwidth",
                             "platform_upi_flits", "platform_rpq"}
    BY DEF UncoreEvents, Names, Metadata
<1> QED
    BY <1>1, <1>2 DEF KnownUncoreEvents, UncoreNames

-----------------------------------------------------------------------------
(***************************************************************************)
(* The machine's measurements.                                             *)
(***************************************************************************)

LEMMA AtFits ==
  ASSUME NEW a, NEW d \in Nat, NEW names, \A m \in names : Depth(a, m) = d
  PROVE  Fits(a, At(d, names))
BY DEF Fits, At

LEMMA LevelsFit ==
  ASSUME NEW a, NEW names
  PROVE  /\ names \subseteq Flat => Fits(a, At(0, names))
         /\ names \subseteq OneLevel => Fits(a, At(1, names))
         /\ names \subseteq TwoLevels => Fits(a, At(2, names))
         /\ names \subseteq ThreeLevels => Fits(a, At(3, names))
         /\ names \subseteq PerCpu => Fits(a, At(IF a THEN 0 ELSE 1, names))
<1>1. /\ names \subseteq Flat => \A m \in names : Depth(a, m) = 0
      /\ names \subseteq OneLevel => \A m \in names : Depth(a, m) = 1
      /\ names \subseteq TwoLevels => \A m \in names : Depth(a, m) = 2
      /\ names \subseteq ThreeLevels => \A m \in names : Depth(a, m) = 3
      /\ names \subseteq PerCpu => \A m \in names : Depth(a, m) = IF a THEN 0 ELSE 1
    BY Depths
<1>2. PICK d \in Nat : d = IF a THEN 0 ELSE 1
    OBVIOUS
<1>3. names \subseteq PerCpu => Fits(a, At(d, names))
    BY <1>1, <1>2, AtFits
<1> QED
    BY <1>1, <1>2, <1>3, AtFits

LEMMA PlatformSources ==
  ASSUME NEW a
  PROVE  /\ Fits(a, parse_proc_vmstat) /\ Fits(a, parse_node_meminfo)
         /\ Fits(a, parse_proc_meminfo) /\ Fits(a, parse_proc_stat)
         /\ Fits(a, get_zoneinfo_measurements) /\ Fits(a, parse_vmstat_keys)
         /\ Fits(a, _parse_dmidecode_output) /\ Fits(a, _get_ipmctl_dimm_info)
         /\ Fits(a, At(1, {"platform_nvdimm_bandwidth"}))
         /\ Fits(a, At(0, {"platform_mem_mode_size"}))
<1>1. /\ Fits(a, At(0, {"platform_vmstat_counter"})) /\ Fits(a, At(0, {"platform_mem_usage"}))
      /\ Fits(a, At(0, {"platform_dimm_speed"})) /\ Fits(a, At(0, {"platform_nvdimm"}))
      /\ Fits(a, At(0, {"platform_mem_mode_size"}))
    BY LevelsFit DEF Flat
<1>2. /\ Fits(a, At(1, {"platform_mem_numa"})) /\ Fits(a, At(1, {"platform_cpu_usage"}))
      /\ Fits(a, At(1, {"platform_vmstat"})) /\ Fits(a, At(1, {"platform_dimm"}))
      /\ Fits(a, At(1, {"platform_nvdimm_bandwidth"}))
    BY LevelsFit DEF OneLevel
<1>3. Fits(a, At(2, {"platform_node_vmstat"}))
    BY LevelsFit DEF TwoLevels
<1>4. Fits(a, At(3, {"platform_zoneinfo"}))
    BY LevelsFit DEF ThreeLevels
<1> QED
    BY <1>1, <1>2, <1>3, <1>4, MergedFits
    DEF parse_proc_vmstat, parse_node_meminfo, parse_proc_meminfo, parse_proc_stat,
        get_zoneinfo_measurements, parse_vmstat_keys, _parse_dmidecode_output,
        _get_ipmctl_dimm_info

\* What is created fits into a package, and the agent itself is part of it.
LEMMA Created ==
  ASSUME NEW s, NEW f, Fits(s.aggregate, f), NEW r, r = create_metrics(s, f)
  PROVE  r.raised = "no" /\ "wca" \in DOMAIN r.of /\ \A m \in DOMAIN r.of : r.of[m] = 0
<1>1. PICK e : e = export_metrics_from_measurements(s.aggregate, f)
    OBVIOUS
<1>2. e.raised = "no" /\ \A m \in DOMAIN e.of : e.of[m] = 0
    BY <1>1, Exported
<1>3. PICK b : b = At(0, {"platform_topology", "platform_last_seen", "wca"})
    OBVIOUS
<1>4. r = IF e.raised = "no" THEN Returns(b ++ e.of) ELSE e
    BY <1>1, <1>3 DEF create_metrics, Then
<1>5. r.raised = "no" /\ r.of = b ++ e.of
    BY <1>2, <1>4 DEF Returns
<1>6. "wca" \in DOMAIN b /\ \A m \in DOMAIN b : b[m] = 0
    BY <1>3 DEF At
<1>7. Joins(r.of, b, e.of)
    BY <1>5, Merged
<1> QED
    BY <1>2, <1>5, <1>6, <1>7 DEF Joins

LEMMA Collected ==
  ASSUME NEW s, NEW f, Fits(s.aggregate, f), NEW r, r = collect_platform_information(s, f)
  PROVE  /\ r.raised \in {"no", "tools"}
         /\ r.raised = "no" => "wca" \in DOMAIN r.of /\ \A m \in DOMAIN r.of : r.of[m] = 0
<1>1. PICK e : e = IF s.topology = "off" THEN Returns(None)
                   ELSE get_platform_static_information(s)
    OBVIOUS
<1>2. \/ e.raised = "no" /\ Fits(s.aggregate, e.of)
      \/ e.raised = "tools"
  <2>1. \/ e = Returns(None)
        \/ e = Returns(At(0, {"platform_mem_mode_size"}) ++ _parse_dmidecode_output)
        \/ e = Raises("tools")
      BY <1>1 DEF get_platform_static_information
  <2>2. \/ e.raised = "no" /\ e.of = None
        \/ /\ e.raised = "no"
           /\ e.of = At(0, {"platform_mem_mode_size"}) ++ _parse_dmidecode_output
        \/ e.raised = "tools"
      BY <2>1 DEF Returns, Raises
  <2> QED
      BY <2>2, NoneFits, PlatformSources, MergedFits
<1>3. PICK g : g = parse_proc_vmstat ++ e.of ++ f ++ parse_node_meminfo
                     ++ parse_proc_meminfo ++ parse_proc_stat
    OBVIOUS
<1>4. r = IF e.raised = "no" THEN create_metrics(s, g) ELSE e
    BY <1>1, <1>3 DEF collect_platform_information, Then
<1>5. CASE e.raised = "no"
  <2>1. Fits(s.aggregate, e.of)
      BY <1>2, <1>5
  <2>2. Fits(s.aggregate, parse_proc_vmstat ++ e.of ++ f)
      BY <2>1, PlatformSources, MergedFits
  <2>3. Fits(s.aggregate, g)
      BY <1>3, <2>2, PlatformSources, MergedFits
  <2> QED
      BY <1>4, <1>5, <2>3, Created
<1>6. CASE e.raised = "tools"
    BY <1>4, <1>6
<1> QED
    BY <1>2, <1>5, <1>6

LEMMA UncoreMeasured ==
  ASSUME NEW s, s.uncore \subseteq KnownUncoreEvents, NEW before, NEW ran, NEW busy, NEW r,
         r = uncore_get_measurements(s, before, ran, busy)
  PROVE  /\ r.raised \in {"no", "name", "unbound", "division"}
         /\ r.raised = "no" => Fits(s.aggregate, r.of)
<1>1. CASE s.uncore = {}
  <2>1. r.raised = "no" /\ r.of = None
      BY <1>1 DEF uncore_get_measurements, Returns
  <2> QED
      BY <2>1, NoneFits
<1>2. CASE s.uncore # {}
  <2>1. PICK e : e = UncorePerfCounters_get_measurements(s, ran)
      OBVIOUS
  <2>2. PICK g : g = At(2, s.uncore \cup {"platform_scaling_uncore_factor"})
      OBVIOUS
  <2>3. Fits(s.aggregate, g)
    <3>1. s.uncore \cup {"platform_scaling_uncore_factor"} \subseteq TwoLevels
        BY KnownNames DEF TwoLevels
    <3> QED
        BY <2>2, <3>1, LevelsFit
  <2>4. \/ e.raised = "no" /\ e.of = g
        \/ e.raised = "name"
      BY <2>1, <2>2 DEF UncorePerfCounters_get_measurements, Returns, Raises
  <2>5. r = IF e.raised = "no"
            THEN IF s.derived THEN Uncore_derive(e.of, before, busy) ELSE Returns(e.of)
            ELSE e
      BY <1>2, <2>1 DEF uncore_get_measurements, Then
  <2>6. CASE e.raised = "name"
      BY <2>5, <2>6
  <2>7. CASE e.raised = "no" /\ e.of = g /\ ~s.derived
    <3>1. r.raised = "no" /\ r.of = g
        BY <2>5, <2>7 DEF Returns
    <3> QED
        BY <2>3, <3>1
  <2>8. CASE e.raised = "no" /\ e.of = g /\ s.derived
    <3>1. r = Uncore_derive(g, before, busy)
        BY <2>5, <2>8
    <3>2. PICK names : names = UNION {DerivedFromUncore[u] :
                          u \in {u \in DOMAIN DerivedFromUncore : Available(g, before, {u})}}
        OBVIOUS
    <3>3. PICK n : n = [m \in names |-> IF m = "platform_rpq_read_latency" THEN 1 ELSE 2]
        OBVIOUS
    <3>4. \/ r = Raises("unbound") \/ r = Raises("division") \/ r = Returns(g ++ n)
        BY <3>1, <3>2, <3>3 DEF Uncore_derive
    <3>5. \/ r.raised = "unbound" \/ r.raised = "division"
          \/ r.raised = "no" /\ r.of = g ++ n
        BY <3>4 DEF Returns, Raises
    <3>6. names \subseteq TwoLevels \cup {"platform_rpq_read_latency"}
      <4>1. \A u \in DOMAIN DerivedFromUncore :
              DerivedFromUncore[u] \subseteq TwoLevels \cup {"platform_rpq_read_latency"}
          BY DEF DerivedFromUncore, TwoLevels
      <4> QED
          BY <3>2, <4>1
    <3>7. Fits(s.aggregate, n)
      <4>1. "platform_rpq_read_latency" \in OneLevel
          BY DEF OneLevel
      <4>2. \A m \in names : /\ m = "platform_rpq_read_latency" => Depth(s.aggregate, m) = 1
                             /\ m # "platform_rpq_read_latency" => Depth(s.aggregate, m) = 2
          BY <3>6, <4>1, Depths
      <4> QED
          BY <3>3, <4>2 DEF Fits
    <3> QED
        BY <2>3, <3>5, <3>7, MergedFits
  <2> QED
      BY <2>4, <2>6, <2>7, <2>8
<1> QED
    BY <1>1, <1>2

\* Measuring the machine may fail, but not for the shape of a measurement.
LEMMA PlatformMeasured ==
  ASSUME NEW s, s.uncore \subseteq KnownUncoreEvents, NEW before, NEW ran, NEW busy, NEW r,
         r = PlatformMeasurements(s, before, ran, busy)
  PROVE  /\ r.raised \notin {"levels", "overlap"}
         /\ r.raised = "no" => r.of # None /\ \A m \in DOMAIN r.of : r.of[m] = 0
<1>1. PICK e : e = uncore_get_measurements(s, before, ran, busy)
    OBVIOUS
<1>2. /\ e.raised \in {"no", "name", "unbound", "division"}
      /\ e.raised = "no" => Fits(s.aggregate, e.of)
    BY <1>1, UncoreMeasured
<1>3. PICK z : z = IF s.zoneinfo THEN get_zoneinfo_measurements ELSE None
    OBVIOUS
<1>4. PICK v : v = IF s.vmstat THEN parse_vmstat_keys ELSE None
    OBVIOUS
<1>5. PICK g : g = e.of ++ get_bandwidth(s) ++ z ++ v
    OBVIOUS
<1>6. r = IF e.raised = "no" THEN collect_platform_information(s, g) ELSE e
    BY <1>1, <1>3, <1>4, <1>5 DEF PlatformMeasurements, Then
<1>7. CASE e.raised = "no"
  <2>1. Fits(s.aggregate, z) /\ Fits(s.aggregate, v)
      BY <1>3, <1>4, PlatformSources, NoneFits
  <2>2. Fits(s.aggregate, get_bandwidth(s))
      BY PlatformSources, NoneFits, MergedFits DEF get_bandwidth
  <2>3. Fits(s.aggregate, g)
      BY <1>2, <1>5, <1>7, <2>1, <2>2, MergedFits
  <2> QED
      BY <1>6, <1>7, <2>3, Collected, NothingMeasured
<1>8. CASE e.raised # "no"
    BY <1>2, <1>6, <1>8
<1> QED
    BY <1>7, <1>8

-----------------------------------------------------------------------------
(***************************************************************************)
(* The tasks' measurements.                                                *)
(***************************************************************************)

\* Which metrics of a task each source measures.
CgroupNames == {"task_cpu_usage", "task_mem_usage", "task_mem_numa_pages"}
ResctrlNames == {"task_mem_bandwidth", "task_llc_occupancy"}
PerfNames == EventNames \cup {"task_scaling_factor"}
SchedNames == {"task_sched_stat", "task_sched_stat_numa_faults"}

LEMMA CgroupMeasured ==
  ASSUME NEW a, NEW exists, NEW r, r = Cgroup_get_measurements(exists)
  PROVE  \/ r.raised = "missing"
         \/ r.raised = "no" /\ Fits(a, r.of) /\ DOMAIN r.of \subseteq CgroupNames
<1>1. PICK f : f = At(0, {"task_cpu_usage", "task_mem_usage"})
    OBVIOUS
<1>2. PICK g : g = At(1, {"task_mem_numa_pages"})
    OBVIOUS
<1>3. \/ r.raised = "missing"
      \/ r.raised = "no" /\ r.of = f ++ g
    BY <1>1, <1>2 DEF Cgroup_get_measurements, Raises, Returns
<1>4. Fits(a, f) /\ Fits(a, g)
    BY <1>1, <1>2, LevelsFit DEF Flat, OneLevel
<1>5. Fits(a, f ++ g)
    BY <1>4, MergedFits
<1>6. DOMAIN f \cup DOMAIN g \subseteq CgroupNames
    BY <1>1, <1>2 DEF At, CgroupNames
<1>7. DOMAIN (f ++ g) \subseteq CgroupNames
    BY <1>6, Merged DEF Joins
<1> QED
    BY <1>3, <1>5, <1>7

LEMMA SchedMeasured ==
  ASSUME NEW a, NEW sched, NEW alive, NEW r,
         r = IF sched THEN get_pids_sched_measurements(alive) ELSE Returns(None)
  PROVE  \/ r.raised = "process"
         \/ r.raised = "no" /\ Fits(a, r.of) /\ DOMAIN r.of \subseteq SchedNames
<1>1. PICK f : f = At(1, {"task_sched_stat"})
    OBVIOUS
<1>2. PICK g : g = At(2, {"task_sched_stat_numa_faults"})
    OBVIOUS
<1>3. ASSUME NEW b PROVE Fits(b, f ++ g)
  <2>1. Fits(b, f) /\ Fits(b, g)
      BY <1>1, <1>2, LevelsFit DEF OneLevel, TwoLevels
  <2> QED
      BY <2>1, MergedFits
<1>4. Shaped(TRUE, f ++ g)
    BY <1>3, FitsIsShaped
<1>5. r = Returns(f ++ g) \/ r = Raises("process") \/ r = Returns(None)
    BY <1>1, <1>2, <1>4 DEF get_pids_sched_measurements, merge_measurements
<1>6. \/ r.raised = "no" /\ r.of = f ++ g
      \/ r.raised = "no" /\ r.of = None
      \/ r.raised = "process"
    BY <1>5 DEF Returns, Raises
<1>7. DOMAIN f \cup DOMAIN g \subseteq SchedNames
    BY <1>1, <1>2 DEF At, SchedNames
<1>8. DOMAIN (f ++ g) \subseteq SchedNames
    BY <1>7, Merged DEF Joins
<1> QED
    BY <1>3, <1>6, <1>8, NoneFits, NothingMeasured

\* Sources that do not overlap and fit are flattened to what fits.
LEMMA Flattened ==
  ASSUME NEW a, NEW all, \A i \in DOMAIN all : Fits(a, all[i]),
         \A i, j \in DOMAIN all : i # j => DOMAIN all[i] \cap DOMAIN all[j] = {},
         NEW r, r = flatten_measurements(all)
  PROVE  r.raised = "no" /\ Fits(a, r.of)
<1>1. PICK f : f = [m \in UNION {DOMAIN all[i] : i \in DOMAIN all} |->
                      all[CHOOSE i \in DOMAIN all : m \in DOMAIN all[i]][m]]
    OBVIOUS
<1> DEFINE Op(g) == IF \E i, j \in DOMAIN g : i # j /\ DOMAIN g[i] \cap DOMAIN g[j] # {}
                    THEN Raises("overlap")
                    ELSE Returns([m \in UNION {DOMAIN g[i] : i \in DOMAIN g} |->
                                    g[CHOOSE i \in DOMAIN g : m \in DOMAIN g[i]][m]])
<1>2. r = Op(all)
  <2>1. r = Then(Returns(all), Op)
      BY DEF flatten_measurements
  <2>2. PICK v : v = Returns(all)
      OBVIOUS
  <2>3. v.raised = "no" /\ v.of = all
      BY <2>2 DEF Returns
  <2> HIDE DEF Op
  <2>4. r = IF v.raised = "no" THEN Op(v.of) ELSE v
      BY <2>1, <2>2 DEF Then
  <2> QED
      BY <2>3, <2>4
<1>3. r.raised = "no" /\ r.of = f
  <2>1. ~ \E i, j \in DOMAIN all : i # j /\ DOMAIN all[i] \cap DOMAIN all[j] # {}
      OBVIOUS
  <2>2. r = Returns(f)
      BY <1>1, <1>2, <2>1
  <2> QED
      BY <2>2 DEF Returns
<1>4. Fits(a, f)
  <2> SUFFICES ASSUME NEW m \in DOMAIN f
               PROVE  f[m] \in Nat /\ f[m] = Depth(a, m)
      BY DEF Fits
  <2>1. \E i \in DOMAIN all : m \in DOMAIN all[i]
      BY <1>1
  <2>2. PICK n : n = CHOOSE i \in DOMAIN all : m \in DOMAIN all[i]
      OBVIOUS
  <2>3. n \in DOMAIN all /\ m \in DOMAIN all[n]
      BY <2>1, <2>2
  <2>4. f[m] = all[n][m]
      BY <1>1, <2>2
  <2> QED
      BY <2>3, <2>4 DEF Fits
<1> QED
    BY <1>3, <1>4

LEMMA ContainerMeasured ==
  ASSUME NEW s, s.events \subseteq KnownEvents, NEW wss, NEW grouped, NEW exists, NEW alive,
         NEW r, r = Container__get_measurements(s, wss, grouped, exists, alive)
  PROVE  /\ r.raised \in {"no", "missing", "process", "unbound"}
         /\ r.raised = "no" => Fits(s.aggregate, r.of)
<1>1. PICK c : c = Cgroup_get_measurements(exists)
    OBVIOUS
<1>2. PICK p : p = IF s.sched THEN get_pids_sched_measurements(alive) ELSE Returns(None)
    OBVIOUS
<1>3. PICK x2 : x2 = IF grouped THEN ResGroup_get_measurements ELSE None
    OBVIOUS
<1>4. PICK x3 : x3 = IF filter_out_event_names_for_cpu(s) # {}
                     THEN PerfCounters_get_measurements(s) ELSE None
    OBVIOUS
<1>5. PICK x4 : x4 = IF wss THEN At(0, {"task_wss"}) ELSE None
    OBVIOUS
<1>6. PICK f : f = flatten_measurements(<<c.of, x2, x3, x4, p.of>>)
    OBVIOUS
<1>7. r = IF c.raised = "no"
          THEN IF p.raised = "no"
               THEN IF wss /\ ~grouped THEN Raises("unbound") ELSE f
               ELSE p
          ELSE c
    BY <1>1, <1>2, <1>3, <1>4, <1>5, <1>6 DEF Container__get_measurements, Then
<1>8. \/ c.raised = "missing"
      \/ c.raised = "no" /\ Fits(s.aggregate, c.of) /\ DOMAIN c.of \subseteq CgroupNames
    BY <1>1, CgroupMeasured
<1>9. \/ p.raised = "process"
      \/ p.raised = "no" /\ Fits(s.aggregate, p.of) /\ DOMAIN p.of \subseteq SchedNames
    BY <1>2, SchedMeasured
<1>10. Fits(s.aggregate, x2) /\ DOMAIN x2 \subseteq ResctrlNames
  <2>1. Fits(s.aggregate, ResGroup_get_measurements)
      BY LevelsFit DEF ResGroup_get_measurements, Flat
  <2>2. DOMAIN ResGroup_get_measurements \subseteq ResctrlNames
      BY DEF ResGroup_get_measurements, At, ResctrlNames
  <2> QED
      BY <1>3, <2>1, <2>2, NoneFits, NothingMeasured
<1>11. Fits(s.aggregate, x3) /\ DOMAIN x3 \subseteq PerfNames
  <2>1. PICK names : names = filter_out_event_names_for_cpu(s) \cup {"task_scaling_factor"}
      OBVIOUS
  <2>2. names \subseteq PerfNames /\ names \subseteq PerCpu
      BY <2>1, KnownNames DEF filter_out_event_names_for_cpu, PerfNames, PerCpu
  <2>3. PICK g : g = At(IF s.aggregate THEN 0 ELSE 1, names)
      OBVIOUS
  <2>4. Fits(s.aggregate, g)
      BY <2>2, <2>3, LevelsFit
  <2>5. DOMAIN g \subseteq PerfNames
      BY <2>2, <2>3 DEF At
  <2>6. x3 = g \/ x3 = None
      BY <1>4, <2>1, <2>3 DEF PerfCounters_get_measurements
  <2> QED
      BY <2>4, <2>5, <2>6, NoneFits, NothingMeasured
<1>12. Fits(s.aggregate, x4) /\ DOMAIN x4 \subseteq {"task_wss"}
  <2>1. Fits(s.aggregate, At(0, {"task_wss"}))
      BY LevelsFit DEF Flat
  <2>2. DOMAIN At(0, {"task_wss"}) \subseteq {"task_wss"}
      BY DEF At
  <2> QED
      BY <1>5, <2>1, <2>2, NoneFits, NothingMeasured
<1>13. CASE c.raised = "no" /\ p.raised = "no"
  <2>1. PICK all : all = <<c.of, x2, x3, x4, p.of>>
      OBVIOUS
  <2>2. DOMAIN all = {1, 2, 3, 4, 5}
      BY <2>1
  <2>3. /\ all[1] = c.of /\ all[2] = x2 /\ all[3] = x3 /\ all[4] = x4 /\ all[5] = p.of
      BY <2>1
  <2>4. \A i \in DOMAIN all : Fits(s.aggregate, all[i])
      BY <1>8, <1>9, <1>10, <1>11, <1>12, <1>13, <2>2, <2>3
  <2>5. /\ DOMAIN all[1] \subseteq CgroupNames /\ DOMAIN all[2] \subseteq ResctrlNames
        /\ DOMAIN all[3] \subseteq PerfNames /\ DOMAIN all[4] \subseteq {"task_wss"}
        /\ DOMAIN all[5] \subseteq SchedNames
      BY <1>8, <1>9, <1>10, <1>11, <1>12, <1>13, <2>3
  <2>6. /\ CgroupNames \cap ResctrlNames = {} /\ CgroupNames \cap PerfNames = {}
        /\ CgroupNames \cap {"task_wss"} = {} /\ CgroupNames \cap SchedNames = {}
        /\ ResctrlNames \cap PerfNames = {} /\ ResctrlNames \cap {"task_wss"} = {}
        /\ ResctrlNames \cap SchedNames = {} /\ PerfNames \cap {"task_wss"} = {}
        /\ PerfNames \cap SchedNames = {} /\ {"task_wss"} \cap SchedNames = {}
      BY DEF CgroupNames, ResctrlNames, PerfNames, EventNames, SchedNames
  <2>7. ASSUME NEW i \in DOMAIN all, NEW j \in DOMAIN all, i # j
        PROVE  DOMAIN all[i] \cap DOMAIN all[j] = {}
      BY <2>2, <2>5, <2>6, <2>7
  <2>8. f.raised = "no" /\ Fits(s.aggregate, f.of)
      BY <1>6, <2>1, <2>4, <2>7, Flattened
  <2>9. r = f \/ r.raised = "unbound"
      BY <1>7, <1>13 DEF Raises
  <2> QED
      BY <2>8, <2>9
<1>14. CASE c.raised = "missing"
    BY <1>7, <1>14
<1>15. CASE c.raised = "no" /\ p.raised = "process"
    BY <1>7, <1>15
<1> QED
    BY <1>8, <1>9, <1>13, <1>14, <1>15

\* What is derived has the depth of what it is derived from.
LEMMA Derived ==
  ASSUME NEW a, NEW f, Fits(a, f), NEW before, NEW ran, NEW r,
         r = PerfCgroup_derive(a, f, before, ran)
  PROVE  /\ r.raised \in {"no", "division"}
         /\ r.raised = "no" => Fits(a, r.of)
<1>1. PICK names : names = DerivedPerf(f, before)
    OBVIOUS
<1>2. PICK kept : kept = IF a /\ ~ran THEN names \ {"task_ipc"} ELSE names
    OBVIOUS
<1>3. PICK n : n = [m \in kept |-> IF a THEN 0 ELSE 1]
    OBVIOUS
<1>4. Shaped(a, f)
    BY FitsIsShaped
<1>5. r = Raises("division") \/ r = Returns(f ++ n)
    BY <1>1, <1>2, <1>3, <1>4 DEF PerfCgroup_derive
<1>6. \/ r.raised = "division"
      \/ r.raised = "no" /\ r.of = f ++ n
    BY <1>5 DEF Raises, Returns
<1>7. kept \subseteq PerCpu
    BY <1>1, <1>2 DEF DerivedPerf, PerCpu
<1>8. n = At(IF a THEN 0 ELSE 1, kept)
    BY <1>3 DEF At
<1>9. Fits(a, n)
    BY <1>7, <1>8, LevelsFit
<1> QED
    BY <1>6, <1>9, MergedFits

LEMMA DerivedOrNot ==
  ASSUME NEW s, s.events \subseteq KnownEvents, NEW wss, NEW grouped, NEW exists, NEW alive,
         NEW before, NEW ran, NEW r,
         r = Container_get_measurements(s, wss, grouped, exists, alive, before, ran)
  PROVE  /\ r.raised \in {"no", "missing", "process", "unbound", "division"}
         /\ r.raised = "no" => Fits(s.aggregate, r.of)
<1>1. PICK e : e = Container__get_measurements(s, wss, grouped, exists, alive)
    OBVIOUS
<1>2. r = IF e.raised = "no"
          THEN IF s.derived THEN PerfCgroup_derive(s.aggregate, e.of, before, ran)
               ELSE Returns(e.of)
          ELSE e
    BY <1>1 DEF Container_get_measurements, Then
<1>3. /\ e.raised \in {"no", "missing", "process", "unbound"}
      /\ e.raised = "no" => Fits(s.aggregate, e.of)
    BY <1>1, ContainerMeasured
<1>4. CASE e.raised = "no" /\ s.derived
    BY <1>2, <1>3, <1>4, Derived
<1>5. CASE e.raised = "no" /\ ~s.derived
  <2>1. r.raised = "no" /\ r.of = e.of
      BY <1>2, <1>5 DEF Returns
  <2> QED
      BY <1>3, <1>5, <2>1
<1>6. CASE e.raised # "no"
    BY <1>2, <1>3, <1>6
<1> QED
    BY <1>4, <1>5, <1>6

LEMMA PodMeasured ==
  ASSUME NEW s, s.events \subseteq KnownEvents, NEW grouped, NEW exists, NEW alive,
         NEW before, NEW ran, NEW r,
         r = ContainerSet_get_measurements(s, grouped, exists, alive, before, ran)
  PROVE  /\ r.raised \notin {"levels", "overlap"}
         /\ r.raised = "no" => Fits(s.aggregate, r.of)
<1>1. PICK e : e = Container_get_measurements(s, FALSE, FALSE, exists, alive, before, ran)
    OBVIOUS
<1>2. /\ e.raised \in {"no", "missing", "process", "unbound", "division"}
      /\ e.raised = "no" => Fits(s.aggregate, e.of)
    BY <1>1, DerivedOrNot
<1>3. PICK g : g = merge_measurements(s.aggregate, e.of)
    OBVIOUS
<1>4. PICK x : x = IF grouped THEN ResGroup_get_measurements ELSE None
    OBVIOUS
<1>5. PICK y : y = IF s.wss THEN At(0, {"task_wss"}) ELSE None
    OBVIOUS
<1> DEFINE Op(m) == Returns(m ++ (IF grouped THEN ResGroup_get_measurements ELSE None)
                              ++ (IF s.wss THEN At(0, {"task_wss"}) ELSE None))
<1>6. r = IF e.raised = "no"
          THEN IF g.raised = "no" THEN Returns(g.of ++ x ++ y) ELSE g
          ELSE e
  <2>1. r = Then(e, LAMBDA c : Then(merge_measurements(s.aggregate, c), Op))
      BY <1>1 DEF ContainerSet_get_measurements
  <2>2. Op(g.of) = Returns(g.of ++ x ++ y)
      BY <1>4, <1>5
  <2> HIDE DEF Op
  <2>3. r = IF e.raised = "no" THEN Then(g, Op) ELSE e
      BY <1>3, <2>1 DEF Then
  <2>4. Then(g, Op) = IF g.raised = "no" THEN Op(g.of) ELSE g
      BY DEF Then
  <2> QED
      BY <2>2, <2>3, <2>4
<1>7. CASE e.raised = "no"
  <2>1. Shaped(s.aggregate, e.of)
      BY <1>2, <1>7, FitsIsShaped
  <2>2. g.raised = "no" /\ g.of = e.of
      BY <1>3, <2>1 DEF merge_measurements, Returns
  <2>3. r.raised = "no" /\ r.of = e.of ++ x ++ y
      BY <1>6, <1>7, <2>2 DEF Returns
  <2>4. Fits(s.aggregate, ResGroup_get_measurements) /\ Fits(s.aggregate, At(0, {"task_wss"}))
      BY LevelsFit DEF ResGroup_get_measurements, Flat
  <2>5. Fits(s.aggregate, x) /\ Fits(s.aggregate, y)
      BY <1>4, <1>5, <2>4, NoneFits
  <2> QED
      BY <1>2, <1>7, <2>3, <2>5, MergedFits
<1>8. CASE e.raised # "no"
    BY <1>2, <1>6, <1>8
<1> QED
    BY <1>7, <1>8

\* Measuring a task may fail, but not for the shape of a measurement.
LEMMA TaskMeasured ==
  ASSUME NEW c \in [of : Setups, grouped : BOOLEAN, exists : BOOLEAN, alive : BOOLEAN,
                    before : BOOLEAN, ran : BOOLEAN],
         c.of.events \subseteq KnownEvents, NEW r, r = get_measurements[c]
  PROVE  /\ r.raised \notin {"levels", "overlap"}
         /\ r.raised = "no" => Fits(c.of.aggregate, r.of)
<1>1. PICK b : b = IF c.before THEN Metric ELSE {}
    OBVIOUS
<1>2. PICK s : s = c.of
    OBVIOUS
<1>3. r = IF IsSet(s)
          THEN ContainerSet_get_measurements(s, c.grouped, c.exists, c.alive, b, c.ran)
          ELSE Container_get_measurements(s, s.wss, c.grouped, c.exists, c.alive, b, c.ran)
    BY <1>1, <1>2 DEF get_measurements
<1> QED
    BY <1>2, <1>3, PodMeasured, DerivedOrNot

\* The machine's measurements of an iteration.
LEMMA PlatformResult ==
  ASSUME NEW s \in Setups, s.uncore \subseteq KnownUncoreEvents,
         NEW before \in BOOLEAN, NEW ran \in BOOLEAN, NEW busy \in BOOLEAN, NEW r,
         r = platform_measurements[[of |-> s, before |-> before, ran |-> ran, busy |-> busy]]
  PROVE  /\ r.raised \notin {"levels", "overlap"}
         /\ r.raised = "no" => r.of # None /\ \A m \in DOMAIN r.of : r.of[m] = 0
<1>1. PICK b : b = IF before THEN Metric ELSE {}
    OBVIOUS
<1>2. r = PlatformMeasurements(s, b, ran, busy)
    BY <1>1 DEF platform_measurements
<1> QED
    BY <1>2, PlatformMeasured

-----------------------------------------------------------------------------
(***************************************************************************)
(* The invariant.                                                          *)
(***************************************************************************)

\* A node answers with tasks that are the agent's to monitor, or fails.
LEMMA TasksFound ==
  ASSUME NEW s \in Setups, NEW answer \in Answers(s), NEW known, NEW r,
         r = get_tasks(s, answer, known)
  PROVE  /\ r.raised \in {"no", "synchronization", "http", "cgroup"}
         /\ r.raised = "no" => \A t \in r.of : t \in DOMAIN known /\ known[t].ours
<1>1. PICK ready : ready = ReadyPods(known)
    OBVIOUS
<1>2. \A t \in ready : t \in DOMAIN known /\ known[t].ours
    BY <1>1 DEF ReadyPods
<1>3. PICK found : found = {t \in DOMAIN known : /\ known[t].state = "ready" /\ known[t].ours
                                                 /\ find_cgroup(known[t])}
    OBVIOUS
<1>4. PICK listed : listed = {t \in DOMAIN known : known[t].ours /\ known[t].cgroup}
    OBVIOUS
<1>5. answer \in {"ok", "refused", "timeout", "error"}
    BY DEF Answers
<1>6. s.node \in {"kubelet", "kubeapi", "mesos", "static"}
    BY RunnerAssumption
<1>7. CASE s.node \in {"kubelet", "kubeapi"}
  <2>1. r = KubernetesNode_get_tasks(s, answer, known)
      BY <1>7 DEF get_tasks
  <2>2. \/ r = Raises("synchronization") \/ r = Raises("http") \/ r = Raises("cgroup")
        \/ r = Returns(ready)
      BY <1>1, <1>5, <2>1 DEF KubernetesNode_get_tasks
  <2> QED
      BY <1>2, <2>2 DEF Raises, Returns
<1>8. CASE s.node = "mesos"
  <2>1. r = MesosNode_get_tasks(answer, known)
      BY <1>8 DEF get_tasks
  <2>2. r = Raises("synchronization") \/ r = Raises("http") \/ r = Returns(found)
      BY <1>3, <1>5, <2>1 DEF MesosNode_get_tasks
  <2> QED
      BY <1>3, <2>2 DEF Raises, Returns
<1>9. CASE s.node = "static"
  <2>1. r = StaticNode_get_tasks(known)
      BY <1>9 DEF get_tasks
  <2>2. r = Returns(listed)
      BY <1>4, <2>1 DEF StaticNode_get_tasks
  <2> QED
      BY <1>4, <2>2 DEF Returns
<1> QED
    BY <1>6, <1>7, <1>8, <1>9

LEMMA InitIInv == Init => IInv
<1> SUFFICES ASSUME Init PROVE IInv
    OBVIOUS
<1>1. Types
  <2>1. stored \in [Storages -> [tasks : SUBSET Tasks, number : {0, 1, 2}]]
      BY DEF Init, NoPackage
  <2>2. pods \in [Tasks -> Pods] /\ \A t \in Tasks : pods[t].ours <=> t \notin Foreign
      BY DEF Init, Pods
  <2>3. faults \in 0..MaxFaults
      BY RunnerAssumption DEF Init
  <2> QED
      BY <2>1, <2>2, <2>3 DEF Init, Types
<1>2. Iteration
    BY NothingMeasured DEF Init, Iteration
<1>3. Stored
    BY DEF Init, Stored
<1>4. Levels
    BY NothingMeasured DEF Init, Levels
<1> QED
    BY <1>1, <1>2, <1>3, <1>4 DEF IInv

\* An end of the agent leaves everything but pc, cause and faults alone.
LEMMA DieStep ==
  ASSUME IInv, NEW reason, reason \notin {"levels", "overlap"}, Die(reason), 
         faults' \in 0..MaxFaults
  PROVE  IInv'
<1> USE DEF Die, agent
<1>1. Types'
    BY DEF IInv, Types, Storages
<1>2. Iteration'
    BY DEF IInv, Iteration
<1>3. Stored'
    BY DEF Stored
<1>4. Levels'
    BY DEF IInv, Levels
<1> QED
    BY <1>1, <1>2, <1>3, <1>4 DEF IInv

\* A fault, or none, stays within the bound.
LEMMA FaultsBounded ==
  ASSUME Types, Fault \/ UNCHANGED faults
  PROVE  faults' \in 0..MaxFaults
BY RunnerAssumption DEF Types, Fault

\* The rest of an iteration may be skipped.
LEMMA SkipStep ==
  ASSUME IInv, pc \notin {"start", "exited", "dead"}, Skip, faults' \in 0..MaxFaults
  PROVE  IInv'
<1> USE DEF Skip, Goes
<1>1. Types'
    BY DEF IInv, Types, Storages
<1>2. Iteration'
    BY NothingMeasured DEF IInv, Iteration
<1>3. Stored'
    BY DEF Stored
<1>4. Levels'
    BY NothingMeasured DEF IInv, Levels
<1> QED
    BY <1>1, <1>2, <1>3, <1>4 DEF IInv

\* An agent that starts has checked the events it is to count.
LEMMA InitializeStep == ASSUME IInv, _initialize PROVE IInv'
<1>1. faults' \in 0..MaxFaults
    BY FaultsBounded DEF IInv, _initialize
<1>2. \/ Die("configuration")
      \/ Goes("exited") /\ UNCHANGED <<agent, faults>>
      \/ /\ Failed(setup) = {} /\ Goes("tasks") /\ groups' = rdt_information(setup)
         /\ UNCHANGED <<tasks, managed, prev, uncore, platform, data, unsent, number, faults>>
    BY DEF _initialize
<1>3. CASE Die("configuration")
    BY <1>1, <1>3, DieStep
<1>4. CASE Goes("exited") /\ UNCHANGED <<agent, faults>>
  <2> USE <1>4 DEF Goes, agent
  <2>1. Types'
      BY DEF IInv, Types, Storages
  <2>2. Iteration'
      BY DEF IInv, Iteration
  <2>3. Stored'
      BY DEF Stored
  <2>4. Levels'
      BY DEF IInv, Levels
  <2> QED
      BY <2>1, <2>2, <2>3, <2>4 DEF IInv
<1>5. CASE /\ Failed(setup) = {} /\ Goes("tasks") /\ groups' = rdt_information(setup)
           /\ UNCHANGED <<tasks, managed, prev, uncore, platform, data, unsent, number, faults>>
  <2>1. setup.events \subseteq KnownEvents /\ setup.uncore \subseteq KnownUncoreEvents
    <3>1. PICK known : known = (setup.events \subseteq KnownEvents)
        OBVIOUS
    <3>2. PICK uncoreKnown : uncoreKnown = (setup.uncore \subseteq KnownUncoreEvents)
        OBVIOUS
    <3>3. PICK c : c = Checks(setup)
        OBVIOUS
    <3>4. 4 \in DOMAIN c /\ c[4].ok = known /\ 7 \in DOMAIN c /\ c[7].ok = uncoreKnown
        BY <3>1, <3>2, <3>3 DEF Checks
    <3>5. \A i \in DOMAIN c : c[i].ok
        BY <1>5, <3>3 DEF Failed
    <3> QED
        BY <3>1, <3>2, <3>4, <3>5
  <2>2. rdt_information(setup) \in {"none", "monitored", "unmonitored"}
      BY DEF rdt_information
  <2>3. pc = "start"
      BY DEF _initialize
  <2> USE <1>5, <2>3 DEF Goes
  <2>4. Types'
      BY <2>2 DEF IInv, Types, Storages
  <2>5. Iteration'
      BY DEF IInv, Iteration
  <2>6. Stored'
      BY DEF Stored
  <2>7. Levels'
      BY <2>1 DEF IInv, Levels
  <2> QED
      BY <2>4, <2>5, <2>6, <2>7 DEF IInv
<1> QED
    BY <1>2, <1>3, <1>4, <1>5

LEMMA GetTasksStep == ASSUME IInv, GetTasks PROVE IInv'
<1>1. PICK answer \in Answers(setup) :
        \E result \in {get_tasks(setup, answer, pods)} :
         /\ Holds(answer = "ok")
         /\ \/ result.raised = "synchronization" /\ Skip
            \/ result.raised \notin {"no", "synchronization"} /\ Die(result.raised)
            \/ /\ result.raised = "no"
               /\ Goes("sync")
               /\ tasks' = result.of
               /\ UNCHANGED <<groups, managed, prev, uncore, platform, data,
                              unsent, number>>
    BY DEF GetTasks
<1>2. PICK r : /\ r = get_tasks(setup, answer, pods)
               /\ Holds(answer = "ok")
               /\ \/ r.raised = "synchronization" /\ Skip
                  \/ r.raised \notin {"no", "synchronization"} /\ Die(r.raised)
                  \/ /\ r.raised = "no"
                     /\ Goes("sync")
                     /\ tasks' = r.of
                     /\ UNCHANGED <<groups, managed, prev, uncore, platform, data,
                                    unsent, number>>
    BY <1>1
<1>3. setup \in Setups /\ pc = "tasks"
    BY DEF IInv, Types, GetTasks
<1>4. faults' \in 0..MaxFaults
    BY <1>2, FaultsBounded DEF IInv, Holds
<1>5. /\ r.raised \in {"no", "synchronization", "http", "cgroup"}
      /\ r.raised = "no" => \A t \in r.of : t \in DOMAIN pods /\ pods[t].ours
    BY <1>1, <1>2, <1>3, TasksFound
<1>6. CASE Skip
    BY <1>3, <1>4, <1>6, SkipStep
<1>7. CASE Die(r.raised)
    BY <1>4, <1>5, <1>7, DieStep
<1>8. CASE /\ r.raised = "no" /\ Goes("sync") /\ tasks' = r.of
           /\ UNCHANGED <<groups, managed, prev, uncore, platform, data, unsent, number>>
  <2> USE <1>3, <1>8 DEF Goes
  <2>1. tasks' \subseteq Tasks \ Foreign
      BY <1>5 DEF IInv, Types
  <2>2. Types'
      BY <1>4, <2>1 DEF IInv, Types, Storages
  <2>3. Iteration'
      BY DEF IInv, Iteration
  <2>4. Stored'
      BY DEF Stored
  <2>5. Levels'
      BY DEF IInv, Levels
  <2> QED
      BY <2>2, <2>3, <2>4, <2>5 DEF IInv
<1> QED
    BY <1>2, <1>6, <1>7, <1>8

LEMMA SyncStep == ASSUME IInv, sync_containers_state PROVE IInv'
<1>1. faults' \in 0..MaxFaults
    BY FaultsBounded DEF IInv, sync_containers_state
<1>2. CASE Die("monitoring") \/ Die("creation")
    BY <1>1, <1>2, DieStep
<1>3. CASE /\ Goes("platform") /\ managed' = Kept /\ prev' = prev \cap tasks
           /\ UNCHANGED <<groups, tasks, uncore, platform, data, unsent, number, faults>>
  <2>1. pc = "sync"
      BY DEF sync_containers_state
  <2> USE <1>3, <2>1 DEF Goes, Kept
  <2>2. Types'
      BY <1>1 DEF IInv, Types, Storages
  <2>3. Iteration'
      BY DEF IInv, Iteration
  <2>4. Stored'
      BY DEF Stored
  <2>5. Levels'
      BY DEF IInv, Levels
  <2> QED
      BY <2>2, <2>3, <2>4, <2>5 DEF IInv
<1> QED
    BY <1>2, <1>3 DEF sync_containers_state

LEMMA MeasurePlatformStep == ASSUME IInv, MeasurePlatform PROVE IInv'
<1>1. PICK ran \in BOOLEAN, busy \in BOOLEAN :
        \E result \in {platform_measurements[[of |-> setup, before |-> uncore, ran |-> ran,
                                              busy |-> busy]]} :
          /\ Holds(ran /\ busy)
          /\ \/ result.raised # "no" /\ Die(result.raised)
             \/ /\ result.raised = "no"
                /\ Goes("measure")
                /\ platform' = result.of
                /\ uncore' = (setup.uncore # {})
                /\ UNCHANGED <<groups, tasks, managed, prev, data, unsent, number>>
    BY DEF MeasurePlatform
<1>2. PICK r :
        /\ r = platform_measurements[[of |-> setup, before |-> uncore, ran |-> ran,
                                      busy |-> busy]]
        /\ Holds(ran /\ busy)
        /\ \/ r.raised # "no" /\ Die(r.raised)
           \/ /\ r.raised = "no"
              /\ Goes("measure")
              /\ platform' = r.of
              /\ uncore' = (setup.uncore # {})
              /\ UNCHANGED <<groups, tasks, managed, prev, data, unsent, number>>
    BY <1>1
<1>3. /\ setup \in Setups /\ uncore \in BOOLEAN /\ pc = "platform"
      /\ setup.uncore \subseteq KnownUncoreEvents
    BY DEF IInv, Types, Levels, MeasurePlatform
<1>4. faults' \in 0..MaxFaults
    BY <1>2, FaultsBounded DEF IInv, Holds
<1>5. /\ r.raised \notin {"levels", "overlap"}
      /\ r.raised = "no" => r.of # None /\ \A m \in DOMAIN r.of : r.of[m] = 0
    BY <1>1, <1>2, <1>3, PlatformResult
<1>6. CASE Die(r.raised)
    BY <1>4, <1>5, <1>6, DieStep
<1>7. CASE /\ r.raised = "no" /\ Goes("measure") /\ platform' = r.of
           /\ uncore' = (setup.uncore # {})
           /\ UNCHANGED <<groups, tasks, managed, prev, data, unsent, number>>
  <2> USE <1>3, <1>7 DEF Goes
  <2>1. Types'
      BY <1>4 DEF IInv, Types, Storages
  <2>2. Iteration'
      BY <1>5 DEF IInv, Iteration
  <2>3. Stored'
      BY DEF Stored
  <2>4. Levels'
      BY <1>5 DEF IInv, Levels
  <2> QED
      BY <2>1, <2>2, <2>3, <2>4 DEF IInv
<1> QED
    BY <1>2, <1>6, <1>7

LEMMA MeasureStep == ASSUME IInv, NEW t \in Tasks, Measure(t) PROVE IInv'
<1> DEFINE Adds(r) ==
      /\ r.raised = "no"
      /\ Goes("measure")
      /\ prev' = prev \cup {t}
      /\ data' = data ++ [u \in {t} |-> r.of ++ At(0, {"task_up", "task_requested"})]
      /\ UNCHANGED <<groups, tasks, managed, uncore, platform, unsent, number>>
<1>1. PICK alive \in BOOLEAN, ran \in BOOLEAN :
        \E result \in {get_measurements[[of |-> setup, grouped |-> (groups = "monitored"),
                                         exists |-> pods[t].cgroup, alive |-> alive,
                                         before |-> (t \in prev), ran |-> ran]]} :
          /\ ~setup.sched => alive
          /\ ~setup.derived => ran
          /\ Holds(alive)
          /\ \/ result.raised = "missing" /\ Missing(t)
             \/ result.raised \notin {"no", "missing"} /\ Die(result.raised)
             \/ Adds(result)
    BY DEF Measure
<1> HIDE DEF Adds
<1>2. PICK r :
        /\ r = get_measurements[[of |-> setup, grouped |-> (groups = "monitored"),
                                 exists |-> pods[t].cgroup, alive |-> alive,
                                 before |-> (t \in prev), ran |-> ran]]
        /\ Holds(alive)
        /\ \/ r.raised = "missing" /\ Missing(t)
           \/ r.raised \notin {"no", "missing"} /\ Die(r.raised)
           \/ Adds(r)
    BY <1>1
<1>3. /\ setup \in Setups /\ pods[t].cgroup \in BOOLEAN /\ pc = "measure" /\ t \in managed
      /\ setup.events \subseteq KnownEvents
    BY DEF IInv, Types, Levels, Measure, Pods
<1>4. faults' \in 0..MaxFaults
    BY <1>2, FaultsBounded DEF IInv, Holds
<1>5. /\ r.raised \notin {"levels", "overlap"}
      /\ r.raised = "no" => Fits(setup.aggregate, r.of)
  <2>1. PICK c : c = [of |-> setup, grouped |-> (groups = "monitored"),
                      exists |-> pods[t].cgroup, alive |-> alive,
                      before |-> (t \in prev), ran |-> ran]
      OBVIOUS
  <2>2. (groups = "monitored") \in BOOLEAN /\ (t \in prev) \in BOOLEAN
      OBVIOUS
  <2>3. /\ c \in [of : Setups, grouped : BOOLEAN, exists : BOOLEAN, alive : BOOLEAN,
                  before : BOOLEAN, ran : BOOLEAN]
        /\ c.of = setup
      BY <1>1, <1>3, <2>1, <2>2
  <2>4. r = get_measurements[c]
      BY <1>2, <2>1
  <2> QED
      BY <1>3, <2>3, <2>4, TaskMeasured
<1>6. CASE Missing(t)
    BY <1>3, <1>4, <1>6, SkipStep DEF Missing
<1>7. CASE Die(r.raised)
    BY <1>4, <1>5, <1>7, DieStep
<1>8. CASE Adds(r)
  <2>1. PICK f : f = r.of ++ At(0, {"task_up", "task_requested"})
      OBVIOUS
  <2>2. Fits(setup.aggregate, f)
    <3>1. Fits(setup.aggregate, At(0, {"task_up", "task_requested"}))
        BY LevelsFit DEF Flat
    <3> QED
        BY <1>5, <1>8, <2>1, <3>1, MergedFits DEF Adds
  <2>3. PICK g : g = [u \in {t} |-> f]
      OBVIOUS
  <2>4. Joins(data', data, g)
      BY <1>8, <2>1, <2>3, Merged DEF Adds
  <2>5. DOMAIN data' = DOMAIN data \cup {t}
      BY <2>3, <2>4 DEF Joins
  <2>6. \A u \in DOMAIN data' : \/ data'[u] = f
                                \/ u \in DOMAIN data /\ data'[u] = data[u]
      BY <2>3, <2>4 DEF Joins
  <2> USE <1>3, <1>8 DEF Adds, Goes
  <2>7. Types'
      BY <1>4 DEF IInv, Types, Storages
  <2>8. Iteration'
      BY <2>5 DEF IInv, Iteration
  <2>9. Stored'
      BY DEF Stored
  <2>10. Levels'
    <3>1. \A u \in DOMAIN data' : Fits(setup.aggregate, data'[u])
        BY <2>2, <2>6 DEF IInv, Levels
    <3> QED
        BY <3>1 DEF IInv, Levels
  <2> QED
      BY <2>7, <2>8, <2>9, <2>10 DEF IInv
<1> QED
    BY <1>2, <1>6, <1>7, <1>8

\* Between the last measurement and the storages.
LEMMA AdvanceStep ==
  ASSUME IInv, NEW step \in {"wait", "build"}, Advance(step), faults' \in 0..MaxFaults,
         Measured \/ pc = "wait"
  PROVE  IInv'
<1>1. /\ DOMAIN data = tasks /\ managed = tasks /\ platform # None
      /\ setup.events \subseteq KnownEvents /\ setup.uncore \subseteq KnownUncoreEvents
    BY DEF IInv, Iteration, Levels, Measured
<1> USE <1>1 DEF Advance, Goes
<1>2. Types'
    BY DEF IInv, Types, Storages
<1>3. Iteration'
    BY DEF IInv, Iteration
<1>4. Stored'
    BY DEF Stored
<1>5. Levels'
    BY DEF IInv, Levels
<1> QED
    BY <1>2, <1>3, <1>4, <1>5 DEF IInv

LEMMA CallbackStep == ASSUME IInv, _iterate_body \/ NoCallback \/ _wait PROVE IInv'
<1>1. faults' \in 0..MaxFaults
    BY FaultsBounded DEF IInv, _iterate_body, NoCallback, _wait
<1>2. CASE _iterate_body
    BY <1>1, <1>2, DieStep, AdvanceStep DEF _iterate_body
<1>3. CASE NoCallback
    BY <1>1, <1>3, AdvanceStep DEF NoCallback
<1>4. CASE _wait
    BY <1>1, <1>4, AdvanceStep DEF _wait
<1> QED
    BY <1>2, <1>3, <1>4

\* The package can be put together, and no storage has it yet.
LEMMA BuildStep == ASSUME IInv, _build_tasks_metrics PROVE IInv'
<1>1. /\ pc = "build" /\ UNCHANGED faults
      /\ setup.events \subseteq KnownEvents /\ setup.uncore \subseteq KnownUncoreEvents
    BY DEF IInv, Levels, _build_tasks_metrics
<1>2. \A t \in DOMAIN data :
        export_metrics_from_measurements(setup.aggregate, data[t]).raised = "no"
    BY Exported DEF IInv, Levels
<1>3. /\ Goes("store") /\ unsent' = setup.storages
      /\ UNCHANGED <<groups, tasks, managed, prev, uncore, platform, data, number>>
    BY <1>2 DEF _build_tasks_metrics
<1> USE <1>1, <1>3 DEF Goes
<1>4. Types'
    BY DEF IInv, Types, Storages
<1>5. Iteration'
    BY DEF IInv, Iteration
<1>6. Stored'
  <2>1. setup.storages \in Seq({"log", "kafka"}) /\ setup.storages # <<>>
      BY RunnerAssumption DEF IInv, Types
  <2>2. Len(setup.storages) \in Nat /\ Len(setup.storages) >= 1
      BY <2>1
  <2>3. Len(unsent') \in 1..Len(setup'.storages)
      BY <2>2
  <2>4. Next_storage' = 1
      BY <2>2 DEF Next_storage
  <2> QED
      BY <2>1, <2>2, <2>3, <2>4 DEF Stored, Storages
<1>7. Levels'
    BY DEF IInv, Levels
<1> QED
    BY <1>4, <1>5, <1>6, <1>7 DEF IInv

\* What was measured has a Prometheus form.
LEMMA Converts == ASSUME IInv PROVE Convertable
<1>1. ASSUME NEW t \in DOMAIN data
      PROVE  is_convertable_to_prometheus_exposition_format(
               export_metrics_from_measurements(setup.aggregate, data[t]).of)
  <2>1. PICK r : r = export_metrics_from_measurements(setup.aggregate, data[t])
      OBVIOUS
  <2>2. Fits(setup.aggregate, data[t])
      BY DEF IInv, Levels
  <2>3. DOMAIN r.of = DOMAIN data[t] /\ \A m \in DOMAIN data[t] : r.of[m] = 0
      BY <2>1, <2>2, Exported
  <2>4. is_convertable_to_prometheus_exposition_format(r.of)
      BY <2>3 DEF is_convertable_to_prometheus_exposition_format
  <2> QED
      BY <2>1, <2>4
<1>2. is_convertable_to_prometheus_exposition_format(platform)
    BY DEF IInv, Levels, is_convertable_to_prometheus_exposition_format
<1> QED
    BY <1>1, <1>2 DEF Convertable

\* A storage takes the package after the ones before it.
LEMMA StoreStep == ASSUME IInv, store PROVE IInv'
<1>1. pc = "store" /\ (Delivered \/ Undelivered)
    BY Converts DEF store
<1>2. /\ unsent \in Seq({"log", "kafka"})
      /\ Len(unsent) \in 1..Len(setup.storages)
      /\ \A s \in Storages : s < Next_storage => stored[s] = Package
    BY <1>1 DEF IInv, Stored
<1>3. Len(setup.storages) \in Nat
  <2>1. setup.storages \in Seq({"log", "kafka"})
      BY RunnerAssumption DEF IInv, Types
  <2> QED
      BY <2>1
<1>4. Next_storage \in Storages
    BY <1>2, <1>3 DEF Next_storage, Storages
<1>5. PICK p : p = Package
    OBVIOUS
<1>6. PICK new : new = [stored EXCEPT ![Next_storage] = p]
    OBVIOUS
<1>7. p \in [tasks : SUBSET Tasks, number : {0, 1, 2}]
    BY <1>5 DEF IInv, Types, Package
<1>8. /\ new \in [Storages -> [tasks : SUBSET Tasks, number : {0, 1, 2}]]
      /\ new[Next_storage] = p
      /\ \A s \in Storages : s # Next_storage => new[s] = stored[s]
    BY <1>4, <1>6, <1>7 DEF IInv, Types
<1>9. CASE Delivered
  <2> USE <1>9 DEF Delivered
  <2>1. Storages' = Storages /\ Package' = p /\ stored' = new
      BY <1>5, <1>6 DEF Storages, Package
  <2>2. Types'
      BY <1>1, <1>8, <2>1 DEF IInv, Types
  <2>3. Iteration'
      BY <1>1 DEF IInv, Iteration
  <2>4. Stored'
    <3>1. CASE Len(unsent) = 1
      <4>1. pc' = "done"
          BY <3>1
      <4>2. ASSUME NEW s \in Storages PROVE s < Next_storage \/ s = Next_storage
          BY <1>3, <3>1 DEF Next_storage, Storages
      <4>3. \A s \in Storages : new[s] = p
          BY <1>2, <1>5, <1>8, <4>2
      <4> QED
          BY <2>1, <4>1, <4>3 DEF Stored
    <3>2. CASE Len(unsent) # 1
      <4>1. pc' = "store"
          BY <3>2
      <4>2. unsent' \in Seq({"log", "kafka"}) /\ Len(unsent') = Len(unsent) - 1
          BY <1>2
      <4>3. Next_storage' = Next_storage + 1
          BY <1>2, <1>3, <4>2 DEF Next_storage
      <4>4. ASSUME NEW s \in Storages, s < Next_storage + 1
            PROVE  s < Next_storage \/ s = Next_storage
          BY <1>2, <1>3, <4>4 DEF Next_storage, Storages
      <4>5. \A s \in Storages : s < Next_storage + 1 => new[s] = p
          BY <1>2, <1>5, <1>8, <4>4
      <4>6. Len(unsent') \in 1..Len(setup'.storages)
          BY <1>2, <1>3, <3>2, <4>2
      <4> QED
          BY <2>1, <4>1, <4>2, <4>3, <4>5, <4>6 DEF Stored
    <3> QED
        BY <3>1, <3>2
  <2>5. Levels'
      BY <1>1 DEF IInv, Levels
  <2> QED
      BY <2>2, <2>3, <2>4, <2>5 DEF IInv
<1>10. CASE Undelivered
  <2>1. faults' \in 0..MaxFaults
      BY <1>10, FaultsBounded DEF IInv, Undelivered
  <2> USE <1>10 DEF Undelivered, agent
  <2>2. stored' = stored \/ stored' = new
      BY <1>5, <1>6
  <2>3. Types'
      BY <1>8, <2>1, <2>2 DEF IInv, Types, Storages
  <2>4. Iteration'
      BY DEF IInv, Iteration
  <2>5. Stored'
      BY DEF Stored
  <2>6. Levels'
      BY DEF IInv, Levels
  <2> QED
      BY <2>3, <2>4, <2>5, <2>6 DEF IInv
<1> QED
    BY <1>1, <1>9, <1>10

LEMMA IterateStep == ASSUME IInv, Iterate PROVE IInv'
<1> USE DEF Iterate, Goes
<1>1. Types'
    BY DEF IInv, Types, Storages
<1>2. Iteration'
    BY NothingMeasured DEF IInv, Iteration
<1>3. Stored'
    BY DEF Stored
<1>4. Levels'
    BY NothingMeasured DEF IInv, Levels
<1> QED
    BY <1>1, <1>2, <1>3, <1>4 DEF IInv

LEMMA KillStep == ASSUME IInv, Kill PROVE IInv'
<1>1. faults' \in 0..MaxFaults
    BY FaultsBounded DEF IInv, Kill
<1> QED
    BY <1>1, DieStep DEF Kill

LEMMA RestartStep == ASSUME IInv, Restart PROVE IInv'
<1> USE DEF Restart
<1>1. Types'
    BY DEF IInv, Types, Storages
<1>2. Iteration'
    BY NothingMeasured DEF Iteration
<1>3. Stored'
    BY DEF Stored
<1>4. Levels'
    BY NothingMeasured DEF Levels
<1> QED
    BY <1>1, <1>2, <1>3, <1>4 DEF IInv

\* The agent's state does not depend on what happens to the tasks meanwhile.
LEMMA PodStep ==
  ASSUME IInv, NEW t \in Tasks, Creates(t) \/ Reports(t) \/ Ends(t) \/ Unreports(t)
  PROVE  IInv'
<1>1. PICK state \in {"absent", "starting", "ready", "ended"}, cgroup \in BOOLEAN :
        Pod(t, state, cgroup)
  <2>1. pods[t].state \in {"absent", "starting", "ready", "ended"}
      BY DEF IInv, Types, Pods
  <2> QED
      BY <2>1 DEF Creates, Reports, Ends, Unreports
<1> USE <1>1 DEF Pod, agent
<1>2. Types'
  <2>1. pods' \in [Tasks -> Pods] /\ \A u \in Tasks : pods'[u].ours <=> u \notin Foreign
    <3>1. PICK e : e = [pods[t] EXCEPT !.state = state, !.cgroup = cgroup]
        OBVIOUS
    <3>2. pods[t] \in Pods
        BY DEF IInv, Types
    <3>3. e \in Pods /\ e.ours = pods[t].ours
        BY <1>1, <3>1, <3>2 DEF Pods
    <3>4. pods' = [pods EXCEPT ![t] = e]
        BY <3>1
    <3> QED
        BY <3>3, <3>4 DEF IInv, Types
  <2> QED
      BY <2>1 DEF IInv, Types, Storages
<1>3. Iteration'
    BY DEF IInv, Iteration
<1>4. Stored'
    BY DEF IInv, Stored, Storages, Next_storage, Package
<1>5. Levels'
    BY DEF IInv, Levels
<1> QED
    BY <1>2, <1>3, <1>4, <1>5 DEF IInv

LEMMA NextIInv == IInv /\ [Next]_vars => IInv'
<1> SUFFICES ASSUME IInv, [Next]_vars PROVE IInv'
    OBVIOUS
<1>1. CASE Agent
    BY <1>1, InitializeStep, GetTasksStep, SyncStep, MeasurePlatformStep, MeasureStep,
       CallbackStep, BuildStep, StoreStep, IterateStep DEF Agent
<1>2. CASE Kill \/ Restart
    BY <1>2, KillStep, RestartStep
<1>3. CASE \E t \in Tasks : Creates(t) \/ Reports(t) \/ Ends(t) \/ Unreports(t)
    BY <1>3, PodStep
<1>4. CASE UNCHANGED vars
  <2> USE <1>4 DEF vars, agent
  <2>1. Types'
      BY DEF IInv, Types, Storages
  <2>2. Iteration'
      BY DEF IInv, Iteration
  <2>3. Stored'
      BY DEF IInv, Stored, Storages, Next_storage, Package
  <2>4. Levels'
      BY DEF IInv, Levels
  <2> QED
      BY <2>1, <2>2, <2>3, <2>4 DEF IInv
<1> QED
    BY <1>1, <1>2, <1>3, <1>4 DEF Next

\* The inductive invariant of the agent's measuring loop.
THEOREM Invariance == Spec => []IInv
<1> QED
    BY InitIInv, NextIInv, PTL DEF Spec

\* The agent, its storages and its environment keep their types, and what is
\* measured in an iteration is of the tasks found in it.
THEOREM TypeCorrect == Spec => []TypeOK
<1>1. IInv => TypeOK
    BY DEF IInv, Types, Iteration, TypeOK
<1> QED
    BY <1>1, Invariance, PTL

\* For any number of tasks and storages and any configuration, at the end of an
\* iteration every storage holds this iteration's package with all its tasks
\* (measurement.py _iterate, storage.py FilterStorage.store).
THEOREM PackagesAreWhole == Spec => []PackagesWhole
<1>1. IInv => PackagesWhole
    BY DEF IInv, Iteration, Stored, PackagesWhole
<1> QED
    BY <1>1, Invariance, PTL

\* For any configuration, any set of counted events and any machine, no
\* measurement ends the agent for its shape (metrics.py, containers.py
\* flatten_measurements).
THEOREM LevelsAlwaysAgree == Spec => []LevelsAgree
<1>1. IInv => LevelsAgree
    BY DEF IInv, Levels, LevelsAgree
<1> QED
    BY <1>1, Invariance, PTL

=============================================================================
