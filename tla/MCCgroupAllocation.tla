------------------------- MODULE MCCgroupAllocation -------------------------
EXTENDS CgroupAllocation, TLC

CONSTANTS t1, t2

MCSubs == (t1 :> 0) @@ (t2 :> 2)
MCQos == (t1 :> "guaranteed") @@ (t2 :> "burstable")

Rule(by, ids, allocations) == [by |-> by, ids |-> ids, allocations |-> allocations]

MCRuleSets == {
    \* a quota for all, overridden for one task; below the least quota
    <<Rule("all", {}, [quota |-> 600]), Rule("labels", {t2}, [quota |-> 100, cpus |-> {0}])>>,
    \* a rule for a task by its identifier, ended or not
    <<Rule("task_id", {t1}, [quota |-> 630, mems |-> {1}, move |-> 1]),
      Rule("labels", {t2}, [cpus |-> {0, 1}, migrate |-> 1000])>>,
    \* refused: shares under mixed QoS classes
    <<Rule("all", {}, [shares |-> 500, cpus |-> {1}]), Rule("all", {}, <<>>)>>,
    \* refused: out of range
    <<Rule("labels", {t1}, [cpus |-> {7}]), Rule("labels", {t2}, [quota |-> 300])>>,
    \* the kernel refuses the first
    <<Rule("labels", {t1}, [migrate |-> 1000]), Rule("labels", {t2}, [mems |-> {0}])>>}

MCLimits == {[quota |-> 2400, period |-> 1000], [quota |-> 9600, period |-> 2000]}
=============================================================================
