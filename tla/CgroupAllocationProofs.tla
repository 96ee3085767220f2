----------------------- MODULE CgroupAllocationProofs -----------------------
(***************************************************************************)
(* Proofs about CgroupAllocation, for any tasks and containers, platform,  *)
(* period and shares unit, rules, and limits the kernel accepts.           *)
(*                                                                         *)
(* The inductive invariant IInv says that the changeset of an iteration    *)
(* stays exact while it is performed value by value and others write to    *)
(* the same files: for every task nobody else disturbed, what is not yet   *)
(* in effect of the target is in the changeset (Pending), and what is in   *)
(* the changeset is not there yet (Needed).  Both rest on what one write   *)
(* does: it leaves the values of the other kinds alone (PerformEffect) and *)
(* is read back as what was asked for, up to the rounding of the control   *)
(* files (ReadBack) or the least value a cgroup takes.  They are about     *)
(* what is read back, of cpusets the one of the first container; that all  *)
(* containers have the same, unless one was restarted since the cpuset was *)
(* written, is an invariant of its own (Uniform).                          *)
(***************************************************************************)
EXTENDS CgroupAllocation, TLAPS

\* The control files of a cgroup.
Files ==
  [quota   : {QUOTA_NOT_SET} \cup {q \in Nat : q >= QUOTA_MINIMUM_VALUE},
   period  : Nat \ {0},
   shares  : {s \in Nat : s >= MIN_SHARES},
   cpus    : SUBSET (0..(Cpus - 1)),
   mems    : SUBSET (0..(NumaNodes - 1)),
   migrate : {m \in Nat : m <= 1000},
   on      : SUBSET (0..(NumaNodes - 1))]

\* The cgroups of a task come and go together.
Types ==
  /\ \A c \in DOMAIN files : files[c] \in Files
  /\ \A c \in DOMAIN files : \E t \in Tasks : c \in CgroupsOf(t)
  /\ \A t \in Running : CgroupsOf(t) \subseteq DOMAIN files
  /\ rules \in RuleSets /\ containers \subseteq Tasks
  /\ pc \in {"sync", "body", "perform", "dead"}
  /\ events \in 0..MaxEvents

\* The changeset holds valid values of the target for containers of this
\* iteration, and is performed before the next one begins.
Changes ==
  /\ pc \in {"sync", "body"} => DOMAIN changeset = {}
  /\ DOMAIN changeset \subseteq DOMAIN target \cap containers
  /\ DOMAIN target \subseteq Tasks
  /\ \A t \in DOMAIN changeset : \A k \in DOMAIN changeset[t] :
       /\ k \in Kinds /\ validate(k, changeset[t][k])
       /\ k \in DOMAIN target[t] /\ changeset[t][k] = target[t][k]

\* What is not in effect yet of the target is still to be performed.
Pending ==
  pc = "perform" =>
    \A t \in (DOMAIN target \cap Running) \ touched : \A k \in DOMAIN target[t] :
      \/ t \in DOMAIN changeset /\ k \in DOMAIN changeset[t]
      \/ Shown(t, k, target[t][k])

\* What is still to be performed is not in effect yet.
Needed ==
  pc = "perform" =>
    \A t \in (DOMAIN changeset \cap Running) \ touched :
      \A k \in DOMAIN changeset[t] \ {"move"} :
        ~Same(k, changeset[t][k], get_allocations(t)[k])

IInv == Types /\ Changes /\ Pending /\ Needed

-----------------------------------------------------------------------------
(***************************************************************************)
(* Rounding: a normalised number is multiplied by the unit of a control    *)
(* file and cut off when it is written, and divided and cut off when it is *)
(* read.                                                                   *)
(***************************************************************************)

LEMMA Division ==
  ASSUME NEW a \in Nat, NEW b \in Nat, b > 0
  PROVE  /\ (a \div b) \in Nat
         /\ (a \div b) * b <= a
         /\ a < ((a \div b) + 1) * b
OBVIOUS

LEMMA Multiplied ==
  ASSUME NEW a \in Int, NEW b \in Int, NEW x \in Int, x >= 0, a <= b
  PROVE  a * x <= b * x
OBVIOUS

\* A number of thousandths survives within two of them if the unit is at
\* least a thousand.
LEMMA ReadBack ==
  ASSUME NEW v \in Nat, NEW x \in Nat, x >= 1000,
         NEW q, q = (v * x) \div 1000, NEW r, r = (1000 * q) \div x
  PROVE  r \in Nat /\ r <= v /\ v < r + 2
<1>1. q \in Nat /\ q * 1000 <= v * x /\ v * x < (q + 1) * 1000
  <2>1. v * x \in Nat
      OBVIOUS
  <2> QED
      BY <2>1, Division
<1>2. r \in Nat /\ r * x <= 1000 * q /\ 1000 * q < (r + 1) * x
    BY <1>1, Division
<1>3. r <= v
  <2> SUFFICES ASSUME v + 1 <= r PROVE FALSE
      OBVIOUS
  <2>1. (v + 1) * x <= r * x
      BY Multiplied
  <2> QED
      BY <1>1, <1>2, <2>1
<1>4. v < r + 2
  <2> SUFFICES ASSUME r + 2 <= v PROVE FALSE
      OBVIOUS
  <2>1. (r + 2) * x <= v * x
      BY Multiplied
  <2> QED
      BY <1>1, <1>2, <2>1
<1> QED
    BY <1>1, <1>2, <1>3, <1>4

\* A value is close to itself and to what is read back.
LEMMA CloseTo ==
  ASSUME NEW v \in Int, NEW r \in Int, r <= v, v < r + 2
  PROVE  Close(v, r)
BY DEF Close, VALUE_CHANGE_SENSITIVITY

-----------------------------------------------------------------------------
(***************************************************************************)
(* Cgroups.                                                                *)
(***************************************************************************)

LEMMA TaskOfCgroup ==
  ASSUME NEW t, NEW c \in CgroupsOf(t)
  PROVE  c[1] = t
BY DEF CgroupsOf

\* Every cgroup that get_allocations reads is there as long as the task runs,
\* and the one whose cpusets are reported is one of those that are pinned.
LEMMA CgroupsOfRunning ==
  ASSUME Types, NEW t \in Running
  PROVE  /\ t \in Tasks /\ Subs[t] \in Nat
         /\ <<t, 0>> \in CgroupsOf(t) /\ Reported(t) \in CgroupsOf(t)
         /\ CgroupsOf(t) \subseteq DOMAIN files
         /\ Reported(t) \in Pinned(t)
         /\ Pinned(t) \subseteq CgroupsOf(t) /\ SubcgroupsOf(t) \subseteq CgroupsOf(t)
         /\ <<t, 0>> \notin SubcgroupsOf(t)
<1>1. t \in Tasks
  <2>1. PICK c \in DOMAIN files : t = c[1]
      BY DEF Running
  <2>2. PICK u \in Tasks : c \in CgroupsOf(u)
      BY DEF Types
  <2> QED
      BY <2>1, <2>2, TaskOfCgroup
<1>2. Subs[t] \in Nat
    BY <1>1, TasksAssumption
<1>3. CgroupsOf(t) \subseteq DOMAIN files
    BY DEF Types
<1> QED
    BY <1>1, <1>2, <1>3 DEF CgroupsOf, SubcgroupsOf, Reported, Pinned

\* The cgroup of a running task belongs to no other task.
LEMMA CgroupsApart ==
  ASSUME NEW t, NEW u, t # u
  PROVE  CgroupsOf(t) \cap CgroupsOf(u) = {}
BY TaskOfCgroup

LEMMA RunningCgroup ==
  ASSUME NEW c \in DOMAIN files
  PROVE  c[1] \in Running
BY DEF Running

\* What is read of a task, and whether a value is in effect, depend on the
\* files of its own cgroup and of the reported one.
LEMMA SameFiles ==
  ASSUME NEW t, files'[<<t, 0>>] = files[<<t, 0>>],
         files'[Reported(t)] = files[Reported(t)]
  PROVE  /\ get_allocations(t)' = get_allocations(t)
         /\ \A k, v : Shown(t, k, v)' = Shown(t, k, v)
BY DEF get_allocations, Shown, AtMinimum, _get_normalized_quota,
       _get_normalized_shares, Reported

-----------------------------------------------------------------------------
(***************************************************************************)
(* One write.                                                              *)
(***************************************************************************)

\* The units of the control files, and the number of cpus.
LEMMA Units ==
  /\ Period \in Nat \ {0} /\ Period >= 1000
  /\ Unit \in Nat /\ Unit >= 1000
  /\ Cpus \in Nat /\ Cpus >= 1
BY PlatformAssumption, ConfigurationAssumption

LEMMA ValidValues ==
  ASSUME NEW k \in Kinds, NEW v, validate(k, v)
  PROVE  /\ k = "quota" => v \in Nat /\ v <= 1000
         /\ k = "shares" => v \in Nat
         /\ k = "cpus" => v \in SUBSET (0..(Cpus - 1))
         /\ k = "mems" => v \in SUBSET (0..(NumaNodes - 1))
         /\ k = "migrate" => v \in Nat /\ v <= 1000
         /\ k = "move" => v \in 0..(NumaNodes - 1)
BY PlatformAssumption DEF Kinds, validate, IsList, Limit, QUOTA_NORMALIZED_MAX

\* set_quota keeps the types, writes quota and period only, and what it writes
\* is read back as the value unless that is below the least quota.
LEMMA SetQuota ==
  ASSUME NEW f \in Files, NEW v \in Nat, v <= 1000, NEW g, g = set_quota(f, v)
  PROVE  /\ g \in Files
         /\ g.shares = f.shares /\ g.cpus = f.cpus /\ g.mems = f.mems
         /\ g.migrate = f.migrate /\ g.on = f.on
         /\ \/ Close(v, _get_normalized_quota(g))
            \/ /\ v * Period * Cpus < 1000 * QUOTA_MINIMUM_VALUE
               /\ g.quota = QUOTA_MINIMUM_VALUE
<1> DEFINE cut == (v * Period * Cpus) \div 1000
<1>1. PICK x \in Nat : x = Period * Cpus /\ x >= 1000
  <2>1. 1 * Period <= Cpus * Period
      BY Units, Multiplied
  <2> QED
      BY <2>1, Units
<1>2. v * Period * Cpus = v * x /\ v * x \in Nat /\ cut \in Nat
  <2>1. v * Period * Cpus = v * x /\ v * x \in Nat
      BY <1>1, Units
  <2> QED
      BY <2>1, Division
<1> HIDE DEF cut
<1>3. PICK q : q = IF v >= QUOTA_NORMALIZED_MAX THEN QUOTA_NOT_SET
                   ELSE AtLeast(QUOTA_MINIMUM_VALUE, cut)
    OBVIOUS
<1>4. q \in {QUOTA_NOT_SET} \cup {n \in Nat : n >= QUOTA_MINIMUM_VALUE}
    BY <1>2, <1>3 DEF AtLeast, QUOTA_MINIMUM_VALUE
<1>5. Period \in Nat \ {0}
    BY Units
<1>6. g = [f EXCEPT !.period = Period, !.quota = q]
    BY <1>3 DEF set_quota, cut
<1>7. /\ g \in Files /\ g.quota = q /\ g.period = Period
      /\ g.shares = f.shares /\ g.cpus = f.cpus /\ g.mems = f.mems
      /\ g.migrate = f.migrate /\ g.on = f.on
  <2>1. PICK h : h = [f EXCEPT !.period = Period]
      OBVIOUS
  <2>2. /\ h \in Files /\ h.period = Period
        /\ h.shares = f.shares /\ h.cpus = f.cpus /\ h.mems = f.mems
        /\ h.migrate = f.migrate /\ h.on = f.on
      BY <1>5, <2>1 DEF Files
  <2>3. g = [h EXCEPT !.quota = q]
      BY <1>6, <2>1
  <2> QED
      BY <1>4, <2>2, <2>3 DEF Files
<1>8. CASE v = 1000
  <2>1. q = QUOTA_NOT_SET
      BY <1>3, <1>8 DEF QUOTA_NORMALIZED_MAX
  <2>2. Close(v, _get_normalized_quota(g))
      BY <1>7, <1>8, <2>1, CloseTo DEF _get_normalized_quota, QUOTA_NORMALIZED_MAX
  <2> QED
      BY <1>7, <2>2
<1>9. CASE v < 1000 /\ cut < 1000
  <2>1. q = QUOTA_MINIMUM_VALUE
      BY <1>2, <1>3, <1>9 DEF QUOTA_NORMALIZED_MAX, QUOTA_MINIMUM_VALUE, AtLeast
  <2>2. v * Period * Cpus < 1000 * QUOTA_MINIMUM_VALUE
      BY <1>2, <1>9, Division DEF cut, QUOTA_MINIMUM_VALUE
  <2> QED
      BY <1>7, <2>1, <2>2
<1>10. CASE v < 1000 /\ cut >= 1000
  <2>1. q = cut /\ q # QUOTA_NOT_SET
      BY <1>2, <1>3, <1>10
      DEF QUOTA_NORMALIZED_MAX, QUOTA_MINIMUM_VALUE, QUOTA_NOT_SET, AtLeast
  <2>2. PICK n : n = _get_normalized_quota(g)
      OBVIOUS
  <2>3. Close(v, _get_normalized_quota(g))
    <3>1. n = (1000 * q) \div x
        BY <1>1, <1>7, <2>1, <2>2 DEF _get_normalized_quota
    <3>2. q = (v * x) \div 1000
        BY <1>2, <2>1 DEF cut
    <3>3. n \in Nat /\ n <= v /\ v < n + 2
        BY <1>1, <3>1, <3>2, ReadBack
    <3> QED
        BY <2>2, <3>3, CloseTo
  <2> QED
      BY <1>7, <2>3
<1> QED
    BY <1>2, <1>8, <1>9, <1>10

\* The same for set_shares.
LEMMA SetShares ==
  ASSUME NEW f \in Files, NEW v \in Nat, NEW g, g = set_shares(f, v)
  PROVE  /\ g \in Files
         /\ g.quota = f.quota /\ g.period = f.period /\ g.cpus = f.cpus
         /\ g.mems = f.mems /\ g.migrate = f.migrate /\ g.on = f.on
         /\ \/ Close(v, _get_normalized_shares(g))
            \/ v * Unit < 1000 * MIN_SHARES /\ g.shares = MIN_SHARES
<1> DEFINE cut == (v * Unit) \div 1000
<1>1. Unit \in Nat /\ Unit >= 1000
    BY Units
<1>2. v * Unit \in Nat /\ cut \in Nat
  <2>1. v * Unit \in Nat
      BY <1>1
  <2> QED
      BY <2>1, Division
<1> HIDE DEF cut
<1>3. PICK n \in {m \in Nat : m >= MIN_SHARES} : n = AtLeast(MIN_SHARES, cut)
    BY <1>2 DEF AtLeast, MIN_SHARES
<1>4. g = [f EXCEPT !.shares = n]
    BY <1>3 DEF set_shares, cut
<1>5. /\ g \in Files /\ g.shares = n
      /\ g.quota = f.quota /\ g.period = f.period /\ g.cpus = f.cpus
      /\ g.mems = f.mems /\ g.migrate = f.migrate /\ g.on = f.on
    BY <1>4 DEF Files
<1>6. CASE cut < MIN_SHARES
  <2>1. v * Unit < 1000 * MIN_SHARES
      BY <1>2, <1>6, Division DEF cut, MIN_SHARES
  <2> QED
      BY <1>3, <1>5, <1>6, <2>1 DEF AtLeast
<1>7. CASE cut >= MIN_SHARES
  <2>1. n = cut
      BY <1>2, <1>3, <1>7 DEF AtLeast, MIN_SHARES
  <2>2. Close(v, _get_normalized_shares(g))
    <3>1. PICK r : r = _get_normalized_shares(g)
        OBVIOUS
    <3>2. r = (1000 * n) \div Unit
        BY <1>5, <3>1 DEF _get_normalized_shares
    <3>3. n = (v * Unit) \div 1000
        BY <2>1 DEF cut
    <3>4. r \in Nat /\ r <= v /\ v < r + 2
        BY <1>1, <3>2, <3>3, ReadBack
    <3> QED
        BY <3>1, <3>4, CloseTo
  <2> QED
      BY <1>5, <2>2
<1> QED
    BY <1>2, <1>6, <1>7 DEF MIN_SHARES

\* Performing a value writes to the task's cgroups only, leaves what is read
\* of the other kinds alone, and is in effect afterwards.
LEMMA PerformEffect ==
  ASSUME Types, NEW t \in Running, NEW k \in Kinds, NEW v, validate(k, v),
         files' \in perform_allocations(t, k, v)
  PROVE  /\ DOMAIN files' = DOMAIN files
         /\ \A c \in DOMAIN files : files'[c] \in Files
         /\ \A c \in DOMAIN files \ CgroupsOf(t) : files'[c] = files[c]
         /\ k # "quota" => /\ files'[<<t, 0>>].quota = files[<<t, 0>>].quota
                           /\ files'[<<t, 0>>].period = files[<<t, 0>>].period
         /\ k # "shares" => files'[<<t, 0>>].shares = files[<<t, 0>>].shares
         /\ k # "cpus" => files'[Reported(t)].cpus = files[Reported(t)].cpus
         /\ k # "mems" => files'[Reported(t)].mems = files[Reported(t)].mems
         /\ k # "migrate" => files'[<<t, 0>>].migrate = files[<<t, 0>>].migrate
         /\ Shown(t, k, v)'
<1> DEFINE own == <<t, 0>>
<1>1. /\ own \in DOMAIN files /\ Reported(t) \in DOMAIN files
      /\ own \in CgroupsOf(t) /\ Reported(t) \in Pinned(t)
      /\ Pinned(t) \subseteq CgroupsOf(t) /\ SubcgroupsOf(t) \subseteq CgroupsOf(t)
      /\ own \notin SubcgroupsOf(t)
    BY CgroupsOfRunning
<1>2. \A c \in DOMAIN files : files[c] \in Files
    BY DEF Types
<1>3. Reported(t)' = Reported(t)
    BY DEF Reported
<1> HIDE DEF own
<1>4. CASE k = "quota"
  <2>1. v \in Nat /\ v <= 1000
      BY <1>4, ValidValues
  <2>2. files' = [c \in DOMAIN files |->
                    CASE c = own -> set_quota(files[c], v)
                      [] c \in SubcgroupsOf(t) -> set_quota(files[c], 1000)
                      [] OTHER -> files[c]]
      BY <1>4 DEF perform_allocations, own, IsList, QUOTA_NORMALIZED_MAX
  <2>3. PICK g : g = set_quota(files[own], v)
      OBVIOUS
  <2>4. /\ files'[own] = g
        /\ \A c \in DOMAIN files : c \notin CgroupsOf(t) => files'[c] = files[c]
        /\ DOMAIN files' = DOMAIN files
      BY <1>1, <2>2, <2>3
  <2>5. ASSUME NEW c \in DOMAIN files
        PROVE  /\ files'[c] \in Files
               /\ files'[c].shares = files[c].shares /\ files'[c].cpus = files[c].cpus
               /\ files'[c].mems = files[c].mems /\ files'[c].migrate = files[c].migrate
    <3>1. PICK f \in Files : f = files[c]
        BY <1>2
    <3>2. PICK h : h = files'[c]
        OBVIOUS
    <3>3. h = f \/ \E n \in Nat : n <= 1000 /\ h = set_quota(f, n)
        BY <1>1, <2>1, <2>2, <3>1, <3>2
    <3>4. /\ h \in Files
          /\ h.shares = f.shares /\ h.cpus = f.cpus
          /\ h.mems = f.mems /\ h.migrate = f.migrate
        BY <3>3, SetQuota
    <3> QED
        BY <3>1, <3>2, <3>4
  <2>6. Shown(t, k, v)'
    <3>1. \/ Close(v, _get_normalized_quota(g))
          \/ /\ v * Period * Cpus < 1000 * QUOTA_MINIMUM_VALUE
             /\ g.quota = QUOTA_MINIMUM_VALUE
      <4>1. PICK f \in Files : f = files[own]
          BY <1>1, <1>2
      <4> QED
          BY <2>1, <2>3, <4>1, SetQuota
    <3> QED
        BY <1>4, <2>4, <3>1 DEF Shown, AtMinimum, _get_normalized_quota, own
  <2> QED
      BY <1>1, <1>4, <2>4, <2>5, <2>6 DEF own
<1>5. CASE k = "shares"
  <2>1. v \in Nat
      BY <1>5, ValidValues
  <2>2. PICK g : g = set_shares(files[own], v)
      OBVIOUS
  <2>3. files' = [files EXCEPT ![own] = g]
      BY <1>5, <2>2 DEF perform_allocations, own, IsList
  <2>4. /\ g \in Files
        /\ g.quota = files[own].quota /\ g.period = files[own].period
        /\ g.cpus = files[own].cpus /\ g.mems = files[own].mems
        /\ g.migrate = files[own].migrate
        /\ \/ Close(v, _get_normalized_shares(g))
           \/ v * Unit < 1000 * MIN_SHARES /\ g.shares = MIN_SHARES
      BY <1>1, <1>2, <2>1, <2>2, SetShares
  <2>5. files'[own] = g /\ \A c \in DOMAIN files \ {own} : files'[c] = files[c]
      BY <1>1, <2>3
  <2>6. Shown(t, k, v)'
      BY <1>5, <2>4, <2>5 DEF Shown, AtMinimum, _get_normalized_shares, own
  <2> QED
      BY <1>1, <1>2, <1>5, <2>3, <2>4, <2>5, <2>6 DEF own
<1>6. CASE k = "migrate"
  <2>1. v \in {m \in Nat : m <= 1000}
      BY <1>6, ValidValues
  <2>2. PICK g : g = [files[own] EXCEPT !.migrate = v]
      OBVIOUS
  <2>3. files' = [files EXCEPT ![own] = g]
      BY <1>6, <2>2 DEF perform_allocations, own, IsList
  <2>4. PICK f \in Files : f = files[own]
      BY <1>1, <1>2
  <2>5. /\ g \in Files /\ g.migrate = v
        /\ g.quota = f.quota /\ g.period = f.period /\ g.shares = f.shares
        /\ g.cpus = f.cpus /\ g.mems = f.mems
      BY <2>1, <2>2, <2>4 DEF Files
  <2>6. files'[own] = g /\ \A c \in DOMAIN files \ {own} : files'[c] = files[c]
      BY <1>1, <2>3
  <2>7. Shown(t, k, v)'
      BY <1>6, <2>5, <2>6 DEF Shown, own
  <2> QED
      BY <1>1, <1>2, <1>6, <2>3, <2>4, <2>5, <2>6, <2>7 DEF own
<1>7. CASE k = "move"
  <2>1. v \in 0..(NumaNodes - 1)
      BY <1>7, ValidValues
  <2>2. PICK g : g = [files[own] EXCEPT !.on = {v}]
      OBVIOUS
  <2>3. files' = files \/ files' = [files EXCEPT ![own] = g]
      BY <1>7, <2>2 DEF perform_allocations, own, IsList
  <2>4. PICK f \in Files : f = files[own]
      BY <1>1, <1>2
  <2>5. /\ g \in Files
        /\ g.quota = f.quota /\ g.period = f.period /\ g.shares = f.shares
        /\ g.cpus = f.cpus /\ g.mems = f.mems /\ g.migrate = f.migrate
    <3>1. PICK o \in SUBSET (0..(NumaNodes - 1)) : o = {v}
        BY <2>1
    <3>2. g = [f EXCEPT !.on = o]
        BY <2>2, <2>4, <3>1
    <3> QED
        BY <3>2 DEF Files
  <2>6. Shown(t, k, v)'
      BY <1>7 DEF Shown
  <2>7. CASE files' = files
      BY <1>2, <1>3, <2>6, <2>7
  <2>8. CASE files' = [files EXCEPT ![own] = g]
    <3>1. files'[own] = g /\ \A c \in DOMAIN files \ {own} : files'[c] = files[c]
        BY <1>1, <2>8
    <3> QED
        BY <1>1, <1>2, <1>7, <2>4, <2>5, <2>6, <2>8, <3>1 DEF own
  <2> QED
      BY <2>3, <2>7, <2>8
<1>8. CASE k \in {"cpus", "mems"}
  <2>1. /\ k = "cpus" => v \in SUBSET (0..(Cpus - 1))
        /\ k = "mems" => v \in SUBSET (0..(NumaNodes - 1))
      BY <1>8, ValidValues
  <2>2. files' = [c \in DOMAIN files |->
                    IF c \in Pinned(t) /\ t \notin Denied
                    THEN [files[c] EXCEPT ![k] = v] ELSE files[c]]
      BY <1>8 DEF perform_allocations, IsList
  <2>3. ASSUME NEW c \in DOMAIN files
        PROVE  /\ files'[c] \in Files
               /\ files'[c].quota = files[c].quota /\ files'[c].period = files[c].period
               /\ files'[c].shares = files[c].shares
               /\ files'[c].migrate = files[c].migrate
               /\ k # "cpus" => files'[c].cpus = files[c].cpus
               /\ k # "mems" => files'[c].mems = files[c].mems
               /\ c \in Pinned(t) /\ t \notin Denied => files'[c][k] = v
    <3>1. PICK f \in Files : f = files[c]
        BY <1>2
    <3>2. PICK g : g = [f EXCEPT ![k] = v]
        OBVIOUS
    <3>3. /\ g \in Files /\ g[k] = v
          /\ g.quota = f.quota /\ g.period = f.period /\ g.shares = f.shares
          /\ g.migrate = f.migrate
          /\ k # "cpus" => g.cpus = f.cpus
          /\ k # "mems" => g.mems = f.mems
      <4>1. CASE k = "cpus"
          BY <2>1, <3>2, <4>1 DEF Files
      <4>2. CASE k = "mems"
          BY <2>1, <3>2, <4>2 DEF Files
      <4> QED
          BY <1>8, <4>1, <4>2
    <3>4. files'[c] = IF c \in Pinned(t) /\ t \notin Denied THEN g ELSE f
        BY <2>2, <3>1, <3>2
    <3> QED
        BY <3>1, <3>3, <3>4
  <2>4. /\ DOMAIN files' = DOMAIN files
        /\ \A c \in DOMAIN files : c \notin CgroupsOf(t) => files'[c] = files[c]
      BY <1>1, <2>2
  <2>5. Shown(t, k, v)'
      BY <1>1, <1>3, <1>8, <2>3 DEF Shown, IsList
  <2> QED
      BY <1>1, <1>8, <2>3, <2>4, <2>5 DEF own
<1> QED
    BY <1>4, <1>5, <1>6, <1>7, <1>8 DEF Kinds

\* A write leaves the other kinds of the task as they are read.
LEMMA OtherKinds ==
  ASSUME Types, NEW t \in Running, NEW k \in Kinds, NEW v, validate(k, v),
         files' \in perform_allocations(t, k, v), NEW j, j # k
  PROVE  /\ j \in Kinds \ {"move"} => get_allocations(t)'[j] = get_allocations(t)[j]
         /\ \A w : Shown(t, j, w) => Shown(t, j, w)'
<1>1. /\ k # "quota" => /\ files'[<<t, 0>>].quota = files[<<t, 0>>].quota
                        /\ files'[<<t, 0>>].period = files[<<t, 0>>].period
      /\ k # "shares" => files'[<<t, 0>>].shares = files[<<t, 0>>].shares
      /\ k # "cpus" => files'[Reported(t)].cpus = files[Reported(t)].cpus
      /\ k # "mems" => files'[Reported(t)].mems = files[Reported(t)].mems
      /\ k # "migrate" => files'[<<t, 0>>].migrate = files[<<t, 0>>].migrate
    BY PerformEffect
<1>2. Reported(t)' = Reported(t)
    BY DEF Reported
<1> HIDE DEF perform_allocations
<1>3. CASE j = "quota"
  <2>1. get_allocations(t)'[j] = get_allocations(t)[j]
      BY <1>1, <1>3 DEF get_allocations, _get_normalized_quota
  <2> QED
      BY <1>1, <1>3, <2>1 DEF Shown, AtMinimum, IsList
<1>4. CASE j = "shares"
  <2>1. get_allocations(t)'[j] = get_allocations(t)[j]
      BY <1>1, <1>4 DEF get_allocations, _get_normalized_shares
  <2> QED
      BY <1>1, <1>4, <2>1 DEF Shown, AtMinimum, IsList
<1>5. CASE j = "cpus"
  <2>1. get_allocations(t)'[j] = get_allocations(t)[j]
      BY <1>1, <1>2, <1>5 DEF get_allocations
  <2> QED
      BY <1>1, <1>2, <1>5, <2>1 DEF Shown, AtMinimum, IsList
<1>6. CASE j = "mems"
  <2>1. get_allocations(t)'[j] = get_allocations(t)[j]
      BY <1>1, <1>2, <1>6 DEF get_allocations
  <2> QED
      BY <1>1, <1>2, <1>6, <2>1 DEF Shown, AtMinimum, IsList
<1>7. CASE j = "migrate"
  <2>1. get_allocations(t)'[j] = get_allocations(t)[j]
      BY <1>1, <1>7 DEF get_allocations
  <2> QED
      BY <1>1, <1>7, <2>1 DEF Shown, AtMinimum, IsList
<1>8. CASE j \notin Kinds \ {"move"}
    BY <1>8 DEF Shown, AtMinimum, IsList, Kinds
<1> QED
    BY <1>3, <1>4, <1>5, <1>6, <1>7, <1>8 DEF Kinds

-----------------------------------------------------------------------------
(***************************************************************************)
(* Changesets.                                                             *)
(***************************************************************************)

\* Performing a value takes exactly it out of the changeset.
LEMMA WithoutOne ==
  ASSUME NEW t \in DOMAIN changeset, NEW k \in DOMAIN changeset[t],
         NEW w, w = Without(t, k)
  PROVE  /\ DOMAIN w \subseteq DOMAIN changeset
         /\ \A u \in DOMAIN w : \A j \in DOMAIN w[u] :
              /\ j \in DOMAIN changeset[u] /\ w[u][j] = changeset[u][j]
              /\ u # t \/ j # k
         /\ \A u \in DOMAIN changeset : \A j \in DOMAIN changeset[u] :
              u # t \/ j # k =>
                u \in DOMAIN w /\ j \in DOMAIN w[u] /\ w[u][j] = changeset[u][j]
<1>1. CASE DOMAIN changeset[t] = {k}
  <2>1. w = [u \in DOMAIN changeset \cap (DOMAIN changeset \ {t}) |-> changeset[u]]
      BY <1>1 DEF Without, Restricted
  <2> QED
      BY <1>1, <2>1
<1>2. CASE DOMAIN changeset[t] # {k}
  <2>1. PICK r : r = [j \in DOMAIN changeset[t] \cap (DOMAIN changeset[t] \ {k}) |->
                        changeset[t][j]]
      OBVIOUS
  <2>2. w = [changeset EXCEPT ![t] = r]
      BY <1>2, <2>1 DEF Without, Restricted
  <2>3. /\ DOMAIN w = DOMAIN changeset /\ w[t] = r
        /\ \A u \in DOMAIN changeset : u # t => w[u] = changeset[u]
      BY <2>2
  <2>4. /\ \A j \in DOMAIN r : j \in DOMAIN changeset[t] /\ j # k /\ r[j] = changeset[t][j]
        /\ \A j \in DOMAIN changeset[t] : j # k => j \in DOMAIN r /\ r[j] = changeset[t][j]
      BY <2>1
  <2> QED
      BY <2>3, <2>4
<1> QED
    BY <1>1, <1>2

\* What calculate_changeset finds: new values only, and only such that differ.
LEMMA ChangesetOf ==
  ASSUME NEW new, NEW current, NEW w, w = changeset_of(new, current)
  PROVE  /\ DOMAIN w \subseteq DOMAIN new
         /\ \A t \in DOMAIN w : \A k \in DOMAIN w[t] :
              /\ k \in DOMAIN new[t] /\ w[t][k] = new[t][k]
              /\ t \in DOMAIN current => k \in Changed(new[t], current[t])
<1>1. PICK d : d = [t \in DOMAIN new |->
                      IF t \in DOMAIN current
                      THEN Restricted(new[t], Changed(new[t], current[t]))
                      ELSE new[t]]
    OBVIOUS
<1>2. w = Restricted(d, {t \in DOMAIN d : DOMAIN d[t] # {}})
    BY <1>1 DEF changeset_of
<1>3. /\ DOMAIN w \subseteq DOMAIN d /\ DOMAIN d = DOMAIN new
      /\ \A t \in DOMAIN w : w[t] = d[t]
    BY <1>1, <1>2 DEF Restricted
<1>4. ASSUME NEW t \in DOMAIN new, NEW k \in DOMAIN d[t]
      PROVE  /\ k \in DOMAIN new[t] /\ d[t][k] = new[t][k]
             /\ t \in DOMAIN current => k \in Changed(new[t], current[t])
  <2>1. CASE t \in DOMAIN current
    <3>1. d[t] = Restricted(new[t], Changed(new[t], current[t]))
        BY <1>1, <2>1
    <3> QED
        BY <3>1 DEF Restricted
  <2>2. CASE t \notin DOMAIN current
    <3>1. d[t] = new[t]
        BY <1>1, <2>2
    <3> QED
        BY <2>2, <3>1
  <2> QED
      BY <2>1, <2>2
<1> QED
    BY <1>3, <1>4

\* g is the changes w on top of the current values.
Overrides(g, w, current) ==
  /\ DOMAIN g = DOMAIN w \cup DOMAIN current
  /\ \A t \in DOMAIN w : \A k \in DOMAIN w[t] :
       k \in DOMAIN g[t] /\ w[t][k] = g[t][k]
  /\ \A t \in DOMAIN current : \A k \in DOMAIN g[t] :
       \/ t \in DOMAIN w /\ k \in DOMAIN w[t]
       \/ k \in DOMAIN current[t] /\ g[t][k] = current[t][k]

LEMMA TargetOf ==
  ASSUME NEW new, NEW current, NEW w, w = changeset_of(new, current),
         NEW g, g = target_of(new, current)
  PROVE  Overrides(g, w, current)
<1>1. PICK m : m = [t \in DOMAIN w |->
                      IF t \in DOMAIN current THEN Override(w[t], current[t]) ELSE w[t]]
    OBVIOUS
<1>2. g = Override(m, current)
    BY <1>1 DEF target_of
<1>3. /\ DOMAIN g = DOMAIN w \cup DOMAIN current
      /\ \A t \in DOMAIN g : g[t] = IF t \in DOMAIN w THEN m[t] ELSE current[t]
    BY <1>1, <1>2 DEF Override
<1>4. ASSUME NEW t \in DOMAIN current, NEW k \in DOMAIN g[t]
      PROVE  \/ t \in DOMAIN w /\ k \in DOMAIN w[t]
             \/ k \in DOMAIN current[t] /\ g[t][k] = current[t][k]
  <2>1. CASE t \in DOMAIN w
    <3>1. g[t] = Override(w[t], current[t])
        BY <1>1, <1>3, <2>1
    <3> QED
        BY <2>1, <3>1 DEF Override
  <2>2. CASE t \notin DOMAIN w
      BY <1>3, <2>2
  <2> QED
      BY <2>1, <2>2
<1>5. ASSUME NEW t \in DOMAIN w, NEW k \in DOMAIN w[t]
      PROVE  k \in DOMAIN g[t] /\ w[t][k] = g[t][k]
  <2>1. g[t] = w[t] \/ g[t] = Override(w[t], current[t])
      BY <1>1, <1>3
  <2> QED
      BY <2>1 DEF Override
<1> QED
    BY <1>3, <1>4, <1>5 DEF Overrides

\* What is read is in effect.
LEMMA CurrentIsShown ==
  ASSUME Types, NEW t \in Running, NEW k \in DOMAIN get_allocations(t)
  PROVE  Shown(t, k, get_allocations(t)[k])
<1>1. PICK f \in Files : f = files[<<t, 0>>]
    BY CgroupsOfRunning DEF Types
<1>2. k \in {"quota", "shares", "cpus", "mems", "migrate"}
    BY DEF get_allocations
<1>3. CASE k = "quota"
  <2>1. PICK x : x = _get_normalized_quota(f)
      OBVIOUS
  <2>2. x \in Int
    <3>1. CASE f.quota = QUOTA_NOT_SET
        BY <2>1, <3>1 DEF _get_normalized_quota, QUOTA_NORMALIZED_MAX
    <3>2. CASE f.quota # QUOTA_NOT_SET
      <4>1. f.quota \in Nat /\ f.period \in Nat /\ f.period >= 1
          BY <3>2 DEF Files
      <4>2. 1 * 1 <= f.period * Cpus /\ f.period * Cpus \in Nat
        <5>1. 1 * 1 <= f.period * 1
            BY <4>1
        <5>2. f.period * 1 <= f.period * Cpus
            BY <4>1, Units, Multiplied
        <5> QED
            BY <4>1, <5>1, <5>2, Units
      <4>3. x = (1000 * f.quota) \div (f.period * Cpus)
          BY <2>1, <3>2 DEF _get_normalized_quota
      <4>4. 1000 * f.quota \in Nat
          BY <4>1
      <4>5. PICK b \in Nat : b = f.period * Cpus /\ b > 0
          BY <4>2
      <4> QED
          BY <4>3, <4>4, <4>5, Division
    <3> QED
        BY <3>1, <3>2
  <2>3. Close(x, x)
      BY <2>2 DEF Close, VALUE_CHANGE_SENSITIVITY
  <2>4. get_allocations(t)[k] = x
      BY <1>1, <1>3, <2>1 DEF get_allocations
  <2> QED
      BY <1>1, <1>3, <2>1, <2>3, <2>4 DEF Shown, _get_normalized_quota
<1>4. CASE k = "shares"
  <2>1. PICK x : x = _get_normalized_shares(f)
      OBVIOUS
  <2>2. x \in Int
    <3>1. f.shares \in Nat
        BY DEF Files
    <3>2. 1000 * f.shares \in Nat
        BY <3>1
    <3> QED
        BY <2>1, <3>2, Units, Division DEF _get_normalized_shares
  <2>3. Close(x, x)
      BY <2>2 DEF Close, VALUE_CHANGE_SENSITIVITY
  <2>4. get_allocations(t)[k] = x
      BY <1>1, <1>4, <2>1 DEF get_allocations
  <2> QED
      BY <1>1, <1>4, <2>1, <2>3, <2>4 DEF Shown, _get_normalized_shares
<1>5. CASE k = "cpus"
    BY <1>5 DEF get_allocations, Shown, IsList
<1>6. CASE k = "mems"
    BY <1>6 DEF get_allocations, Shown, IsList
<1>7. CASE k = "migrate"
    BY <1>7 DEF get_allocations, Shown
<1> QED
    BY <1>2, <1>3, <1>4, <1>5, <1>6, <1>7

-----------------------------------------------------------------------------
(***************************************************************************)
(* Every step preserves the inductive invariant.                           *)
(***************************************************************************)

LEMMA FreshFiles == Fresh \in Files
<1>1. /\ 1000 \in Nat \ {0} /\ 1000 \in {s \in Nat : s >= 2} /\ 0 \in {m \in Nat : m <= 1000}
      /\ -1 \in {-1} \cup {q \in Nat : q >= 1000}
    OBVIOUS
<1> QED
    BY <1>1 DEF Fresh, Files, QUOTA_NOT_SET, QUOTA_MINIMUM_VALUE, MIN_SHARES

LEMMA EmptyDomain == ASSUME NEW f, f = <<>> PROVE DOMAIN f = {}
OBVIOUS

LEMMA InitIInv == Init => IInv
<1> SUFFICES ASSUME Init PROVE IInv
    OBVIOUS
<1>1. DOMAIN files = UNION {CgroupsOf(t) : t \in Tasks}
      /\ \A c \in DOMAIN files : files[c] = Fresh
    BY DEF Init
<1>2. Types
  <2>1. \A c \in DOMAIN files : \E t \in Tasks : c \in CgroupsOf(t)
      BY <1>1
  <2>2. ASSUME NEW t \in Running PROVE CgroupsOf(t) \subseteq DOMAIN files
    <3>1. PICK c \in DOMAIN files : t = c[1]
        BY DEF Running
    <3>2. PICK u \in Tasks : c \in CgroupsOf(u)
        BY <2>1
    <3>3. t \in Tasks
        BY <3>1, <3>2, TaskOfCgroup
    <3> QED
        BY <1>1, <3>3
  <2>3. events \in 0..MaxEvents
      BY BoundAssumption DEF Init
  <2> QED
      BY <1>1, <2>1, <2>2, <2>3, FreshFiles DEF Init, Types
<1>3. DOMAIN changeset = {} /\ DOMAIN target = {} /\ pc = "sync"
    BY EmptyDomain DEF Init
<1> QED
    BY <1>2, <1>3 DEF IInv, Changes, Pending, Needed

\* A step of the environment disturbs the tasks it touches only.
LEMMA Disturbance ==
  ASSUME IInv, NEW S, touched' = touched \cup S,
         UNCHANGED <<containers, pc, target, changeset>>, Types',
         Running' \subseteq Running,
         \A t \in Running' \ S : \A c \in CgroupsOf(t) : files'[c] = files[c]
  PROVE  IInv'
<1>1. ASSUME NEW t \in Running' \ touched'
      PROVE  /\ t \in Running \ touched
             /\ get_allocations(t)' = get_allocations(t)
             /\ \A k, v : Shown(t, k, v)' = Shown(t, k, v)
  <2>1. t \in Running \ touched /\ t \notin S
      OBVIOUS
  <2>2. <<t, 0>> \in CgroupsOf(t) /\ Reported(t) \in CgroupsOf(t)
      BY <2>1, CgroupsOfRunning DEF IInv
  <2>3. files'[<<t, 0>>] = files[<<t, 0>>] /\ files'[Reported(t)] = files[Reported(t)]
      BY <2>1, <2>2
  <2> QED
      BY <2>1, <2>3, SameFiles
<1>2. Changes'
    BY DEF IInv, Changes
<1>3. Pending'
    BY <1>1 DEF IInv, Pending
<1>4. Needed'
  <2> SUFFICES ASSUME pc' = "perform",
                      NEW t \in (DOMAIN changeset' \cap Running') \ touched',
                      NEW k \in DOMAIN changeset'[t] \ {"move"}
               PROVE  ~Same(k, changeset'[t][k], get_allocations(t)'[k])
      BY DEF Needed, Same, Close, IsList
  <2>1. get_allocations(t)' = get_allocations(t) /\ t \in Running \ touched
      BY <1>1
  <2>2. ~Same(k, changeset[t][k], get_allocations(t)[k])
      BY <2>1 DEF IInv, Needed
  <2> QED
      BY <2>1, <2>2
<1> QED
    BY <1>2, <1>3, <1>4 DEF IInv

\* A step that writes to one cgroup.
LEMMA OneCgroup ==
  ASSUME IInv, NEW c \in DOMAIN files, NEW g \in Files,
         files' = [files EXCEPT ![c] = g], Happens({c[1]}), UNCHANGED rules
  PROVE  IInv'
<1>1. DOMAIN files' = DOMAIN files /\ \A b \in DOMAIN files : b # c => files'[b] = files[b]
    OBVIOUS
<1>2. Running' = Running
    BY <1>1 DEF Running
<1>3. \A b \in DOMAIN files : files'[b] \in Files
    BY DEF IInv, Types
<1>4. events' \in 0..MaxEvents
    BY BoundAssumption DEF IInv, Types, Happens
<1>5. Types'
    BY <1>1, <1>2, <1>3, <1>4 DEF IInv, Types, Happens, Files, CgroupsOf
<1>6. ASSUME NEW t \in Running' \ {c[1]}, NEW b \in CgroupsOf(t)
      PROVE  files'[b] = files[b]
  <2>1. b # c
      BY TaskOfCgroup
  <2>2. b \in DOMAIN files
      BY <1>2 DEF IInv, Types
  <2> QED
      BY <1>1, <2>1, <2>2
<1> QED
    BY <1>2, <1>5, <1>6, Disturbance DEF Happens

LEMMA EnvironmentStep == ASSUME IInv, Environment PROVE IInv'
<1>1. CASE Configure
  <2>1. PICK rs \in RuleSets \ {rules} : Happens({}) /\ rules' = rs /\ UNCHANGED files
      BY <1>1 DEF Configure
  <2>2. Running' = Running
      BY <2>1 DEF Running
  <2>3. events' \in 0..MaxEvents
      BY <2>1, BoundAssumption DEF IInv, Types, Happens
  <2>4. Types'
      BY <2>1, <2>2, <2>3 DEF IInv, Types, Happens, Files, CgroupsOf
  <2> QED
      BY <2>1, <2>2, <2>4, Disturbance DEF Happens
<1>2. CASE SetLimit
  <2>1. PICK c \in DOMAIN files, l \in Limits :
            /\ Happens({c[1]})
            /\ files' = [files EXCEPT ![c].quota = l.quota, ![c].period = l.period]
            /\ UNCHANGED rules
      BY <1>2 DEF SetLimit
  <2>2. PICK f \in Files : f = files[c]
      BY DEF IInv, Types
  <2>3. PICK q \in {QUOTA_NOT_SET} \cup {n \in Nat : n >= QUOTA_MINIMUM_VALUE},
             p \in Nat \ {0} : q = l.quota /\ p = l.period
      BY LimitsAssumption DEF QUOTA_NOT_SET, QUOTA_MINIMUM_VALUE
  <2>4. PICK h : h = [f EXCEPT !.quota = q]
      OBVIOUS
  <2>5. h \in Files
      BY <2>4 DEF Files
  <2>6. PICK g : g = [h EXCEPT !.period = p]
      OBVIOUS
  <2>7. g \in Files
      BY <2>5, <2>6 DEF Files
  <2>8. files' = [files EXCEPT ![c] = g]
      BY <2>1, <2>2, <2>3, <2>4, <2>6
  <2> QED
      BY <2>1, <2>7, <2>8, OneCgroup
<1>3. CASE RestartContainer
  <2>1. PICK c \in DOMAIN files : /\ Happens({c[1]})
                                  /\ files' = [files EXCEPT ![c] = Fresh]
                                  /\ UNCHANGED rules
      BY <1>3 DEF RestartContainer
  <2> QED
      BY <2>1, FreshFiles, OneCgroup
<1>4. CASE Finish
  <2>1. PICK t \in Running :
            /\ Happens({t})
            /\ files' = Restricted(files, DOMAIN files \ CgroupsOf(t))
            /\ UNCHANGED rules
      BY <1>4 DEF Finish
  <2>2. /\ DOMAIN files' = DOMAIN files \ CgroupsOf(t)
        /\ \A c \in DOMAIN files' : files'[c] = files[c]
      BY <2>1 DEF Restricted
  <2>3. Running' \subseteq Running
      BY <2>2 DEF Running
  <2>4. t \notin Running'
    <3> SUFFICES ASSUME NEW c \in DOMAIN files', c[1] = t PROVE FALSE
        BY DEF Running
    <3>1. PICK u \in Tasks : c \in CgroupsOf(u)
        BY <2>2 DEF IInv, Types
    <3>2. u = t
        BY <3>1, TaskOfCgroup
    <3> QED
        BY <2>2, <3>1, <3>2
  <2>5. ASSUME NEW u \in Running' PROVE CgroupsOf(u) \subseteq DOMAIN files'
    <3>1. CgroupsOf(u) \subseteq DOMAIN files
        BY <2>3 DEF IInv, Types
    <3>2. CgroupsOf(u) \cap CgroupsOf(t) = {}
        BY <2>4, CgroupsApart
    <3> QED
        BY <2>2, <3>1, <3>2
  <2>6. events' \in 0..MaxEvents
      BY <2>1, BoundAssumption DEF IInv, Types, Happens
  <2>7. Types'
    <3>1. \A c \in DOMAIN files' : files'[c] \in Files
        BY <2>2 DEF IInv, Types
    <3>2. \A c \in DOMAIN files' : \E u \in Tasks : c \in CgroupsOf(u)
        BY <2>2 DEF IInv, Types
    <3>3. /\ rules' \in RuleSets /\ containers' \subseteq Tasks
          /\ pc' \in {"sync", "body", "perform", "dead"}
        BY <2>1 DEF IInv, Types, Happens
    <3> QED
        BY <2>5, <2>6, <3>1, <3>2, <3>3 DEF Types, Files, CgroupsOf
  <2>8. \A u \in Running' \ {t} : \A c \in CgroupsOf(u) : files'[c] = files[c]
      BY <2>2, <2>5
  <2> QED
      BY <2>1, <2>3, <2>7, <2>8, Disturbance DEF Happens
<1> QED
    BY <1>1, <1>2, <1>3, <1>4 DEF Environment

\* The steps that write no control file keep their types.
LEMMA TypesKept ==
  ASSUME Types, UNCHANGED <<files, rules, events>>, containers' \subseteq Tasks,
         pc' \in {"sync", "body", "perform", "dead"}
  PROVE  Types' /\ Running' = Running
<1>1. Running' = Running
    BY DEF Running
<1> QED
    BY <1>1 DEF Types, Files, CgroupsOf

LEMMA IdleStep ==
  ASSUME IInv, Sync \/ Store \/ Restart
  PROVE  IInv'
<1>1. Types'
  <2>1. Running \subseteq Tasks
      BY CgroupsOfRunning DEF IInv
  <2> QED
      BY <2>1, TypesKept DEF IInv, Types, Sync, Store, Restart
<1>2. pc' \in {"sync", "body"} /\ DOMAIN changeset' = {} /\ DOMAIN target' \subseteq Tasks
  <2>1. CASE Sync
      BY <2>1 DEF Sync, IInv, Changes
  <2>2. CASE Store
      BY <2>2, EmptyDomain DEF Store, IInv, Changes
  <2>3. CASE Restart
      BY <2>3, EmptyDomain DEF Restart
  <2> QED
      BY <2>1, <2>2, <2>3
<1> QED
    BY <1>1, <1>2 DEF IInv, Changes, Pending, Needed

\* calculate_changeset finds what is not in effect, no more and no less.
LEMMA BodyStep ==
  ASSUME IInv, _iterate_body
  PROVE  IInv'
<1>1. PICK current : current = _get_tasks_allocations(containers)
    OBVIOUS
<1>2. PICK new : new = _build_allocations_from_rules(containers, rules)
    OBVIOUS
<1>3. /\ touched' = {} /\ pc = "body"
      /\ UNCHANGED <<files, rules, containers, events>>
      /\ \/ /\ ~CanCreate(current, containers)
            /\ pc' = "dead" /\ UNCHANGED <<target, changeset>>
         \/ /\ pc' = "perform" /\ target' = current /\ changeset' = <<>>
         \/ /\ CanCreate(new, containers)
            /\ pc' = "perform"
            /\ target' = target_of(new, current)
            /\ changeset' = changeset_of(new, current)
    BY <1>1, <1>2 DEF _iterate_body, ValidNew
<1>4. Types' /\ Running' = Running
    BY <1>3, TypesKept DEF IInv, Types
<1>5. /\ DOMAIN current = containers \cap Running
      /\ \A t \in DOMAIN current : current[t] = get_allocations(t)
    BY <1>1 DEF _get_tasks_allocations
<1>6. containers \subseteq Tasks
    BY DEF IInv, Types
<1>7. ASSUME NEW t \in DOMAIN current, NEW k \in DOMAIN current[t]
      PROVE  Shown(t, k, current[t][k])'
  <2>1. Shown(t, k, current[t][k])
      BY <1>5, CurrentIsShown DEF IInv
  <2>2. \A v : Shown(t, k, v)' = Shown(t, k, v)
      BY <1>3, SameFiles
  <2> QED
      BY <2>1, <2>2
<1>8. CASE pc' = "dead" /\ UNCHANGED <<target, changeset>>
  <2>1. Changes'
      BY <1>3, <1>8 DEF IInv, Changes
  <2> QED
      BY <1>4, <1>8, <2>1 DEF IInv, Pending, Needed
<1>9. CASE pc' = "perform" /\ target' = current /\ changeset' = <<>>
  <2>1. DOMAIN changeset' = {}
      BY <1>9, EmptyDomain
  <2>2. Changes'
      BY <1>5, <1>6, <1>9, <2>1 DEF Changes
  <2>3. Pending'
      BY <1>7, <1>9 DEF Pending
  <2>4. Needed'
      BY <2>1 DEF Needed
  <2> QED
      BY <1>4, <2>2, <2>3, <2>4 DEF IInv
<1>10. CASE /\ CanCreate(new, containers)
            /\ pc' = "perform"
            /\ target' = target_of(new, current)
            /\ changeset' = changeset_of(new, current)
  <2>1. /\ DOMAIN changeset' \subseteq DOMAIN new
        /\ \A t \in DOMAIN changeset' : \A k \in DOMAIN changeset'[t] :
              /\ k \in DOMAIN new[t] /\ changeset'[t][k] = new[t][k]
              /\ t \in DOMAIN current => k \in Changed(new[t], current[t])
      BY <1>10, ChangesetOf
  <2>2. /\ DOMAIN target' = DOMAIN changeset' \cup DOMAIN current
        /\ \A t \in DOMAIN changeset' : \A k \in DOMAIN changeset'[t] :
              k \in DOMAIN target'[t] /\ changeset'[t][k] = target'[t][k]
        /\ \A t \in DOMAIN current : \A k \in DOMAIN target'[t] :
              \/ t \in DOMAIN changeset' /\ k \in DOMAIN changeset'[t]
              \/ k \in DOMAIN current[t] /\ target'[t][k] = current[t][k]
    <3>1. Overrides(target', changeset', current)
        BY <1>10, TargetOf
    <3> QED
        BY <3>1 DEF Overrides
  <2>3. /\ DOMAIN new \subseteq containers
        /\ \A t \in DOMAIN new : \A k \in DOMAIN new[t] :
             k \in Kinds /\ validate(k, new[t][k])
      BY <1>10 DEF CanCreate
  <2>4. Changes'
    <3>1. DOMAIN changeset' \subseteq containers'
        BY <1>3, <2>1, <2>3
    <3>2. DOMAIN target' \subseteq Tasks
        BY <1>5, <1>6, <2>1, <2>2, <2>3
    <3>3. \A t \in DOMAIN changeset' : \A k \in DOMAIN changeset'[t] :
             k \in Kinds /\ validate(k, changeset'[t][k])
        BY <2>1, <2>3
    <3> QED
        BY <1>10, <2>2, <3>1, <3>2, <3>3 DEF Changes
  <2>5. Pending'
    <3> SUFFICES ASSUME NEW t \in DOMAIN target' \cap Running, NEW k \in DOMAIN target'[t],
                        NEW v, v = target'[t][k]
                 PROVE  \/ t \in DOMAIN changeset' /\ k \in DOMAIN changeset'[t]
                        \/ Shown(t, k, v)'
        BY <1>4 DEF Pending
    <3>1. t \in DOMAIN current
        BY <1>5, <2>1, <2>2, <2>3
    <3>2. CASE k \in DOMAIN current[t] /\ target'[t][k] = current[t][k]
        BY <1>7, <3>1, <3>2
    <3> QED
        BY <2>2, <3>1, <3>2
  <2>6. Needed'
    <3> SUFFICES ASSUME NEW t \in DOMAIN changeset' \cap Running,
                        NEW k \in DOMAIN changeset'[t] \ {"move"}
                 PROVE  ~Same(k, changeset'[t][k], get_allocations(t)'[k])
        BY <1>4 DEF Needed, Same, Close, IsList
    <3>1. t \in DOMAIN current /\ k \in Kinds
        BY <1>5, <2>1, <2>3
    <3>2. current[t] = get_allocations(t) /\ k \in DOMAIN get_allocations(t)
        BY <1>5, <3>1 DEF get_allocations, Kinds
    <3>3. ~Same(k, new[t][k], current[t][k])
        BY <2>1, <3>1, <3>2 DEF Changed
    <3>4. get_allocations(t)' = get_allocations(t)
        BY <1>3, SameFiles
    <3> QED
        BY <2>1, <3>2, <3>3, <3>4
  <2> QED
      BY <1>4, <2>4, <2>5, <2>6 DEF IInv
<1> QED
    BY <1>3, <1>8, <1>9, <1>10

LEMMA PerformStep ==
  ASSUME IInv, NEW t \in Tasks, NEW k \in Kinds, Perform(t, k)
  PROVE  IInv'
<1>1. /\ pc = "perform" /\ t \in DOMAIN changeset /\ k \in DOMAIN changeset[t]
      /\ t \in Running
      /\ files' \in perform_allocations(t, k, changeset[t][k])
      /\ changeset' = Without(t, k)
      /\ UNCHANGED <<rules, containers, pc, target, touched, events>>
    BY DEF Perform
<1>2. PICK v : v = changeset[t][k]
    OBVIOUS
<1>3. validate(k, v)
    BY <1>1, <1>2 DEF IInv, Changes
<1>4. files' \in perform_allocations(t, k, v)
    BY <1>1, <1>2
<1>5. /\ DOMAIN files' = DOMAIN files
      /\ \A c \in DOMAIN files : files'[c] \in Files
      /\ \A c \in DOMAIN files \ CgroupsOf(t) : files'[c] = files[c]
      /\ Shown(t, k, v)'
    BY <1>1, <1>3, <1>4, PerformEffect DEF IInv
<1>6. Running' = Running
    BY <1>5 DEF Running
<1>7. Types'
    BY <1>1, <1>5, <1>6 DEF IInv, Types, Files, CgroupsOf
<1>8. /\ DOMAIN changeset' \subseteq DOMAIN changeset
      /\ \A u \in DOMAIN changeset' : \A j \in DOMAIN changeset'[u] :
              /\ j \in DOMAIN changeset[u] /\ changeset'[u][j] = changeset[u][j]
              /\ u # t \/ j # k
      /\ \A u \in DOMAIN changeset : \A j \in DOMAIN changeset[u] :
              u # t \/ j # k =>
                /\ u \in DOMAIN changeset' /\ j \in DOMAIN changeset'[u]
                /\ changeset'[u][j] = changeset[u][j]
    BY <1>1, WithoutOne
<1>9. Changes'
  <2>1. \A u \in DOMAIN changeset' : \A j \in DOMAIN changeset'[u] :
          /\ j \in Kinds /\ validate(j, changeset'[u][j])
          /\ j \in DOMAIN target[u] /\ changeset'[u][j] = target[u][j]
      BY <1>8 DEF IInv, Changes
  <2>2. /\ pc' \in {"perform", "dead"} /\ DOMAIN target' \subseteq Tasks /\ target' = target
        /\ DOMAIN changeset' \subseteq DOMAIN target' \cap containers'
      BY <1>1, <1>8 DEF IInv, Changes
  <2> QED
      BY <2>1, <2>2 DEF Changes
<1>10. ASSUME NEW u \in Running, u # t
       PROVE  /\ get_allocations(u)' = get_allocations(u)
              /\ \A j, w : Shown(u, j, w)' = Shown(u, j, w)
  <2>1. <<u, 0>> \in CgroupsOf(u) /\ Reported(u) \in CgroupsOf(u)
        /\ CgroupsOf(u) \subseteq DOMAIN files
      BY CgroupsOfRunning DEF IInv
  <2>2. CgroupsOf(u) \cap CgroupsOf(t) = {}
      BY <1>10, CgroupsApart
  <2>3. files'[<<u, 0>>] = files[<<u, 0>>] /\ files'[Reported(u)] = files[Reported(u)]
      BY <1>5, <2>1, <2>2
  <2> QED
      BY <2>3, SameFiles
<1>11. ASSUME NEW j, j # k
       PROVE  /\ j \in Kinds \ {"move"} => get_allocations(t)'[j] = get_allocations(t)[j]
              /\ \A w : Shown(t, j, w) => Shown(t, j, w)'
    BY <1>1, <1>3, <1>4, <1>11, OtherKinds DEF IInv
<1>12. Pending'
  <2> SUFFICES ASSUME NEW u \in (DOMAIN target \cap Running) \ touched, NEW j \in DOMAIN target[u],
                      NEW w, w = target[u][j]
               PROVE  \/ u \in DOMAIN changeset' /\ j \in DOMAIN changeset'[u]
                      \/ Shown(u, j, w)'
      BY <1>1, <1>6 DEF Pending
  <2>1. \/ u \in DOMAIN changeset /\ j \in DOMAIN changeset[u]
        \/ Shown(u, j, w)
      BY <1>1 DEF IInv, Pending
  <2>2. CASE u # t
      BY <1>8, <1>10, <2>1, <2>2
  <2>3. CASE u = t /\ j # k
      BY <1>8, <1>11, <2>1, <2>3
  <2>4. CASE u = t /\ j = k
    <3>1. w = v
        BY <1>1, <1>2, <2>4 DEF IInv, Changes
    <3> QED
        BY <1>5, <2>4, <3>1
  <2> QED
      BY <2>2, <2>3, <2>4
<1>13. Needed'
  <2> SUFFICES ASSUME NEW u \in (DOMAIN changeset' \cap Running) \ touched,
                      NEW j \in DOMAIN changeset'[u] \ {"move"}
               PROVE  ~Same(j, changeset'[u][j], get_allocations(u)'[j])
      BY <1>1, <1>6 DEF Needed, Same, Close, IsList
  <2>1. /\ u \in DOMAIN changeset /\ j \in DOMAIN changeset[u]
        /\ changeset'[u][j] = changeset[u][j] /\ (u # t \/ j # k) /\ j \in Kinds
      BY <1>8 DEF IInv, Changes
  <2>2. ~Same(j, changeset[u][j], get_allocations(u)[j])
      BY <1>1, <2>1 DEF IInv, Needed
  <2>3. get_allocations(u)'[j] = get_allocations(u)[j]
      BY <1>10, <1>11, <2>1
  <2> QED
      BY <2>1, <2>2, <2>3
<1> QED
    BY <1>7, <1>9, <1>12, <1>13 DEF IInv

LEMMA PerformOnMissingStep ==
  ASSUME IInv, NEW t \in Tasks, NEW k \in Kinds, PerformOnMissing(t, k)
  PROVE  IInv'
<1>1. /\ pc = "perform" /\ t \in DOMAIN changeset /\ k \in DOMAIN changeset[t]
      /\ t \notin Running /\ pc' \in {"perform", "dead"}
      /\ changeset' = Without(t, k)
      /\ UNCHANGED <<files, rules, containers, target, touched, events>>
    BY DEF PerformOnMissing
<1>2. Types' /\ Running' = Running
    BY <1>1, TypesKept DEF IInv, Types
<1>3. /\ DOMAIN changeset' \subseteq DOMAIN changeset
      /\ \A u \in DOMAIN changeset' : \A j \in DOMAIN changeset'[u] :
           j \in DOMAIN changeset[u] /\ changeset'[u][j] = changeset[u][j]
      /\ \A u \in DOMAIN changeset : \A j \in DOMAIN changeset[u] :
              u # t \/ j # k =>
                /\ u \in DOMAIN changeset' /\ j \in DOMAIN changeset'[u]
                /\ changeset'[u][j] = changeset[u][j]
    BY <1>1, WithoutOne
<1>4. Changes'
  <2>1. \A u \in DOMAIN changeset' : \A j \in DOMAIN changeset'[u] :
          /\ j \in Kinds /\ validate(j, changeset'[u][j])
          /\ j \in DOMAIN target[u] /\ changeset'[u][j] = target[u][j]
      BY <1>3 DEF IInv, Changes
  <2>2. /\ pc' \in {"perform", "dead"} /\ DOMAIN target' \subseteq Tasks /\ target' = target
        /\ DOMAIN changeset' \subseteq DOMAIN target' \cap containers'
      BY <1>1, <1>3 DEF IInv, Changes
  <2> QED
      BY <2>1, <2>2 DEF Changes
<1>5. ASSUME NEW u
      PROVE  /\ get_allocations(u)' = get_allocations(u)
             /\ \A j, w : Shown(u, j, w)' = Shown(u, j, w)
    BY <1>1, SameFiles
<1>6. Pending'
  <2> SUFFICES ASSUME NEW u \in (DOMAIN target \cap Running) \ touched, NEW j \in DOMAIN target[u],
                      NEW w, w = target[u][j]
               PROVE  \/ u \in DOMAIN changeset' /\ j \in DOMAIN changeset'[u]
                      \/ Shown(u, j, w)'
      BY <1>1, <1>2 DEF Pending
  <2>1. \/ u \in DOMAIN changeset /\ j \in DOMAIN changeset[u]
        \/ Shown(u, j, w)
      BY <1>1 DEF IInv, Pending
  <2> QED
      BY <1>1, <1>3, <1>5, <2>1
<1>7. Needed'
  <2> SUFFICES ASSUME NEW u \in (DOMAIN changeset' \cap Running) \ touched,
                      NEW j \in DOMAIN changeset'[u] \ {"move"}
               PROVE  ~Same(j, changeset'[u][j], get_allocations(u)'[j])
      BY <1>1, <1>2 DEF Needed, Same, Close, IsList
  <2>1. /\ u \in DOMAIN changeset /\ j \in DOMAIN changeset[u]
        /\ changeset'[u][j] = changeset[u][j]
      BY <1>3
  <2>2. ~Same(j, changeset[u][j], get_allocations(u)[j])
      BY <1>1, <2>1 DEF IInv, Needed
  <2> QED
      BY <1>5, <2>1, <2>2
<1> QED
    BY <1>2, <1>4, <1>6, <1>7 DEF IInv

LEMMA PerformRefusedStep ==
  ASSUME IInv, NEW t \in Tasks, NEW k \in Kinds, PerformRefused(t, k)
  PROVE  IInv'
<1>1. /\ pc' = "dead"
      /\ UNCHANGED <<files, rules, containers, target, changeset, events>>
    BY DEF PerformRefused
<1>2. Types'
    BY <1>1, TypesKept DEF IInv, Types
<1>3. Changes'
    BY <1>1 DEF IInv, Changes
<1> QED
    BY <1>1, <1>2, <1>3 DEF IInv, Pending, Needed

LEMMA IInvStep == IInv /\ [Next]_vars => IInv'
<1> SUFFICES ASSUME IInv, [Next]_vars PROVE IInv'
    OBVIOUS
<1>1. CASE Sync \/ Store \/ Restart
    BY <1>1, IdleStep
<1>2. CASE _iterate_body
    BY <1>2, BodyStep
<1>3. CASE \E t \in Tasks, k \in Kinds :
             Perform(t, k) \/ PerformRefused(t, k) \/ PerformOnMissing(t, k)
    BY <1>3, PerformStep, PerformRefusedStep, PerformOnMissingStep
<1>4. CASE Environment
    BY <1>4, EnvironmentStep
<1>5. CASE UNCHANGED vars
  <2>1. touched' = touched \cup {}
      BY <1>5 DEF vars
  <2>2. Types' /\ Running' = Running
      BY <1>5, TypesKept DEF IInv, Types, vars
  <2> QED
      BY <1>5, <2>1, <2>2, Disturbance DEF vars
<1> QED
    BY <1>1, <1>2, <1>3, <1>4, <1>5 DEF Next, Agent

-----------------------------------------------------------------------------
(***************************************************************************)
(* All containers of a task that refuses no write have the same cpusets,   *)
(* unless one of them was restarted since these were written.              *)
(***************************************************************************)

Cpusets == {"cpus", "mems"}

Uniform ==
  /\ restarted \subseteq Tasks \X Cpusets
  /\ \A t \in Running \ Denied : \A k \in Cpusets :
       <<t, k>> \notin restarted =>
         \A c \in BoundBy(t) : files[c][k] = files[Reported(t)][k]

\* The cgroups that bind the processes of a running task are the ones that
\* cpusets are written to.
LEMMA BoundArePinned ==
  ASSUME Types, NEW t \in Running
  PROVE  BoundBy(t) \subseteq Pinned(t)
<1> SUFFICES ASSUME NEW c \in DOMAIN files, c[1] = t, c[2] = 0 <=> Subs[t] = 0
             PROVE  c \in Pinned(t)
    BY DEF BoundBy
<1>1. PICK u \in Tasks : c \in CgroupsOf(u)
    BY DEF Types
<1>2. u = t
    BY <1>1, TaskOfCgroup
<1>3. PICK i \in 0..Subs[t] : c = <<t, i>>
    BY <1>1, <1>2 DEF CgroupsOf
<1>4. Subs[t] \in Nat
    BY CgroupsOfRunning
<1> QED
    BY <1>3, <1>4 DEF Pinned, SubcgroupsOf

\* Setting a quota or shares leaves cpusets alone, and performing a cpuset
\* writes it to all cgroups that are pinned or, if that is refused, to none.
LEMMA PerformCpusets ==
  ASSUME Types, NEW t \in Running, NEW k \in Kinds, NEW v, validate(k, v),
         files' \in perform_allocations(t, k, v), NEW c \in DOMAIN files, NEW j \in Cpusets
  PROVE  files'[c][j] = IF j = k /\ c \in Pinned(t) /\ t \notin Denied
                        THEN v ELSE files[c][j]
<1>1. PICK f \in Files : f = files[c]
    BY DEF Types
<1>2. PICK g : g = files'[c]
    OBVIOUS
<1>3. CASE k = "quota"
  <2>1. v \in Nat /\ v <= 1000
      BY <1>3, ValidValues
  <2>2. g = f \/ \E n \in Nat : n <= 1000 /\ g = set_quota(f, n)
    <3>1. files' = [b \in DOMAIN files |->
                      CASE b = <<t, 0>> -> set_quota(files[b], v)
                        [] b \in SubcgroupsOf(t) -> set_quota(files[b], 1000)
                        [] OTHER -> files[b]]
        BY <1>3 DEF perform_allocations, IsList, QUOTA_NORMALIZED_MAX
    <3>2. <<t, 0>> \notin SubcgroupsOf(t)
        BY CgroupsOfRunning
    <3> QED
        BY <1>1, <1>2, <2>1, <3>1, <3>2
  <2>3. g.cpus = f.cpus /\ g.mems = f.mems
      BY <2>2, SetQuota
  <2> QED
      BY <1>1, <1>2, <1>3, <2>3 DEF Cpusets
<1>4. CASE k = "shares"
  <2>1. v \in Nat
      BY <1>4, ValidValues
  <2>2. g = f \/ g = set_shares(f, v)
      BY <1>1, <1>2, <1>4 DEF perform_allocations, IsList
  <2>3. g.cpus = f.cpus /\ g.mems = f.mems
      BY <2>1, <2>2, SetShares
  <2> QED
      BY <1>1, <1>2, <1>4, <2>3 DEF Cpusets
<1>5. CASE k = "migrate"
  <2>1. g = f \/ g = [f EXCEPT !.migrate = v]
      BY <1>1, <1>2, <1>5 DEF perform_allocations, IsList
  <2>2. g.cpus = f.cpus /\ g.mems = f.mems
      BY <2>1 DEF Files
  <2> QED
      BY <1>1, <1>2, <1>5, <2>2 DEF Cpusets
<1>6. CASE k = "move"
  <2>1. g = f \/ g = [f EXCEPT !.on = {v}]
      BY <1>1, <1>2, <1>6 DEF perform_allocations, IsList
  <2>2. g.cpus = f.cpus /\ g.mems = f.mems
      BY <2>1 DEF Files
  <2> QED
      BY <1>1, <1>2, <1>6, <2>2 DEF Cpusets
<1>7. CASE k \in Cpusets
  <2>1. g = IF c \in Pinned(t) /\ t \notin Denied THEN [f EXCEPT ![k] = v] ELSE f
      BY <1>1, <1>2, <1>7 DEF perform_allocations, IsList, Cpusets
  <2>2. PICK h : h = [f EXCEPT ![k] = v]
      OBVIOUS
  <2>3. h[j] = IF j = k THEN v ELSE f[j]
      BY <1>7, <2>2 DEF Files, Cpusets
  <2> QED
      BY <1>1, <1>2, <2>1, <2>2, <2>3
<1> QED
    BY <1>3, <1>4, <1>5, <1>6, <1>7 DEF Kinds, Cpusets

\* A step keeps a cpuset of a task uniform if it changes it in no cgroup.
LEMMA UniformTask ==
  ASSUME Types, Uniform, NEW t \in Running, t \notin Denied, NEW k \in Cpusets,
         <<t, k>> \notin restarted, DOMAIN files' \subseteq DOMAIN files,
         \A c \in CgroupsOf(t) : files'[c][k] = files[c][k]
  PROVE  \A c \in BoundBy(t)' : files'[c][k] = files'[Reported(t)][k]
<1> TAKE c \in BoundBy(t)'
<1>1. c \in BoundBy(t)
    BY DEF BoundBy
<1>2. c \in CgroupsOf(t) /\ Reported(t) \in CgroupsOf(t)
    BY <1>1, BoundArePinned, CgroupsOfRunning
<1>3. files[c][k] = files[Reported(t)][k]
    BY <1>1 DEF Uniform
<1> QED
    BY <1>2, <1>3

LEMMA UniformPerform ==
  ASSUME IInv, Uniform, NEW t \in Tasks, NEW k \in Kinds, Perform(t, k)
  PROVE  Uniform'
<1>1. /\ t \in DOMAIN changeset /\ k \in DOMAIN changeset[t] /\ t \in Running
      /\ files' \in perform_allocations(t, k, changeset[t][k])
      /\ restarted' = restarted \ {<<t, k>>}
    BY DEF Perform
<1>2. PICK v : v = changeset[t][k]
    OBVIOUS
<1>3. validate(k, v) /\ files' \in perform_allocations(t, k, v)
    BY <1>1, <1>2 DEF IInv, Changes
<1>4. Types
    BY DEF IInv
<1>5. /\ DOMAIN files' = DOMAIN files
      /\ \A c \in DOMAIN files \ CgroupsOf(t) : files'[c] = files[c]
    BY <1>1, <1>3, <1>4, PerformEffect
<1>6. Running' = Running
    BY <1>5 DEF Running
<1>7. \A c \in DOMAIN files : \A j \in Cpusets :
        files'[c][j] = IF j = k /\ c \in Pinned(t) /\ t \notin Denied
                       THEN v ELSE files[c][j]
    BY <1>1, <1>3, <1>4, PerformCpusets
<1>8. ASSUME NEW u \in Running, u \notin Denied, NEW j \in Cpusets, <<u, j>> \notin restarted'
      PROVE  \A c \in BoundBy(u)' : files'[c][j] = files'[Reported(u)][j]
  <2>1. CASE u = t /\ j = k
    <3> TAKE c \in BoundBy(u)'
    <3>1. c \in BoundBy(t) /\ c \in DOMAIN files
        BY <1>5, <2>1 DEF BoundBy
    <3>2. c \in Pinned(t) /\ Reported(t) \in Pinned(t) /\ Reported(t) \in DOMAIN files
        BY <1>1, <1>4, <3>1, BoundArePinned, CgroupsOfRunning
    <3>3. files'[c][j] = v /\ files'[Reported(t)][j] = v
        BY <1>7, <1>8, <2>1, <3>1, <3>2
    <3> QED
        BY <2>1, <3>3
  <2>2. CASE u # t \/ j # k
    <3>1. <<u, j>> \notin restarted
      <4>1. <<u, j>> # <<t, k>>
          BY <2>2
      <4> QED
          BY <1>1, <1>8, <4>1
    <3>2. CgroupsOf(u) \subseteq DOMAIN files
        BY <1>4, CgroupsOfRunning
    <3>3. \A c \in CgroupsOf(u) : files'[c][j] = files[c][j]
      <4>1. CASE u # t
        <5>1. CgroupsOf(u) \cap CgroupsOf(t) = {}
            BY <4>1, CgroupsApart
        <5> QED
            BY <1>5, <3>2, <5>1
      <4>2. CASE j # k
          BY <1>7, <3>2, <4>2
      <4> QED
          BY <2>2, <4>1, <4>2
    <3> QED
        BY <1>4, <1>5, <1>8, <3>1, <3>3, UniformTask
  <2> QED
      BY <2>1, <2>2
<1>9. restarted' \subseteq Tasks \X Cpusets
    BY <1>1 DEF Uniform
<1> QED
    BY <1>6, <1>8, <1>9 DEF Uniform, Reported

LEMMA UniformEnvironment ==
  ASSUME IInv, Uniform, Environment
  PROVE  Uniform'
<1>0. Types
    BY DEF IInv
<1>1. CASE Configure
    BY <1>1 DEF Configure, Uniform, Running, BoundBy, Reported
<1>2. CASE SetLimit
  <2>1. PICK c \in DOMAIN files, l \in Limits :
          /\ files' = [files EXCEPT ![c].quota = l.quota, ![c].period = l.period]
          /\ restarted' = restarted
      BY <1>2 DEF SetLimit
  <2>2. PICK f \in Files : f = files[c]
      BY <1>0 DEF Types
  <2>3. PICK g : g = [f EXCEPT !.quota = l.quota, !.period = l.period]
      OBVIOUS
  <2>4. g.cpus = f.cpus /\ g.mems = f.mems
      BY <2>3 DEF Files
  <2>5. files' = [files EXCEPT ![c] = g]
      BY <2>1, <2>2, <2>3
  <2>6. /\ DOMAIN files' = DOMAIN files
        /\ \A b \in DOMAIN files : \A k \in Cpusets : files'[b][k] = files[b][k]
      BY <2>2, <2>4, <2>5 DEF Cpusets
  <2>7. Running' = Running
      BY <2>6 DEF Running
  <2>8. ASSUME NEW t \in Running, t \notin Denied, NEW k \in Cpusets, <<t, k>> \notin restarted
        PROVE  \A b \in BoundBy(t)' : files'[b][k] = files'[Reported(t)][k]
    <3>1. CgroupsOf(t) \subseteq DOMAIN files
        BY <1>0, CgroupsOfRunning
    <3> QED
        BY <1>0, <2>6, <2>8, <3>1, UniformTask
  <2> QED
    <3>1. restarted' = restarted
        BY <2>1
    <3> QED
        BY <2>7, <2>8, <3>1 DEF Uniform, Reported
<1>3. CASE RestartContainer
  <2>1. PICK c \in DOMAIN files :
          /\ files' = [files EXCEPT ![c] = Fresh]
          /\ restarted' = restarted \cup {c[1]} \X {"cpus", "mems"}
      BY <1>3 DEF RestartContainer
  <2>2. /\ DOMAIN files' = DOMAIN files
        /\ \A b \in DOMAIN files : b # c => files'[b] = files[b]
      BY <2>1
  <2>3. Running' = Running
      BY <2>2 DEF Running
  <2>4. ASSUME NEW t \in Running, t \notin Denied, NEW k \in Cpusets, <<t, k>> \notin restarted'
        PROVE  \A b \in BoundBy(t)' : files'[b][k] = files'[Reported(t)][k]
    <3>1. <<t, k>> \notin restarted /\ t # c[1]
        BY <2>1, <2>4 DEF Cpusets
    <3>2. CgroupsOf(t) \subseteq DOMAIN files /\ c \notin CgroupsOf(t)
        BY <1>0, <3>1, CgroupsOfRunning, TaskOfCgroup
    <3>3. \A b \in CgroupsOf(t) : files'[b][k] = files[b][k]
        BY <2>2, <3>2
    <3> QED
        BY <1>0, <2>2, <2>4, <3>1, <3>3, UniformTask
  <2>5. c[1] \in Tasks
      BY <1>0, RunningCgroup, CgroupsOfRunning
  <2>6. restarted' \subseteq Tasks \X Cpusets
      BY <2>1, <2>5 DEF Uniform, Cpusets
  <2> QED
      BY <2>3, <2>4, <2>6 DEF Uniform, Reported
<1>4. CASE Finish
  <2>1. PICK t \in Running :
          /\ files' = Restricted(files, DOMAIN files \ CgroupsOf(t))
          /\ restarted' = restarted
      BY <1>4 DEF Finish
  <2>2. /\ DOMAIN files' \subseteq DOMAIN files
        /\ \A c \in DOMAIN files' : files'[c] = files[c]
      BY <2>1 DEF Restricted
  <2>3. Running' \subseteq Running
      BY <2>2 DEF Running
  <2>4. Types'
      BY <1>4, EnvironmentStep DEF IInv, Environment
  <2>5. \A u \in Running' : CgroupsOf(u)' \subseteq DOMAIN files'
      BY <2>4 DEF Types
  <2>6. ASSUME NEW u \in Running', u \notin Denied, NEW k \in Cpusets, <<u, k>> \notin restarted
        PROVE  \A c \in BoundBy(u)' : files'[c][k] = files'[Reported(u)][k]
    <3>1. \A c \in CgroupsOf(u) : files'[c][k] = files[c][k]
        BY <2>2, <2>5 DEF CgroupsOf
    <3> QED
        BY <1>0, <2>2, <2>3, <2>6, <3>1, UniformTask
  <2> QED
      BY <2>1, <2>6 DEF Uniform, Reported
<1> QED
    BY <1>1, <1>2, <1>3, <1>4 DEF Environment

LEMMA UniformStep ==
  ASSUME IInv, Uniform, [Next]_vars
  PROVE  Uniform'
<1>1. ASSUME UNCHANGED <<files, restarted>>
      PROVE  Uniform'
    BY <1>1 DEF Uniform, Running, BoundBy, Reported
<1>2. CASE Sync \/ _iterate_body \/ Store \/ Restart
    BY <1>1, <1>2 DEF Sync, _iterate_body, Store, Restart
<1>3. CASE \E t \in Tasks, k \in Kinds : PerformRefused(t, k) \/ PerformOnMissing(t, k)
    BY <1>1, <1>3 DEF PerformRefused, PerformOnMissing
<1>4. CASE \E t \in Tasks, k \in Kinds : Perform(t, k)
    BY <1>4, UniformPerform
<1>5. CASE Environment
    BY <1>5, UniformEnvironment
<1>6. CASE UNCHANGED vars
    BY <1>1, <1>6 DEF vars
<1> QED
    BY <1>2, <1>3, <1>4, <1>5, <1>6 DEF Next, Agent

LEMMA InitUniform == Init => Uniform
<1> SUFFICES ASSUME Init PROVE Uniform
    OBVIOUS
<1>1. Types
    BY InitIInv DEF IInv
<1>2. \A c \in DOMAIN files : files[c] = Fresh
    BY DEF Init
<1>3. ASSUME NEW t \in Running, NEW c \in BoundBy(t)
      PROVE  c \in DOMAIN files /\ Reported(t) \in DOMAIN files
    BY <1>1, CgroupsOfRunning DEF BoundBy
<1> QED
    BY <1>2, <1>3 DEF Init, Uniform

-----------------------------------------------------------------------------
(***************************************************************************)
(* The theorems.                                                           *)
(***************************************************************************)

\* The inductive invariant holds in every state of the runner, whatever the
\* orchestrator, the container runtime and the operator do between two of
\* its steps.
THEOREM Invariance == Spec => [](IInv /\ Uniform)
<1>1. IInv /\ Uniform /\ [Next]_vars => IInv' /\ Uniform'
    BY IInvStep, UniformStep
<1> QED
    BY <1>1, InitIInv, InitUniform, PTL DEF Spec

LEMMA TypeOKFromIInv == IInv /\ Uniform => TypeOK
<1> SUFFICES ASSUME IInv, Uniform PROVE TypeOK
    OBVIOUS
<1>1. ASSUME NEW c \in DOMAIN files
      PROVE  /\ c \in UNION {CgroupsOf(t) : t \in Tasks}
             /\ files[c].quota = QUOTA_NOT_SET \/ files[c].quota >= QUOTA_MINIMUM_VALUE
             /\ files[c].shares >= MIN_SHARES
             /\ files[c].cpus \subseteq 0..(Cpus - 1) /\ files[c].mems \subseteq 0..(NumaNodes - 1)
             /\ files[c].migrate \in 0..1000 /\ files[c].on \subseteq 0..(NumaNodes - 1)
  <2>1. PICK f \in Files : f = files[c]
      BY DEF IInv, Types
  <2>2. /\ f.quota = QUOTA_NOT_SET \/ f.quota >= QUOTA_MINIMUM_VALUE
        /\ f.shares >= MIN_SHARES
        /\ f.cpus \subseteq 0..(Cpus - 1) /\ f.mems \subseteq 0..(NumaNodes - 1)
        /\ f.on \subseteq 0..(NumaNodes - 1)
        /\ f.migrate \in Nat /\ f.migrate <= 1000
      BY DEF Files
  <2>3. f.migrate \in 0..1000
      BY <2>2
  <2>4. PICK t \in Tasks : c \in CgroupsOf(t)
      BY DEF IInv, Types
  <2> QED
      BY <2>1, <2>2, <2>3, <2>4
<1>2. /\ rules \in RuleSets /\ containers \subseteq Tasks
      /\ pc \in {"sync", "body", "perform", "dead"}
      /\ DOMAIN changeset \subseteq DOMAIN target \cap containers /\ DOMAIN target \subseteq Tasks
      /\ events \in 0..MaxEvents
    BY DEF IInv, Types, Changes
<1>3. restarted \subseteq Tasks \X {"cpus", "mems"}
    BY DEF Uniform, Cpusets
<1> QED
    BY <1>1, <1>2, <1>3 DEF TypeOK

\* Every control file holds a value the kernel and the platform accept, and
\* what is being performed is part of the target for known containers.
THEOREM TypeCorrect == Spec => []TypeOK
<1> QED
    BY Invariance, TypeOKFromIInv, PTL

\* A cpuset that is read back of a task is in all of its containers.
LEMMA ShownIsEverywhere ==
  ASSUME Types, Uniform, NEW t \in Running, NEW k \in Cpusets, NEW v,
         Shown(t, k, v), t \notin Denied, <<t, k>> \notin restarted
  PROVE  Everywhere(t, k, v)
<1>1. files[Reported(t)][k] = v
    BY DEF Shown, AtMinimum, IsList, Cpusets
<1>2. \A c \in BoundBy(t) : files[c][k] = files[Reported(t)][k]
    BY DEF Uniform
<1> QED
    BY <1>1, <1>2 DEF Everywhere

LEMMA TargetFromIInv == IInv /\ Uniform => TargetInEffect
<1> SUFFICES ASSUME IInv, Uniform, pc = "perform", changeset = <<>>,
                    NEW t \in (DOMAIN target \cap Running) \ touched,
                    NEW k \in DOMAIN target[t]
             PROVE  InEffect(t, k, target[t][k])
    BY DEF TargetInEffect
<1>1. DOMAIN changeset = {}
    BY EmptyDomain
<1>2. PICK v : v = target[t][k]
    OBVIOUS
<1>3. Shown(t, k, v)
    BY <1>1, <1>2 DEF IInv, Pending
<1>4. ASSUME IsList(k), t \notin Denied, <<t, k>> \notin restarted
      PROVE  Everywhere(t, k, v)
    BY <1>3, <1>4, ShownIsEverywhere DEF IInv, IsList, Cpusets
<1> QED
    BY <1>2, <1>3, <1>4 DEF InEffect

\* Once the changeset is performed, the control files of every task nobody else
\* disturbed hold what the runner reports as its target: a cpuset all containers
\* of it, if none was restarted since it was written.
THEOREM TargetsAreInEffect == Spec => []TargetInEffect
<1> QED
    BY Invariance, TargetFromIInv, PTL

\* A value in effect is one that is read back as the same, or is at the least
\* value a cgroup takes.
LEMMA EffectIsRead ==
  ASSUME NEW t, NEW k \in Kinds \ {"move"}, NEW v, validate(k, v), Shown(t, k, v),
         ~(IsList(k) /\ t \in Denied)
  PROVE  AtMinimum(t, k, v) \/ Same(k, v, get_allocations(t)[k])
<1>1. CASE k \in {"cpus", "mems"}
    BY <1>1 DEF Shown, AtMinimum, IsList, Same, get_allocations
<1>2. CASE k = "quota"
    BY <1>2 DEF Shown, IsList, Same, get_allocations, _get_normalized_quota
<1>3. CASE k = "shares"
    BY <1>3 DEF Shown, IsList, Same, get_allocations, _get_normalized_shares
<1>4. CASE k = "migrate"
  <2>1. Close(v, v)
      BY <1>4, ValidValues DEF Close, VALUE_CHANGE_SENSITIVITY
  <2> QED
      BY <1>4, <2>1 DEF Shown, AtMinimum, IsList, Same, get_allocations
<1> QED
    BY <1>1, <1>2, <1>3, <1>4 DEF Kinds

LEMMA NotFutile ==
  ASSUME IInv, NEW t \in Tasks, NEW k \in Kinds \ {"move"}, Perform(t, k), t \notin touched,
         ~(IsList(k) /\ t \in Denied), files' = files
  PROVE  AtMinimum(t, k, changeset[t][k])
<1>1. /\ pc = "perform" /\ t \in DOMAIN changeset /\ k \in DOMAIN changeset[t]
      /\ t \in Running
      /\ files' \in perform_allocations(t, k, changeset[t][k])
    BY DEF Perform
<1>2. PICK v : v = changeset[t][k]
    OBVIOUS
<1>3. validate(k, v)
    BY <1>1, <1>2 DEF IInv, Changes
<1>4. Shown(t, k, v)'
    BY <1>1, <1>2, <1>3, PerformEffect DEF IInv
<1>5. Shown(t, k, v)
    BY <1>4, SameFiles
<1>6. ~Same(k, v, get_allocations(t)[k])
    BY <1>1, <1>2 DEF IInv, Needed
<1> QED
    BY <1>2, <1>3, <1>5, <1>6, EffectIsRead

\* The runner does not write again what the control files of an undisturbed
\* task hold already.
THEOREM WritesAreNeeded == Spec => NoFutileWrites
<1>1. IInv /\ [Next]_vars =>
        [\A t \in Tasks, k \in Kinds \ {"move"} :
           Perform(t, k) /\ t \notin touched /\ ~(IsList(k) /\ t \in Denied)
             => files' # files \/ AtMinimum(t, k, changeset[t][k])]_vars
    BY NotFutile
<1> QED
    BY <1>1, Invariance, PTL DEF Spec, NoFutileWrites

=============================================================================
