--------------------------- MODULE WorkingSetSize ---------------------------
(***************************************************************************)
(* The working set size of one task (src/wca/wss.py).  Every cycle the     *)
(* agent sums the bytes the task's processes have referenced since the     *)
(* kernel's reference bits were last cleared, and compares the growth with *)
(* the memory traffic of the cycle.  After |wss_stable_cycles| stable      *)
(* cycles in a row the working set is the mean of the first and the last   *)
(* stable value.  The reference bits are cleared every wss_reset_cycles    *)
(* cycles, or, when that is 0 and wss_stable_cycles positive, whenever a   *)
(* stable period ends.                                                     *)
(*                                                                         *)
(* The traffic counter of resctrl appears as the traffic since it was last *)
(* read; it is negative when the counter was started anew (the task moved  *)
(* to another group).                                                      *)
(***************************************************************************)
EXTENDS Integers, Sequences, SequencesExt

CONSTANTS
  References,  \* sums of referenced bytes that occur
  Traffics,    \* memory traffic of a cycle
  Settings     \* records [reset, stable, percent]: the WSS settings

ASSUME SettingsAssumption ==
  /\ References \subseteq Nat /\ Traffics \subseteq Int
  /\ Settings \subseteq [reset : Nat, stable : Int \ {0}, percent : Nat]

None == -1

VARIABLES
  settings,  \* the settings of the run
  wss,       \* the fields of the WSS object
  last,      \* last_stable_wss doubled (it is a mean), or None
  seen,      \* history: the last |stable| measured cycles
  settled    \* None, or the bytes the workload refers to in every cycle

vars == <<settings, wss, last, seen, settled>>

Limit == IF settings.stable < 0 THEN -settings.stable ELSE settings.stable

-----------------------------------------------------------------------------
\* membw_read: there is a prev_membw_counter; cycle is kept modulo
\* wss_reset_cycles.
Fresh == [cycle |-> 0, prev_referenced |-> None, membw_read |-> FALSE,
          counter |-> 0, first |-> None, first_wss |-> TRUE]

Init ==
  /\ settings \in Settings
  /\ wss = Fresh
  /\ last = None
  /\ seen = <<>>
  /\ settled = None

\* The sum over the task's live processes of the Referenced lines of smaps; a
\* process that ends meanwhile counts for nothing.
_get_referenced == IF settled = None THEN References ELSE {settled}

\* A decrease below 2% counts as no change.
Stable(prev, curr, traffic, percent) ==
  /\ curr >= prev \/ (prev - curr) * 50 < curr
  /\ 100 * (IF curr > prev THEN curr - prev ELSE 0) < percent * traffic

_check_stability(w, curr, traffic) ==
  IF Stable(w.prev_referenced, curr, traffic, settings.percent)
  THEN [w EXCEPT !.first = IF w.counter = 0 THEN curr ELSE @, !.counter = @ + 1]
  ELSE [w EXCEPT !.counter = 0]

\* The readings that the next cycle is compared with.
Kept(w, curr) == [w EXCEPT !.prev_referenced = curr, !.membw_read = TRUE]

\* Mutant: stability is looked at beyond the limit too.
Checked_always(w, curr, traffic) ==
  Kept(IF w.prev_referenced # None /\ w.membw_read
       THEN _check_stability(w, curr, traffic) ELSE w, curr)

\* Stability is looked at only between two measured cycles, and only until the
\* limit is reached.
Checked(w, curr, traffic) ==
  Kept(IF /\ w.prev_referenced # None /\ w.membw_read
          /\ w.counter < Limit
       THEN _check_stability(w, curr, traffic)
       ELSE w, curr)

\* The first stable period of an object is not reported; the counter moves
\* above the limit so that a period is reported once.
ReachesLimit(w) == w.counter = Limit
Reported(w) == IF ReachesLimit(w) THEN [w EXCEPT !.first_wss = FALSE, !.counter = @ + 1] ELSE w

\* Mutants: the counter, or the last reading, survives.
Restarted_counting(w) == [w EXCEPT !.prev_referenced = None]
Restarted_comparing(w) == [w EXCEPT !.counter = 0]

\* After clear_refs.
Restarted(w) == [w EXCEPT !.counter = 0, !.prev_referenced = None]

\* The cycle ends with a reset: after a stable period when cyclic resets are
\* off, or every wss_reset_cycles cycles.
Resets(w) ==
  \/ ReachesLimit(w) /\ settings.reset = 0 /\ settings.stable > 0
  \/ settings.reset > 0 /\ w.cycle = 0

NextCycle(w) ==
  [w EXCEPT !.cycle = IF settings.reset = 0 THEN 0 ELSE (@ + 1) % settings.reset]

\* The history after one more measured cycle: is it stable with respect to the
\* cycle before, with no reset between the two, and did it end with a reset?
Remembered(curr, traffic, reset) ==
  LET before == IF seen = <<>> THEN None ELSE Last(seen).referenced
      h == Append(seen, [referenced |-> IF reset THEN None ELSE curr,
                         value |-> curr,
                         stable |-> before # None
                                    /\ Stable(before, curr, traffic, settings.percent)])
  IN  IF Len(h) > Limit THEN Tail(h) ELSE h

\* get_measurements with the traffic counter at hand; traffic is what it
\* counted since it was last read.
get_measurements ==
  \E curr \in _get_referenced, traffic \in Traffics :
    LET w     == Checked(NextCycle(wss), curr, traffic)
        reset == Resets(w)
    IN  /\ settled # None => traffic > 0
        /\ last' = IF ReachesLimit(w) /\ ~w.first_wss
                   THEN w.first + curr ELSE last
        /\ wss' = IF reset THEN Restarted(Reported(w)) ELSE Reported(w)
        /\ seen' = Remembered(curr, traffic, reset)
        /\ UNCHANGED <<settings, settled>>

\* The traffic counter is missing: the call returns early, and a cyclic reset
\* due in this cycle does not happen.
get_measurements_without_membw ==
  /\ settled = None
  /\ wss' = NextCycle(wss)
  /\ UNCHANGED <<settings, last, seen, settled>>

\* From now on the workload refers to the same bytes in every cycle and keeps
\* the memory bus busy.
Settle ==
  /\ settled = None
  /\ settled' \in References
  /\ UNCHANGED <<settings, wss, last, seen>>

Next == get_measurements \/ get_measurements_without_membw \/ Settle

\* The runner measures every task in every iteration.
Spec == Init /\ [][Next]_vars /\ WF_vars(get_measurements)

-----------------------------------------------------------------------------
(* Every field of the WSS object has its type: the counter passes its      *)
(* limit by at most one.                                                   *)
TypeOK ==
  /\ settings \in Settings
  /\ wss \in [cycle : Nat, prev_referenced : References \cup {None},
              membw_read : BOOLEAN, counter : 0..(Limit + 1),
              first : References \cup {None}, first_wss : BOOLEAN]
  /\ last \in Nat \cup {None}
  /\ settled \in References \cup {None}

(* A working set that the agent reports is the mean of the first and the   *)
(* last of |wss_stable_cycles| measured cycles in a row, each of them      *)
(* stable with respect to the one before it, and the reference bits were   *)
(* not cleared between any two of them.                                    *)
ReportedIsStable ==
  [][last' # last =>
       /\ Len(seen') = Limit
       /\ \A i \in 1..Limit : seen'[i].stable
       /\ last' = seen'[1].value + seen'[Limit].value]_vars

\* The reset period leaves room for a stable period.
Reportable ==
  settings.percent > 0
    /\ (IF settings.reset = 0 THEN settings.stable > 0 ELSE settings.reset > Limit)

(* The working set of a workload that settles is eventually reported, and  *)
(* no other value is reported any more.                                    *)
EventuallyReported ==
  \A r \in References :
    Reportable /\ settled = r ~> [](last = 2 * r)
=============================================================================
