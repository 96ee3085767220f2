----------------------- MODULE WorkingSetSizeProofs -----------------------
(***************************************************************************)
(* Proofs about WorkingSetSize, for any settings, any sums of referenced   *)
(* bytes and any memory traffic.                                           *)
(*                                                                         *)
(* The inductive invariant IInv says what the fields of the WSS object     *)
(* remember of the cycles that were measured: the last reading is that of  *)
(* the last cycle unless the reference bits were cleared after it (Latest),*)
(* and a counter below its limit counts stable cycles at the end of the    *)
(* history, the first of which is the first stable value (Counts).         *)
(***************************************************************************)
EXTENDS WorkingSetSize, TLAPS

\* One measured cycle of the history.
Cycles ==
  [referenced : References \cup {None}, value : References, stable : BOOLEAN]

History == seen \in Seq(Cycles) /\ Len(seen) <= Limit

\* prev_referenced is what the last cycle left behind; stability is looked at
\* in the next cycle exactly if it left something.
Latest ==
  /\ wss.prev_referenced = IF seen = <<>> THEN None ELSE seen[Len(seen)].referenced
  /\ wss.prev_referenced = None => wss.counter = 0
  /\ wss.prev_referenced # None => wss.membw_read

\* Between two calls the counter is below its limit or has passed it; as long
\* as it is below, it counts the stable cycles since the first stable value.
Counts ==
  /\ wss.counter # Limit
  /\ wss.counter \in 1..(Limit - 1) =>
       /\ wss.counter <= Len(seen)
       /\ \A i \in (Len(seen) - wss.counter + 1)..Len(seen) : seen[i].stable
       /\ wss.first = seen[Len(seen) - wss.counter + 1].value

IInv == TypeOK /\ History /\ Latest /\ Counts

-----------------------------------------------------------------------------

\* The number of stable cycles asked for is positive, also when
\* wss_stable_cycles is negative.
LEMMA LimitPositive == settings \in Settings => Limit \in Nat /\ Limit >= 1
BY SettingsAssumption DEF Limit

\* No sum of referenced bytes is mistaken for a missing one.
LEMMA NoneApart == None \notin References
BY SettingsAssumption DEF None

\* Initially nothing was measured.
LEMMA InitIInv == Init => IInv
<1> SUFFICES ASSUME Init PROVE IInv
    OBVIOUS
<1>1. Limit \in Nat /\ Limit >= 1
    BY LimitPositive DEF Init
<1> QED
    BY <1>1 DEF Init, Fresh, IInv, TypeOK, History, Latest, Counts, None

-----------------------------------------------------------------------------
(***************************************************************************)
(* One measured cycle.                                                     *)
(***************************************************************************)

WSSFields ==
  [cycle : Nat, prev_referenced : References \cup {None},
   membw_read : BOOLEAN, counter : 0..(Limit + 1),
   first : References \cup {None}, first_wss : BOOLEAN]

\* What the cycle is found to be with respect to the one before it.
IsStable(curr, traffic) ==
  /\ wss.prev_referenced # None
  /\ Stable(wss.prev_referenced, curr, traffic, settings.percent)

\* The fields of the WSS object after the check: the counter goes on, starts
\* anew, or is left alone once it has passed its limit.
LEMMA AfterCheck ==
  ASSUME IInv, NEW curr \in References, NEW traffic \in Traffics
  PROVE  LET w == Checked(NextCycle(wss), curr, traffic)
         IN  /\ w \in WSSFields
             /\ w.prev_referenced = curr /\ w.membw_read
             /\ w.first_wss = wss.first_wss
             /\ wss.counter >= Limit => w.counter = wss.counter
             /\ wss.counter < Limit =>
                  /\ w.counter = IF IsStable(curr, traffic) THEN wss.counter + 1 ELSE 0
                  /\ IsStable(curr, traffic) =>
                       w.first = IF wss.counter = 0 THEN curr ELSE wss.first
<1>1. Limit \in Nat /\ Limit >= 1
    BY LimitPositive DEF IInv, TypeOK
<1>2. PICK n : n = NextCycle(wss)
    OBVIOUS
<1>3. /\ n \in WSSFields
      /\ n.prev_referenced = wss.prev_referenced
      /\ n.membw_read = wss.membw_read /\ n.counter = wss.counter
      /\ n.first = wss.first /\ n.first_wss = wss.first_wss
  <2>1. PICK c \in Nat : c = IF settings.reset = 0 THEN 0
                             ELSE (wss.cycle + 1) % settings.reset
      BY SettingsAssumption DEF IInv, TypeOK
  <2>2. n = [wss EXCEPT !.cycle = c]
      BY <1>2, <2>1 DEF NextCycle
  <2> QED
      BY <2>2 DEF IInv, TypeOK, WSSFields
<1>4. PICK c : c = IF n.prev_referenced # None /\ n.membw_read /\ n.counter < Limit
                   THEN _check_stability(n, curr, traffic) ELSE n
    OBVIOUS
<1>5. PICK w : w = [c EXCEPT !.prev_referenced = curr, !.membw_read = TRUE]
    OBVIOUS
<1>6. w = Checked(NextCycle(wss), curr, traffic)
    BY <1>2, <1>4, <1>5, Zenon DEF Checked, Kept
<1>7. ASSUME c \in WSSFields
      PROVE  /\ w \in WSSFields
             /\ w.prev_referenced = curr /\ w.membw_read
             /\ w.counter = c.counter /\ w.first = c.first
             /\ w.first_wss = c.first_wss
    BY <1>5, <1>7 DEF WSSFields
<1>8. CASE wss.prev_referenced = None \/ wss.counter >= Limit
  <2>1. c = n
      BY <1>1, <1>3, <1>4, <1>8 DEF IInv, TypeOK
  <2> QED
      BY <1>1, <1>3, <1>6, <1>7, <1>8, <2>1 DEF IsStable, IInv, TypeOK, Latest
<1>9. CASE /\ wss.prev_referenced # None /\ wss.counter < Limit
           /\ Stable(wss.prev_referenced, curr, traffic, settings.percent)
  <2>1. PICK f \in References \cup {None} :
          f = IF n.counter = 0 THEN curr ELSE n.first
      BY <1>3 DEF WSSFields
  <2>2. PICK k \in 0..(Limit + 1) : k = n.counter + 1
      BY <1>1, <1>3, <1>9 DEF WSSFields
  <2>3. c = [n EXCEPT !.first = f, !.counter = k]
      BY <1>3, <1>4, <1>9, <2>1, <2>2 DEF _check_stability, IInv, Latest
  <2>4. c \in WSSFields /\ c.counter = k /\ c.first = f /\ c.first_wss = n.first_wss
      BY <1>3, <2>3 DEF WSSFields
  <2> QED
      BY <1>1, <1>3, <1>6, <1>7, <1>9, <2>1, <2>2, <2>4 DEF IsStable, IInv, TypeOK
<1>10. CASE /\ wss.prev_referenced # None /\ wss.counter < Limit
            /\ ~Stable(wss.prev_referenced, curr, traffic, settings.percent)
  <2>1. c = [n EXCEPT !.counter = 0]
      BY <1>3, <1>4, <1>10 DEF _check_stability, IInv, Latest
  <2>2. c \in WSSFields /\ c.counter = 0 /\ c.first_wss = n.first_wss
      BY <1>1, <1>3, <2>1 DEF WSSFields
  <2> QED
      BY <1>1, <1>3, <1>6, <1>7, <1>10, <2>2 DEF IsStable, IInv, TypeOK
<1> QED
    BY <1>1, <1>8, <1>9, <1>10 DEF IInv, TypeOK

\* The history takes the cycle in as its last one, found stable exactly if the
\* WSS object finds it so, and forgets its first one when it is full.
LEMMA AfterCycle ==
  ASSUME IInv, NEW curr \in References, NEW traffic \in Traffics,
         NEW reset \in BOOLEAN
  PROVE  LET s == Remembered(curr, traffic, reset)
             d == IF Len(seen) = Limit THEN 1 ELSE 0
         IN  /\ s \in Seq(Cycles)
             /\ Len(s) = Len(seen) + 1 - d
             /\ s[Len(s)].value = curr
             /\ s[Len(s)].stable = IsStable(curr, traffic)
             /\ s[Len(s)].referenced = IF reset THEN None ELSE curr
             /\ \A i \in 1..(Len(s) - 1) : s[i] = seen[i + d]
<1>1. Limit \in Nat /\ Limit >= 1
    BY LimitPositive DEF IInv, TypeOK
<1>2. PICK e : e = [referenced |-> IF reset THEN None ELSE curr,
                    value |-> curr, stable |-> IsStable(curr, traffic)]
    OBVIOUS
<1>3. /\ e \in Cycles /\ e.value = curr /\ e.stable = IsStable(curr, traffic)
      /\ e.referenced = IF reset THEN None ELSE curr
    BY <1>2 DEF Cycles, IsStable
<1>4. PICK h : h = Append(seen, e)
    OBVIOUS
<1>5. PICK s : s = Remembered(curr, traffic, reset)
    OBVIOUS
<1>6. s = IF Len(h) > Limit THEN Tail(h) ELSE h
  <2>1. wss.prev_referenced = IF seen = <<>> THEN None ELSE Last(seen).referenced
      BY DEF IInv, Latest, Last
  <2> QED
      BY <1>2, <1>4, <1>5, <2>1, Zenon DEF Remembered, IsStable
<1>7. seen \in Seq(Cycles) /\ Len(seen) \in Nat /\ Len(seen) <= Limit
    BY DEF IInv, History
<1>8. /\ h \in Seq(Cycles) /\ Len(h) = Len(seen) + 1 /\ h[Len(h)] = e
      /\ \A i \in 1..Len(seen) : h[i] = seen[i]
    BY <1>3, <1>4, <1>7
<1>9. CASE Len(seen) = Limit
  <2>1. s = Tail(h) /\ h # <<>>
      BY <1>1, <1>6, <1>7, <1>8, <1>9
  <2>2. /\ s \in Seq(Cycles) /\ Len(s) = Len(seen)
        /\ \A i \in 1..Len(s) : s[i] = h[i + 1]
      BY <1>7, <1>8, <2>1
  <2> QED
      BY <1>1, <1>3, <1>5, <1>7, <1>8, <1>9, <2>2
<1>10. CASE Len(seen) # Limit
  <2>1. s = h
      BY <1>1, <1>6, <1>7, <1>8, <1>10
  <2> QED
      BY <1>1, <1>3, <1>5, <1>7, <1>8, <1>10, <2>1
<1> QED
    BY <1>9, <1>10

\* The two together: a counter that has not passed its limit counts stable
\* cycles at the end of the new history.
LEMMA CountedCycles ==
  ASSUME IInv, NEW curr \in References, NEW traffic \in Traffics,
         NEW reset \in BOOLEAN,
         NEW w, w = Checked(NextCycle(wss), curr, traffic),
         NEW s, s = Remembered(curr, traffic, reset),
         w.counter \in 1..Limit
  PROVE  /\ w.counter <= Len(s)
         /\ \A i \in (Len(s) - w.counter + 1)..Len(s) : s[i].stable
         /\ w.first = s[Len(s) - w.counter + 1].value
<1>1. Limit \in Nat /\ Limit >= 1
    BY LimitPositive DEF IInv, TypeOK
<1>2. wss.counter \in 0..(Limit - 1)
    BY <1>1, AfterCheck DEF IInv, TypeOK, Counts
<1>3. /\ IsStable(curr, traffic) /\ w.counter = wss.counter + 1
      /\ w.first = IF wss.counter = 0 THEN curr ELSE wss.first
    BY <1>1, <1>2, AfterCheck
<1>4. PICK d \in {0, 1} :
        /\ d = IF Len(seen) = Limit THEN 1 ELSE 0
        /\ s \in Seq(Cycles)
        /\ Len(s) = Len(seen) + 1 - d
        /\ s[Len(s)].value = curr
        /\ s[Len(s)].stable
        /\ \A i \in 1..(Len(s) - 1) : s[i] = seen[i + d]
    BY AfterCycle, <1>3
<1>5. seen \in Seq(Cycles) /\ Len(seen) \in Nat /\ Len(seen) <= Limit
    BY DEF IInv, History
<1>6. CASE wss.counter = 0
    BY <1>1, <1>3, <1>4, <1>5, <1>6
<1>8. /\ Limit \in Int /\ Len(seen) \in Int /\ Len(s) \in Int
      /\ wss.counter \in Int /\ 0 <= wss.counter /\ wss.counter < Limit
      /\ w.counter = wss.counter + 1
      /\ d \in Int
      /\ Len(seen) = Limit => d = 1
      /\ Len(seen) # Limit => d = 0
      /\ Len(s) = Len(seen) + 1 - d
    BY <1>1, <1>2, <1>3, <1>4, <1>5
<1>7. CASE wss.counter # 0
  <2>1. /\ wss.counter <= Len(seen)
        /\ \A i \in (Len(seen) - wss.counter + 1)..Len(seen) : seen[i].stable
        /\ wss.first = seen[Len(seen) - wss.counter + 1].value
      BY <1>1, <1>2, <1>7 DEF IInv, Counts
  <2>2. w.counter <= Len(s)
      BY <1>1, <1>2, <1>3, <1>4, <1>5, <2>1
  <2>3. ASSUME NEW i \in (Len(s) - w.counter + 1)..Len(s) PROVE s[i].stable
    <3>1. CASE i = Len(s)
        BY <1>4, <3>1
    <3>2. CASE i # Len(s)
      <4>1. i \in 1..(Len(s) - 1) /\ i + d \in (Len(seen) - wss.counter + 1)..Len(seen)
        <5>1. /\ i \in Int /\ Len(s) - w.counter + 1 <= i /\ i < Len(s)
              /\ w.counter \in Int
            BY <1>8, <3>2
        <5>2. i + d <= Len(seen) /\ Len(seen) - wss.counter + 1 <= i + d /\ 1 <= i
          <6>1. ASSUME NEW l \in Int, NEW m \in Int, NEW k \in Int,
                       m = l + 1 - d, m - (k + 1) + 1 <= i, i < m, k + 1 <= m
                PROVE  i + d <= l /\ l - k + 1 <= i + d /\ 1 <= i
              BY <1>8, <5>1, <6>1
          <6> QED
              BY <1>8, <2>2, <5>1, <6>1
        <5> QED
            BY <1>8, <5>1, <5>2
      <4>2. s[i] = seen[i + d]
          BY <1>4, <4>1
      <4> QED
          BY <2>1, <4>1, <4>2
    <3> QED
        BY <3>1, <3>2
  <2>4. w.first = s[Len(s) - w.counter + 1].value
    <3> DEFINE j == Len(s) - w.counter + 1
    <3>1. j \in 1..(Len(s) - 1) /\ j + d = Len(seen) - wss.counter + 1
        BY <1>7, <1>8, <2>2
    <3> HIDE DEF j
    <3>2. s[j] = seen[j + d]
        BY <1>4, <3>1
    <3> QED
        BY <1>3, <1>7, <2>1, <3>1, <3>2 DEF j
  <2> QED
      BY <2>2, <2>3, <2>4
<1> QED
    BY <1>6, <1>7

\* A measured cycle preserves the invariant, and reports nothing but what the
\* history bears out.
LEMMA MeasuredStep ==
  ASSUME IInv, get_measurements
  PROVE  /\ IInv'
         /\ last' # last =>
              /\ Len(seen') = Limit
              /\ \A i \in 1..Limit : seen'[i].stable
              /\ last' = seen'[1].value + seen'[Limit].value
<1>1. Limit \in Nat /\ Limit >= 1
    BY LimitPositive DEF IInv, TypeOK
<1>2. PICK curr \in References, traffic \in Traffics :
        LET w == Checked(NextCycle(wss), curr, traffic)
            reset == Resets(w)
        IN  /\ last' = IF ReachesLimit(w) /\ ~w.first_wss
                       THEN w.first + curr ELSE last
            /\ wss' = IF reset THEN Restarted(Reported(w)) ELSE Reported(w)
            /\ seen' = Remembered(curr, traffic, reset)
            /\ UNCHANGED <<settings, settled>>
    BY NoneApart DEF get_measurements, _get_referenced, IInv, TypeOK
<1>3. PICK w : w = Checked(NextCycle(wss), curr, traffic)
    OBVIOUS
<1>4. PICK reset \in BOOLEAN : reset = Resets(w)
    BY DEF Resets
<1>5. /\ last' = IF ReachesLimit(w) /\ ~w.first_wss THEN w.first + curr ELSE last
      /\ wss' = IF reset THEN Restarted(Reported(w)) ELSE Reported(w)
      /\ seen' = Remembered(curr, traffic, reset)
      /\ settings' = settings /\ settled' = settled /\ Limit' = Limit
    BY <1>2, <1>3, <1>4 DEF Limit
<1>6. /\ w \in WSSFields /\ w.prev_referenced = curr /\ w.membw_read
    BY <1>3, AfterCheck
<1>7. /\ seen' \in Seq(Cycles) /\ Len(seen') \in 1..Limit
      /\ Len(seen) + 1 >= Limit => Len(seen') = Limit
      /\ seen'[Len(seen')].value = curr
      /\ seen'[Len(seen')].referenced = IF reset THEN None ELSE curr
    BY <1>1, <1>5, AfterCycle DEF IInv, History
<1>8. w.counter \in 1..Limit =>
        /\ w.counter <= Len(seen')
        /\ \A i \in (Len(seen') - w.counter + 1)..Len(seen') : seen'[i].stable
        /\ w.first = seen'[Len(seen') - w.counter + 1].value
        /\ w.first \in References
  <2> SUFFICES ASSUME w.counter \in 1..Limit PROVE w.counter <= Len(seen')
        /\ \A i \in (Len(seen') - w.counter + 1)..Len(seen') : seen'[i].stable
        /\ w.first = seen'[Len(seen') - w.counter + 1].value
        /\ w.first \in References
      OBVIOUS
  <2>1. /\ w.counter <= Len(seen')
        /\ \A i \in (Len(seen') - w.counter + 1)..Len(seen') : seen'[i].stable
        /\ w.first = seen'[Len(seen') - w.counter + 1].value
      BY <1>3, <1>5, CountedCycles
  <2>2. Len(seen') - w.counter + 1 \in 1..Len(seen')
      BY <1>1, <1>7, <2>1
  <2>3. seen'[Len(seen') - w.counter + 1] \in Cycles
      BY <1>7, <2>2
  <2> QED
      BY <2>1, <2>3 DEF Cycles
<1>9. PICK v : v = Reported(w)
    OBVIOUS
<1>10. /\ v \in WSSFields /\ v.counter # Limit
       /\ v.counter = IF w.counter = Limit THEN Limit + 1 ELSE w.counter
       /\ v.prev_referenced = curr /\ v.membw_read /\ v.first = w.first
  <2>1. CASE w.counter = Limit
    <3>1. PICK k \in 0..(Limit + 1) : k = w.counter + 1
        BY <1>1, <2>1
    <3>2. v = [w EXCEPT !.first_wss = FALSE, !.counter = k]
        BY <1>9, <2>1, <3>1 DEF Reported, ReachesLimit
    <3>3. /\ v \in WSSFields /\ v.counter = k
          /\ v.prev_referenced = w.prev_referenced /\ v.membw_read = w.membw_read
          /\ v.first = w.first
        BY <1>6, <3>1, <3>2 DEF WSSFields
    <3> QED
        BY <1>1, <1>6, <2>1, <3>1, <3>3
  <2>2. CASE w.counter # Limit
      BY <1>6, <1>9, <2>2 DEF Reported, ReachesLimit
  <2> QED
      BY <2>1, <2>2
<1>11. /\ wss' \in WSSFields /\ wss'.counter # Limit
       /\ wss'.prev_referenced = IF reset THEN None ELSE curr
       /\ reset => wss'.counter = 0
       /\ wss'.membw_read
       /\ wss'.counter \in 1..(Limit - 1) =>
            ~reset /\ wss'.counter = w.counter /\ wss'.first = w.first
  <2>1. CASE reset
    <3>1. PICK u : u = [v EXCEPT !.counter = 0, !.prev_referenced = None]
        OBVIOUS
    <3>2. wss' = u
        BY <1>5, <1>9, <2>1, <3>1 DEF Restarted
    <3>3. /\ u \in WSSFields /\ u.counter = 0 /\ u.prev_referenced = None
          /\ u.membw_read = v.membw_read
      <4>1. PICK k \in 0..(Limit + 1), x \in References \cup {None} :
              k = 0 /\ x = None
          BY <1>1
      <4>2. u = [v EXCEPT !.counter = k, !.prev_referenced = x]
          BY <3>1, <4>1
      <4> QED
          BY <1>10, <4>1, <4>2 DEF WSSFields
    <3> QED
        BY <1>1, <1>10, <2>1, <3>2, <3>3
  <2>2. CASE ~reset
      BY <1>1, <1>5, <1>9, <1>10, <2>2
  <2> QED
      BY <2>1, <2>2
<1>12. TypeOK'
  <2>1. last' \in Nat \cup {None}
    <3>1. CASE ReachesLimit(w)
      <4>1. w.first \in References
          BY <1>1, <1>8, <3>1 DEF ReachesLimit
      <4>2. w.first \in Nat /\ curr \in Nat
          BY <4>1, SettingsAssumption
      <4> QED
          BY <1>5, <4>2 DEF IInv, TypeOK
    <3>2. CASE ~ReachesLimit(w)
        BY <1>5, <3>2 DEF IInv, TypeOK
    <3> QED
        BY <3>1, <3>2
  <2> QED
      BY <1>5, <1>11, <2>1 DEF TypeOK, WSSFields, IInv
<1>13. History'
    BY <1>1, <1>5, <1>7 DEF History
<1>14. Latest'
  <2>1. seen' # <<>>
      BY <1>7
  <2> QED
      BY <1>7, <1>11, <2>1, NoneApart DEF Latest
<1>15. Counts'
    BY <1>1, <1>5, <1>8, <1>11 DEF Counts
<1>16. ASSUME last' # last
       PROVE  /\ Len(seen') = Limit
              /\ \A i \in 1..Limit : seen'[i].stable
              /\ last' = seen'[1].value + seen'[Limit].value
  <2>1. w.counter = Limit /\ last' = w.first + curr
      BY <1>5, <1>16 DEF ReachesLimit
  <2>2. /\ Limit <= Len(seen')
        /\ \A i \in (Len(seen') - Limit + 1)..Len(seen') : seen'[i].stable
        /\ w.first = seen'[Len(seen') - Limit + 1].value
      BY <1>1, <1>8, <2>1
  <2>3. Len(seen') = Limit /\ Len(seen') - Limit + 1 = 1
      BY <1>1, <1>7, <2>2
  <2> QED
      BY <1>7, <2>1, <2>2, <2>3
<1> QED
    BY <1>12, <1>13, <1>14, <1>15, <1>16 DEF IInv

\* Every step preserves the invariant.
LEMMA IInvStep == IInv /\ [Next]_vars => IInv'
<1> SUFFICES ASSUME IInv, [Next]_vars PROVE IInv'
    OBVIOUS
<1>1. CASE get_measurements
    BY <1>1, MeasuredStep
<1>2. CASE get_measurements_without_membw
  <2>1. Limit \in Nat /\ Limit >= 1
      BY LimitPositive DEF IInv, TypeOK
  <2>2. PICK c \in Nat : c = IF settings.reset = 0 THEN 0
                             ELSE (wss.cycle + 1) % settings.reset
      BY SettingsAssumption DEF IInv, TypeOK
  <2>3. PICK n : n = [wss EXCEPT !.cycle = c]
      OBVIOUS
  <2>4. /\ n \in WSSFields
        /\ n.prev_referenced = wss.prev_referenced
        /\ n.membw_read = wss.membw_read /\ n.counter = wss.counter
        /\ n.first = wss.first
      BY <2>3 DEF WSSFields, IInv, TypeOK
  <2>5. /\ wss' = n /\ settings' = settings /\ last' = last
        /\ seen' = seen /\ settled' = settled /\ Limit' = Limit
      BY <1>2, <2>2, <2>3 DEF get_measurements_without_membw, NextCycle, Limit
  <2> QED
      BY <2>1, <2>4, <2>5
      DEF IInv, TypeOK, WSSFields, History, Latest, Counts
<1>3. CASE Settle
    BY <1>3 DEF Settle, IInv, TypeOK, History, Latest, Counts, Limit
<1>4. CASE UNCHANGED vars
    BY <1>4 DEF vars, IInv, TypeOK, History, Latest, Counts, Limit
<1> QED
    BY <1>1, <1>2, <1>3, <1>4 DEF Next

-----------------------------------------------------------------------------

\* IInv holds in every reachable state.
THEOREM Invariance == Spec => []IInv
BY InitIInv, IInvStep, PTL DEF Spec

\* For any settings the fields of the WSS object have their types; the stable
\* cycles counter passes its limit by one at most (WSS.get_measurements).
THEOREM TypeCorrect == Spec => []TypeOK
<1>1. IInv => TypeOK
    BY DEF IInv
<1> QED
    BY Invariance, <1>1, PTL

\* For any settings, sums of referenced bytes and memory traffic, a working set
\* size that get_measurements reports is the mean of the first and the last of
\* |wss_stable_cycles| cycles in a row, each stable, with no reset between them.
THEOREM ReportsAreStable == Spec => ReportedIsStable
<1>1. ASSUME IInv, [Next]_vars
      PROVE  [last' # last =>
                /\ Len(seen') = Limit
                /\ \A i \in 1..Limit : seen'[i].stable
                /\ last' = seen'[1].value + seen'[Limit].value]_vars
  <2>1. CASE get_measurements
      BY <1>1, <2>1, MeasuredStep
  <2>2. CASE last' = last
      BY <2>2
  <2> QED
      BY <1>1, <2>1, <2>2
      DEF Next, get_measurements_without_membw, Settle, vars
<1> QED
    BY Invariance, <1>1, PTL DEF Spec, ReportedIsStable

=============================================================================
