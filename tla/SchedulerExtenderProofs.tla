----------------------- MODULE SchedulerExtenderProofs -----------------------
(***************************************************************************)
(* Proofs about SchedulerExtender, for any cluster, any pods and any       *)
(* number of handlers.                                                     *)
(*                                                                         *)
(* Pods fit their node unless it was decided on without having seen all    *)
(* its pods: what a handler saw of a node that is not blind is at least    *)
(* what is bound there (Seen), up to the decision; kube-scheduler binds    *)
(* one pod at a time, so that from the decision to the binding the pods    *)
(* of a node only become fewer (Chosen); and requests are not negative     *)
(* (ResourcesAssumption), so that fewer pods need no more.  That the sums  *)
(* and comparisons of fractions in base.py do what their names say is      *)
(* proved from the definitions, down to Euclid's algorithm.                *)
(*                                                                         *)
(* An addition to a counter is lost only to a handler left behind by a     *)
(* timeout: of the handlers that add to a counter, kube-scheduler waits    *)
(* for one, and a timeout left each of the others (Accounted); two of them *)
(* at the same time mean that the counter is abandoned (Counting).         *)
(*                                                                         *)
(* What Score deletes has room on the pmem nodes: every pod considered is  *)
(* given room that no other is given (Planned), by induction on the pods   *)
(* in the order they are considered; and the pods a handler saw stay where *)
(* it saw them, or are gone (Moving), since pods are bound once.           *)
(***************************************************************************)
EXTENDS SchedulerExtender, FiniteSetTheorems, SequenceTheorems, TLAPS

Fields == {"op", "pod", "step", "names", "known", "seen", "blind", "todo", "behind"}

\* What a handler holds is of the nodes N of the cluster.
Holds(r, N) ==
  /\ DOMAIN r = Fields
  /\ r.names \subseteq N /\ r.known \subseteq N /\ DOMAIN r.seen \subseteq N
  /\ \A n \in DOMAIN r.seen : r.seen[n] \subseteq Tasks
  /\ r.behind \in 0..MaxMissing
  /\ r.step = "delete" => r.op = "reschedule"

Types ==
  /\ algorithm \in {"Fit", "Score"}
  /\ ignored \subseteq Tasks
  /\ nodes \subseteq Nodes /\ unseen \subseteq Nodes
  /\ DOMAIN cached \subseteq nodes /\ profiled \subseteq DOMAIN Score
  /\ pod \in [Tasks -> {"pending", "bound", "running", "gone"}]
  /\ on \in [Tasks -> Nodes \cup {None}]
  /\ \A p \in Tasks : pod[p] \in {"bound", "running"} => on[p] \in nodes
  /\ missing \in [Counters -> 0..MaxMissing]
  /\ abandoned \subseteq Counters
  /\ DOMAIN handler = Handlers
  /\ \A h \in Handlers : Holds(handler[h], nodes)
  /\ DOMAIN scheduler = {"step", "pod", "on", "names", "blind"}
  /\ scheduler.step \in {"idle", "filter", "prioritize"}

\* The handler kube-scheduler waits for works on its request.
Serving ==
  scheduler.step # "idle" =>
    /\ scheduler.on \in Handlers /\ scheduler.pod \in Tasks
    /\ handler[scheduler.on].op = scheduler.step
    /\ handler[scheduler.on].pod = scheduler.pod
    /\ scheduler.names \subseteq nodes

\* A handler that is about to decide has seen the pods of every node that it is
\* not blind for.
Seen(r) ==
  r.step = "decide" => \A n \in DOMAIN r.seen \ r.blind : Bound(n) \ ignored \subseteq r.seen[n]

\* Nodes that were chosen for pod p have room for it.
Chosen(names, blind, p) ==
  p \notin ignored => \A n \in names \ blind : Fits(n, (Bound(n) \ ignored) \cup {p})

Decision ==
  /\ scheduler.step = "filter" =>
       /\ Seen(handler[scheduler.on])
       /\ handler[scheduler.on].step \in {"count", "add", "answered"} =>
            Chosen(handler[scheduler.on].names, handler[scheduler.on].blind, scheduler.pod)
  /\ scheduler.step = "prioritize" =>
       Chosen(scheduler.names, scheduler.blind, scheduler.pod)

Room == \A n \in Nodes \ unseen : Fits(n, Bound(n) \ ignored)

\* The handler kube-scheduler waits for.
Waited(h) == scheduler.step # "idle" /\ scheduler.on = h

\* The counter of request r.
CountedBy(r) ==
  IF r.op \in {"filter", "prioritize"} /\ r.pod \in ignored
  THEN IF r.op = "filter" THEN "pod_ignore_filter" ELSE "pod_ignore_prioritize"
  ELSE r.op

\* Only requests to filter or prioritize are counted; one that nobody
\* waits for has an abandoned counter, and so has one that is behind.
Accounted(r, waited) ==
  /\ r.op \in {"filter", "prioritize"} => waited \/ CountedBy(r) \in abandoned
  /\ r.step \in {"count", "add"} => r.op \in {"filter", "prioritize"}
  /\ r.behind # 0 => r.op \in {"filter", "prioritize"} /\ CountedBy(r) \in abandoned

Counting ==
  /\ \A h \in Handlers : Accounted(handler[h], Waited(h))
  /\ \A c \in Counters \ abandoned : missing[c] = 0

IInv == Types /\ Serving /\ Decision /\ Room /\ Counting

-----------------------------------------------------------------------------
(***************************************************************************)
(* Induction and folds.  What is shown of every element is membership in a *)
(* set, as the provers do not instantiate a predicate.                     *)
(***************************************************************************)

\* A set of naturals that has n whenever it has all that are less has them all.
LEMMA NaturalInduction ==
  ASSUME NEW Good, \A n \in Nat : (\A m \in Nat : m < n => m \in Good) => n \in Good
  PROVE  Nat \subseteq Good
<1> DEFINE Bad == Nat \ Good
<1>1. SUFFICES ASSUME Bad # {} PROVE FALSE
  OBVIOUS
<1>2. PICK n \in Bad : \A m \in Bad : ~(<<m, n>> \in OpToRel(<, Nat))
  <2>1. Bad \subseteq Nat
    OBVIOUS
  <2> HIDE DEF Bad
  <2> QED
  BY <1>1, <2>1, NatLessThanWellFounded, WFMin
<1>3. \A m \in Nat : m < n => m \in Good
  BY <1>2 DEF OpToRel
<1> QED
  BY <1>3

\* A set that has each subset of a finite set S whenever it has all the smaller
\* ones has them all.
LEMMA FiniteInduction ==
  ASSUME NEW S, IsFiniteSet(S), NEW Good,
         \A U \in SUBSET S : (\A W \in SUBSET U : W # U => W \in Good) => U \in Good
  PROVE  SUBSET S \subseteq Good
<1> DEFINE Bad == (SUBSET S) \ Good
<1>1. SUFFICES ASSUME Bad # {} PROVE FALSE
  OBVIOUS
<1>2. IsWellFoundedOn(StrictSubsetOrdering(S), SUBSET S)
  BY FS_StrictSubsetOrderingWellFounded, FS_FiniteSubsetsOfFinite
<1>3. PICK U \in Bad : \A W \in Bad : ~(<<W, U>> \in StrictSubsetOrdering(S))
  <2>1. Bad \subseteq SUBSET S
    OBVIOUS
  <2> HIDE DEF Bad
  <2> QED
  BY <1>1, <1>2, <2>1, WFMin
<1>4. \A W \in SUBSET U : W # U => W \in Good
  BY <1>3 DEF StrictSubsetOrdering
<1> QED
  BY <1>3, <1>4

\* c picks an element of each subset of S that has one.
Picks(c, S) == \A s \in SUBSET S : s # {} => c[s] \in s

\* g folds F over the subsets of U, from the element that c picks last.
Folded(F, c, base, U, g) ==
  g = [s \in SUBSET U |-> IF s = {} THEN base ELSE F[<<c[s], g[s \ {c[s]}]>>]]

\* What is left once an element was picked is less.
LEMMA Rest ==
  ASSUME NEW c, NEW S, Picks(c, S), NEW s \in SUBSET S, s # {}
  PROVE  /\ c[s] \in s
         /\ s \ {c[s]} \in SUBSET s
         /\ s \ {c[s]} # s
BY DEF Picks

\* Two such folds agree where both are defined.
LEMMA FoldedAgree ==
  ASSUME NEW F, NEW c, NEW base, NEW U, NEW V, NEW g, NEW h,
         Folded(F, c, base, U, g), Folded(F, c, base, V, h),
         NEW S \in SUBSET (U \cap V), IsFiniteSet(S), Picks(c, S)
  PROVE  g[S] = h[S]
<1> DEFINE Good == {s \in SUBSET S : g[s] = h[s]}
<1>1. ASSUME NEW s \in SUBSET S, \A r \in SUBSET s : r # s => r \in Good
      PROVE  s \in Good
  <2>1. s \in SUBSET U /\ s \in SUBSET V
    OBVIOUS
  <2>2. CASE s = {}
    BY <2>1, <2>2 DEF Folded
  <2>3. CASE s # {}
    <3>1. g[s \ {c[s]}] = h[s \ {c[s]}]
      BY <1>1, <2>3, Rest
    <3>2. /\ g[s] = F[<<c[s], g[s \ {c[s]}]>>]
          /\ h[s] = F[<<c[s], h[s \ {c[s]}]>>]
      BY <2>1, <2>3 DEF Folded
    <3> QED
      BY <3>1, <3>2
  <2> QED
    BY <2>2, <2>3
<1>2. SUBSET S \subseteq Good
  <2> HIDE DEF Good
  <2> QED
    BY <1>1, FiniteInduction
<1> QED
  BY <1>2

\* A recursive function over the subsets of a finite set exists.
LEMMA FoldedExists ==
  ASSUME NEW F, NEW c, NEW base, NEW S, IsFiniteSet(S), Picks(c, S)
  PROVE  \E g : Folded(F, c, base, S, g)
<1> DEFINE Good == {U \in SUBSET S : \E g : Folded(F, c, base, U, g)}
           Value(s) == (CHOOSE g : Folded(F, c, base, s, g))[s]
<1>1. ASSUME NEW U \in SUBSET S, \A W \in SUBSET U : W # U => W \in Good
      PROVE  U \in Good
  <2>1. \A W \in SUBSET U : W # U =>
          Folded(F, c, base, W, CHOOSE g : Folded(F, c, base, W, g))
    BY <1>1
  <2>2. ASSUME NEW W \in SUBSET U, W # U, W # {}
        PROVE  Value(W) = F[<<c[W], Value(W \ {c[W]})>>]
    <3>1. PICK V : V = W \ {c[W]}
      OBVIOUS
    <3>2. PICK g : g = CHOOSE h : Folded(F, c, base, W, h)
      OBVIOUS
    <3>3. PICK h : h = CHOOSE i : Folded(F, c, base, V, i)
      OBVIOUS
    <3>4. V \in SUBSET W /\ V # U /\ V \in SUBSET S
      BY <2>2, <3>1
    <3>5. Folded(F, c, base, W, g) /\ Folded(F, c, base, V, h)
      BY <2>1, <2>2, <3>2, <3>3, <3>4
    <3>6. IsFiniteSet(V) /\ Picks(c, V)
      BY <3>4, FS_Subset DEF Picks
    <3>7. g[V] = h[V]
      BY <3>4, <3>5, <3>6, FoldedAgree
    <3>8. g[W] = F[<<c[W], g[V]>>]
      BY <2>2, <3>1, <3>5 DEF Folded
    <3> QED
      BY <3>1, <3>2, <3>3, <3>7, <3>8
  <2>3. U # {} => Value({}) = base
    <3>1. SUFFICES ASSUME U # {}
                   PROVE  Value({}) = base
      OBVIOUS
    <3>2. Folded(F, c, base, {}, CHOOSE g : Folded(F, c, base, {}, g))
      BY <2>1, <3>1
    <3> QED
      BY <3>2 DEF Folded
  <2> HIDE DEF Value
  <2> DEFINE g == [s \in SUBSET U |->
                     IF s = {} THEN base
                     ELSE IF s = U THEN F[<<c[U], Value(U \ {c[U]})>>] ELSE Value(s)]
  <2>4. ASSUME NEW s \in SUBSET U, s # {}
        PROVE  g[s] = F[<<c[s], g[s \ {c[s]}]>>]
    <3>1. PICK r : r = s \ {c[s]}
      OBVIOUS
    <3>2. r \in SUBSET U /\ r # U
      BY <2>4, <3>1, Rest
    <3>3. g[r] = Value(r)
      BY <2>3, <2>4, <3>2
    <3>4. g[s] = F[<<c[s], Value(r)>>]
      BY <2>2, <2>4, <3>1
    <3> QED
      BY <3>1, <3>3, <3>4
  <2>5. g = [s \in SUBSET U |-> g[s]] /\ g[{}] = base
    OBVIOUS
  <2>6. Folded(F, c, base, U, g)
    <3> HIDE DEF g
    <3> QED
      BY <2>4, <2>5 DEF Folded
  <2> QED
    BY <2>6
<1>2. SUBSET S \subseteq Good
  <2> HIDE DEF Good
  <2> QED
    BY <1>1, FiniteInduction
<1> QED
  BY <1>2

\* A fold stays in the set that it starts in and that F stays in.
LEMMA FoldedStays ==
  ASSUME NEW S, IsFiniteSet(S), NEW D, NEW F \in [S \X D -> D], NEW base \in D,
         NEW c, Picks(c, S), NEW g, Folded(F, c, base, S, g)
  PROVE  \A s \in SUBSET S : g[s] \in D
<1> DEFINE Good == {s \in SUBSET S : g[s] \in D}
<1>1. ASSUME NEW s \in SUBSET S, \A r \in SUBSET s : r # s => r \in Good
      PROVE  s \in Good
  <2>1. CASE s = {}
    BY <2>1 DEF Folded
  <2>2. CASE s # {}
    <3>1. c[s] \in S /\ g[s \ {c[s]}] \in D
      BY <1>1, <2>2, Rest
    <3>2. g[s] = F[<<c[s], g[s \ {c[s]}]>>]
      BY <2>2 DEF Folded
    <3> QED
      BY <3>1, <3>2
  <2> QED
    BY <2>1, <2>2
<1>2. SUBSET S \subseteq Good
  <2> HIDE DEF Good
  <2> QED
    BY <1>1, FiniteInduction
<1> QED
  BY <1>2

-----------------------------------------------------------------------------
(***************************************************************************)
(* Fractions: Euclid's algorithm, the value of a fraction and its order.   *)
(***************************************************************************)

\* Arithmetic: a common factor is cancelled.
LEMMA Cancel == ASSUME NEW a \in Int, NEW b \in Int, NEW k \in Nat \ {0}
  PROVE  /\ a * k = b * k => a = b
         /\ a * k <= b * k <=> a <= b
  OBVIOUS

\* Arithmetic: factors are reordered and distributed.
LEMMA Swap ==
  ASSUME NEW a \in Int, NEW b \in Int, NEW c \in Int
  PROVE  /\ (a * b) * c = (a * c) * b
         /\ a * (b * c) = (a * b) * c
         /\ (a + b) * c = a * c + b * c
  OBVIOUS

\* Arithmetic: division undoes multiplication.
LEMMA Divided == ASSUME NEW m \in Int, NEW k \in Nat \ {0} PROVE (m * k) \div k = m
  OBVIOUS

\* Arithmetic: what % and \div mean.
LEMMA Division ==
  ASSUME NEW a \in Nat, NEW b \in Nat \ {0}
  PROVE  /\ a % b \in Nat /\ a % b < b
         /\ a \div b \in Nat
         /\ a % b = a - b * (a \div b)
<1>1. a % b \in Nat /\ a % b < b
  OBVIOUS
<1>2. a \div b \in Nat
  OBVIOUS
<1>3. a % b = a - b * (a \div b)
  BY Z3
<1> QED
  BY <1>1, <1>2, <1>3

Multiple(a, k) == \E m \in Int : a = m * k

Common(a, b) == {k \in Nat \ {0} : Multiple(a, k) /\ Multiple(b, k)}

\* A step of Euclid's algorithm keeps the common divisors.
LEMMA SameDivisors ==
  ASSUME NEW a \in Nat, NEW b \in Nat \ {0}
  PROVE  Common(b, a % b) = Common(a, b)
<1>1. PICK q \in Nat, r \in Nat : q = a \div b /\ r = a % b /\ r = a - b * q
  BY Division
<1>2. ASSUME NEW k \in Nat \ {0}, NEW m \in Int, NEW l \in Int, b = m * k, a = l * k
      PROVE  Multiple(r, k)
  <2>1. r = (l - m * q) * k
    BY <1>1, <1>2
  <2>2. l - m * q \in Int
    BY <1>1
  <2> QED
    BY <2>1, <2>2 DEF Multiple
<1>3. ASSUME NEW k \in Nat \ {0}, NEW m \in Int, NEW l \in Int, b = m * k, r = l * k
      PROVE  Multiple(a, k)
  <2>1. a = (l + m * q) * k
    <3>1. a = r + b * q
      BY <1>1
    <3>2. (l + m * q) * k = l * k + (m * q) * k
      BY <1>1, Swap
    <3>3. (m * q) * k = (m * k) * q
      <4>1. q \in Int /\ k \in Int
        BY <1>1
      <4> QED
        BY <4>1, Swap
    <3> QED
      BY <1>1, <1>3, <3>1, <3>2, <3>3
  <2>2. l + m * q \in Int
    BY <1>1
  <2> QED
    BY <2>1, <2>2 DEF Multiple
<1> QED
  BY <1>1, <1>2, <1>3 DEF Common, Multiple

\* Its last step: the greatest common divisor of b and 0 is b.
LEMMA OfZero ==
  ASSUME NEW b \in Nat \ {0}
  PROVE  /\ b \in Common(b, 0)
         /\ \A k \in Common(b, 0) : k <= b
<1>1. b = 1 * b /\ 0 = 0 * b
  OBVIOUS
<1>2. b \in Common(b, 0)
  BY <1>1 DEF Common, Multiple
<1>3. ASSUME NEW k \in Nat \ {0}, NEW m \in Int, b = m * k
      PROVE  k <= b
  <2>1. m >= 1
    BY <1>3
  <2> QED
    BY <1>3, <2>1
<1> QED
  BY <1>2, <1>3 DEF Common, Multiple

Euclid(g) ==
  g = [p \in Nat \X Nat |-> IF p[2] = 0 THEN p[1] ELSE g[<<p[2], p[1] % p[2]>>]]

\* Divisor is what its recursive definition says: a function satisfies it, the
\* one that maps a pair to its greatest common divisor.
LEMMA DivisorIsDefined == Euclid(Divisor)
<1> DEFINE Greatest(a, b) == CHOOSE k \in Common(a, b) : \A l \in Common(a, b) : l <= k
           Value(p) == IF p[2] = 0 THEN p[1] ELSE Greatest(p[1], p[2])
           g == [p \in Nat \X Nat |-> Value(p)]
<1>1. ASSUME NEW a \in Nat, NEW b \in Nat \ {0}
      PROVE  g[<<a, b>>] = g[<<b, a % b>>]
  <2>1. a % b \in Nat
    BY Division
  <2>2. /\ g[<<a, b>>] = Greatest(a, b)
        /\ g[<<b, a % b>>] = Value(<<b, a % b>>)
    BY <2>1
  <2>3. Greatest(a, b) = Greatest(b, a % b)
    BY SameDivisors
  <2>4. CASE a % b = 0
    <3>1. Greatest(b, 0) = b
      BY OfZero DEF Common
    <3> HIDE DEF Greatest
    <3> QED
      BY <2>2, <2>3, <2>4, <3>1
  <2>5. CASE a % b # 0
    <3> HIDE DEF Greatest
    <3> QED
    BY <2>2, <2>3, <2>5
  <2> QED
    BY <2>4, <2>5
<1>2. Euclid(g)
  <2>1. \A p \in Nat \X Nat : p = <<p[1], p[2]>>
    OBVIOUS
  <2>2. ASSUME NEW p \in Nat \X Nat
        PROVE  g[p] = IF p[2] = 0 THEN p[1] ELSE g[<<p[2], p[1] % p[2]>>]
    <3>1. CASE p[2] = 0
      BY <3>1
    <3>2. CASE p[2] # 0
      <4>1. p[1] \in Nat /\ p[2] \in Nat \ {0}
        BY <3>2
      <4> HIDE DEF g
      <4> QED
        BY <1>1, <2>1, <3>2, <4>1
    <3> QED
      BY <3>1, <3>2
  <2>3. g = [p \in Nat \X Nat |-> g[p]]
    OBVIOUS
  <2> HIDE DEF g
  <2> QED
    BY <2>2, <2>3 DEF Euclid
<1>3. \E f : Euclid(f)
  BY <1>2
<1> QED
  BY <1>3 DEF Euclid, Divisor

\* Divisor divides both of its arguments.
LEMMA DivisorIsCommon ==
  ASSUME NEW a \in Nat, NEW b \in Nat \ {0}
  PROVE  Divisor[<<a, b>>] \in Common(a, b)
<1> DEFINE Good == {n \in Nat : n # 0 => \A c \in Nat : Divisor[<<c, n>>] \in Common(c, n)}
<1>1. ASSUME NEW n \in Nat, \A m \in Nat : m < n => m \in Good
      PROVE  n \in Good
  <2>1. SUFFICES ASSUME n # 0, NEW c \in Nat
                 PROVE  Divisor[<<c, n>>] \in Common(c, n)
    OBVIOUS
  <2>2. c % n \in Nat /\ c % n < n
    BY <2>1, Division
  <2>3. Divisor[<<c, n>>] = Divisor[<<n, c % n>>]
    BY <2>1, DivisorIsDefined DEF Euclid
  <2>4. Divisor[<<n, c % n>>] \in Common(n, c % n)
    <3>1. CASE c % n = 0
      <4>1. Divisor[<<n, 0>>] = n
        BY DivisorIsDefined DEF Euclid
      <4> QED
        BY <2>1, <3>1, <4>1, OfZero
    <3>2. CASE c % n # 0
      BY <1>1, <2>2, <3>2
    <3> QED
      BY <3>1, <3>2
  <2> QED
    BY <2>1, <2>3, <2>4, SameDivisors
<1>2. Nat \subseteq Good
  <2> HIDE DEF Good
  <2> QED
    BY <1>1, NaturalInduction
<1> QED
  BY <1>2

Fraction == Int \X (Nat \ {0})

\* Fraction x is a / d.
Is(x, a, d) == x[1] * d = a * x[2]

\* Reduced keeps the value of a fraction.
LEMMA ReducedIs ==
  ASSUME NEW n \in Int, NEW d \in Nat \ {0}
  PROVE  \E r \in Int, e \in Nat \ {0} : Reduced[<<n, d>>] = <<r, e>> /\ r * d = n * e
<1>1. PICK a \in Nat : a = IF n < 0 THEN -n ELSE n
  OBVIOUS
<1>2. PICK k \in Nat \ {0}, i \in Int, l \in Int :
        k = Divisor[<<a, d>>] /\ a = i * k /\ d = l * k
  <2>1. Divisor[<<a, d>>] \in Common(a, d)
    BY DivisorIsCommon
  <2> QED
    BY <2>1 DEF Common, Multiple
<1>3. PICK m \in Int : n = m * k
  <2>1. CASE n < 0
    <3>1. n = (-i) * k
      BY <1>1, <1>2, <2>1
    <3> QED
      BY <3>1
  <2>2. CASE n >= 0
    BY <1>1, <1>2, <2>2
  <2> QED
    BY <2>1, <2>2
<1>4. Reduced[<<n, d>>] = <<n \div k, d \div k>>
  BY <1>1, <1>2 DEF Reduced, Pair
<1>5. n \div k = m /\ d \div k = l
  BY <1>2, <1>3, Divided
<1>6. l > 0
  BY <1>2
<1>7. m * d = n * l
  <2>1. m * (l * k) = (m * k) * l
    BY Swap
  <2> QED
    BY <1>2, <1>3, <2>1
<1>8. Reduced[<<n, d>>] = <<m, l>>
  BY <1>4, <1>5
<1>9. l \in Nat \ {0}
  BY <1>2, <1>6
<1> QED
  BY <1>3, <1>7, <1>8, <1>9

\* Plus adds the values of two fractions.
LEMMA PlusIs ==
  ASSUME NEW x \in Fraction, NEW y \in Fraction, NEW a \in Int, NEW b \in Int,
         NEW d \in Nat \ {0}, Is(x, a, d), Is(y, b, d)
  PROVE  /\ Plus(x, y) \in Fraction
         /\ Is(Plus(x, y), a + b, d)
<1>1. PICK x1 \in Int, x2 \in Nat \ {0}, y1 \in Int, y2 \in Nat \ {0} :
        x = <<x1, x2>> /\ y = <<y1, y2>>
  BY DEF Fraction
<1>2. x1 * d = a * x2 /\ y1 * d = b * y2
  BY <1>1 DEF Is
<1>3. PICK n \in Int, e \in Nat \ {0} : n = x1 * y2 + y1 * x2 /\ e = x2 * y2
  BY <1>1
<1>4. Plus(x, y) = Reduced[<<n, e>>]
  <2>1. <<x, y>> \in Pair \X Pair
    BY <1>1 DEF Pair
  <2>2. Added[<<x, y>>] = Reduced[<<x[1] * y[2] + y[1] * x[2], x[2] * y[2]>>]
    BY <2>1 DEF Added
  <2> QED
    BY <1>1, <1>3, <2>2 DEF Plus
<1>5. PICK r1 \in Int, r2 \in Nat \ {0} : Plus(x, y) = <<r1, r2>> /\ r1 * e = n * r2
  <2>1. \E r1 \in Int, r2 \in Nat \ {0} : Reduced[<<n, e>>] = <<r1, r2>> /\ r1 * e = n * r2
    BY ReducedIs
  <2> QED
    BY <1>4, <2>1, Zenon
<1>6. n * d = (a + b) * e
  <2>1. n * d = (x1 * d) * y2 + (y1 * d) * x2
    BY <1>1, <1>3
  <2>2. (a + b) * e = (a * x2) * y2 + (b * y2) * x2
    BY <1>1, <1>3
  <2> QED
    BY <1>2, <2>1, <2>2
<1>7. (r1 * d) * e = ((a + b) * r2) * e
  <2>1. (r1 * d) * e = (r1 * e) * d
    BY <1>3, <1>5
  <2>2. ((a + b) * r2) * e = ((a + b) * e) * r2
    BY <1>3, <1>5
  <2>3. (n * r2) * d = (n * d) * r2
    BY <1>3, <1>5
  <2> QED
    BY <1>5, <1>6, <2>1, <2>2, <2>3
<1>8. r1 * d = (a + b) * r2
  <2>1. r1 * d \in Int /\ (a + b) * r2 \in Int
    BY <1>5
  <2> QED
    BY <1>3, <1>7, <2>1, Cancel
<1> QED
  BY <1>5, <1>8 DEF Fraction, Is

\* Times multiplies the values of two fractions.
LEMMA TimesIs ==
  ASSUME NEW x \in Fraction, NEW y \in Fraction, NEW a \in Int, NEW d \in Nat \ {0},
         Is(x, a, d)
  PROVE  /\ Times(x, y) \in Fraction
         /\ Is(Times(x, y), a * y[1], d * y[2])
<1>1. PICK x1 \in Int, x2 \in Nat \ {0}, y1 \in Int, y2 \in Nat \ {0} :
        x = <<x1, x2>> /\ y = <<y1, y2>>
  BY DEF Fraction
<1>2. x1 * d = a * x2
  BY <1>1 DEF Is
<1>3. PICK n \in Int, e \in Nat \ {0} : n = x1 * y1 /\ e = x2 * y2
  BY <1>1
<1>4. Times(x, y) = Reduced[<<n, e>>]
  <2>1. <<x, y>> \in Pair \X Pair
    BY <1>1 DEF Pair
  <2>2. Multiplied[<<x, y>>] = Reduced[<<x[1] * y[1], x[2] * y[2]>>]
    BY <2>1 DEF Multiplied
  <2> QED
    BY <1>1, <1>3, <2>2 DEF Times
<1>5. PICK r1 \in Int, r2 \in Nat \ {0} : Times(x, y) = <<r1, r2>> /\ r1 * e = n * r2
  <2>1. \E r1 \in Int, r2 \in Nat \ {0} : Reduced[<<n, e>>] = <<r1, r2>> /\ r1 * e = n * r2
    BY ReducedIs
  <2> QED
    BY <1>4, <2>1, Zenon
<1>6. (r1 * (d * y2)) * x2 = ((a * y1) * r2) * x2
  <2>1. (r1 * (d * y2)) * x2 = (r1 * (x2 * y2)) * d
    BY <1>1, <1>5
  <2>2. ((x1 * y1) * r2) * d = (x1 * d) * (y1 * r2)
    BY <1>1, <1>5
  <2>3. ((a * y1) * r2) * x2 = (a * x2) * (y1 * r2)
    BY <1>1, <1>5
  <2> QED
    BY <1>2, <1>3, <1>5, <2>1, <2>2, <2>3
<1>7. r1 * (d * y2) = (a * y1) * r2
  <2>1. r1 * (d * y2) \in Int /\ (a * y1) * r2 \in Int
    BY <1>1, <1>5
  <2> QED
    BY <1>1, <1>6, <2>1, Cancel
<1> QED
  BY <1>1, <1>5, <1>7 DEF Fraction, Is

\* Fraction x is not greater than y.
AtMost(x, y) == x[1] * y[2] <= y[1] * x[2]

\* Fractions of one denominator are compared by their numerators.
LEMMA IsAtMost ==
  ASSUME NEW x \in Fraction, NEW y \in Fraction, NEW a \in Int, NEW b \in Int,
         NEW d \in Nat \ {0}, Is(x, a, d), Is(y, b, d)
  PROVE  AtMost(x, y) <=> a <= b
<1>1. PICK x1 \in Int, x2 \in Nat \ {0}, y1 \in Int, y2 \in Nat \ {0} :
        x = <<x1, x2>> /\ y = <<y1, y2>>
  BY DEF Fraction
<1>2. x1 * d = a * x2 /\ y1 * d = b * y2
  BY <1>1 DEF Is
<1>3. PICK e \in Nat \ {0} : e = x2 * y2
  BY <1>1
<1>4. (x1 * y2) * d = a * e
  <2>1. (x1 * y2) * d = (x1 * d) * y2
    BY <1>1, Swap
  <2>2. (a * x2) * y2 = a * (x2 * y2)
    BY <1>1
  <2> QED
    BY <1>2, <1>3, <2>1, <2>2
<1>5. (y1 * x2) * d = b * e
  <2>1. (y1 * x2) * d = (y1 * d) * x2
    BY <1>1, Swap
  <2>2. (b * y2) * x2 = b * (x2 * y2)
    BY <1>1
  <2> QED
    BY <1>2, <1>3, <2>1, <2>2
<1>6. x1 * y2 \in Int /\ y1 * x2 \in Int
  BY <1>1
<1>7. x1 * y2 <= y1 * x2 <=> (x1 * y2) * d <= (y1 * x2) * d
  BY <1>6, Cancel
<1>8. a <= b <=> a * e <= b * e
  BY <1>3, Cancel
<1> QED
  BY <1>1, <1>4, <1>5, <1>7, <1>8 DEF AtMost

\* A fraction can be given any multiple of its denominator.
LEMMA Widened ==
  ASSUME NEW x \in Fraction, NEW a \in Int, NEW d \in Nat \ {0}, NEW m \in Nat \ {0},
         Is(x, a, d)
  PROVE  Is(x, a * m, d * m)
<1>1. PICK x1 \in Int, x2 \in Nat \ {0} : x = <<x1, x2>>
  BY DEF Fraction
<1>2. x1 * (d * m) = (x1 * d) * m
  BY <1>1
<1>3. (a * m) * x2 = (a * x2) * m
  BY <1>1
<1> QED
  BY <1>1, <1>2, <1>3 DEF Is

\* A fraction is its numerator over its denominator.
LEMMA Itself ==
  ASSUME NEW x \in Fraction
  PROVE  Is(x, x[1], x[2]) /\ x[1] \in Int /\ x[2] \in Nat \ {0}
BY DEF Is, Fraction

\* Two or three fractions have a common denominator.
LEMMA CommonDenominator ==
  ASSUME NEW x \in Fraction, NEW y \in Fraction, NEW z \in Fraction
  PROVE  \E d \in Nat \ {0} : \E a, b, c \in Int : Is(x, a, d) /\ Is(y, b, d) /\ Is(z, c, d)
<1>1. PICK e \in Nat \ {0}, a \in Int, b \in Int : Is(x, a, e) /\ Is(y, b, e)
  <2>1. PICK e \in Nat \ {0}, a \in Int, b \in Int :
          e = x[2] * y[2] /\ a = x[1] * y[2] /\ b = y[1] * x[2]
    BY DEF Fraction
  <2>2. Is(x, a, e)
    BY <2>1, Itself, Widened
  <2>3. Is(y, b, y[2] * x[2])
    BY <2>1, Itself, Widened
  <2>4. y[2] * x[2] = x[2] * y[2]
    BY Itself
  <2> QED
    BY <2>1, <2>2, <2>3, <2>4
<1>2. PICK f \in Nat \ {0}, c \in Int : f = z[2] /\ c = z[1] /\ Is(z, c, f)
  BY Itself
<1>3. Is(x, a * f, e * f) /\ Is(y, b * f, e * f)
  BY <1>1, <1>2, Widened
<1>4. Is(z, c * e, f * e)
  BY <1>1, <1>2, Widened
<1>5. /\ e * f \in Nat \ {0} /\ f * e = e * f
      /\ a * f \in Int /\ b * f \in Int /\ c * e \in Int
  BY <1>1, <1>2
<1> QED
  BY <1>3, <1>4, <1>5

\* Plus returns a fraction.
LEMMA PlusIsFraction ==
  ASSUME NEW x \in Fraction, NEW y \in Fraction
  PROVE  Plus(x, y) \in Fraction
BY CommonDenominator, PlusIs

\* Plus is commutative.
LEMMA PlusCommutes ==
  ASSUME NEW x \in Fraction, NEW y \in Fraction
  PROVE  Plus(x, y) = Plus(y, x)
<1>1. PICK x1 \in Int, x2 \in Nat \ {0}, y1 \in Int, y2 \in Nat \ {0} :
        x = <<x1, x2>> /\ y = <<y1, y2>>
  BY DEF Fraction
<1>2. <<x, y>> \in Pair \X Pair /\ <<y, x>> \in Pair \X Pair
  BY <1>1 DEF Pair
<1>3. /\ Added[<<x, y>>] = Reduced[<<x1 * y2 + y1 * x2, x2 * y2>>]
      /\ Added[<<y, x>>] = Reduced[<<y1 * x2 + x1 * y2, y2 * x2>>]
  BY <1>1, <1>2 DEF Added
<1>4. x1 * y2 + y1 * x2 = y1 * x2 + x1 * y2 /\ x2 * y2 = y2 * x2
  BY <1>1
<1> QED
  BY <1>3, <1>4 DEF Plus

\* AtMost is transitive.
LEMMA AtMostIsTransitive ==
  ASSUME NEW x \in Fraction, NEW y \in Fraction, NEW z \in Fraction,
         AtMost(x, y), AtMost(y, z)
  PROVE  AtMost(x, z)
<1>1. PICK d \in Nat \ {0}, a \in Int, b \in Int, c \in Int :
        Is(x, a, d) /\ Is(y, b, d) /\ Is(z, c, d)
  BY CommonDenominator
<1>2. a <= b /\ b <= c
  BY <1>1, IsAtMost
<1>3. a <= c
  BY <1>2
<1> QED
  BY <1>1, <1>3, IsAtMost

\* Plus is monotone in its first argument.
LEMMA PlusIsMonotone ==
  ASSUME NEW x \in Fraction, NEW y \in Fraction, NEW z \in Fraction, AtMost(x, y)
  PROVE  AtMost(Plus(x, z), Plus(y, z))
<1>1. PICK d \in Nat \ {0}, a \in Int, b \in Int, c \in Int :
        Is(x, a, d) /\ Is(y, b, d) /\ Is(z, c, d)
  BY CommonDenominator
<1>2. a <= b
  BY <1>1, IsAtMost
<1>3. /\ Plus(x, z) \in Fraction /\ Is(Plus(x, z), a + c, d)
      /\ Plus(y, z) \in Fraction /\ Is(Plus(y, z), b + c, d)
  BY <1>1, PlusIs
<1>4. a + c <= b + c /\ a + c \in Int /\ b + c \in Int
  BY <1>1, <1>2
<1> QED
  BY <1>1, <1>3, <1>4, IsAtMost

\* Plus is monotone in both.
LEMMA PlusOfBoth ==
  ASSUME NEW v \in Fraction, NEW x \in Fraction, NEW y \in Fraction, NEW z \in Fraction,
         AtMost(v, x), AtMost(y, z)
  PROVE  AtMost(Plus(v, y), Plus(x, z))
<1>1. AtMost(Plus(v, y), Plus(x, y))
  BY PlusIsMonotone
<1>2. AtMost(Plus(y, x), Plus(z, x))
  BY PlusIsMonotone
<1>3. AtMost(Plus(x, y), Plus(x, z))
  BY <1>2, PlusCommutes
<1> QED
  BY <1>1, <1>3, PlusIsFraction, AtMostIsTransitive

\* A sum with what is not negative is not less.
LEMMA PlusGrows ==
  ASSUME NEW x \in Fraction, NEW y \in Fraction, y[1] >= 0
  PROVE  AtMost(x, Plus(y, x))
<1>1. PICK d \in Nat \ {0}, a \in Int, b \in Int : Is(x, a, d) /\ Is(y, b, d)
  BY CommonDenominator
<1>2. b >= 0
  <2>1. y[1] * d = b * y[2] /\ y[1] \in Int /\ y[2] \in Nat \ {0}
    BY <1>1, Itself DEF Is
  <2> QED
    BY <2>1
<1>3. Plus(y, x) \in Fraction /\ Is(Plus(y, x), b + a, d)
  BY <1>1, PlusIs
<1>4. a <= b + a /\ b + a \in Int
  BY <1>1, <1>2
<1> QED
  BY <1>1, <1>3, <1>4, IsAtMost

\* Two summands are exchanged.
LEMMA PlusExchanges ==
  ASSUME NEW x \in Fraction, NEW y \in Fraction, NEW z \in Fraction
  PROVE  AtMost(Plus(x, Plus(y, z)), Plus(y, Plus(x, z)))
<1>1. PICK d \in Nat \ {0}, a \in Int, b \in Int, c \in Int :
        Is(x, a, d) /\ Is(y, b, d) /\ Is(z, c, d)
  BY CommonDenominator
<1>2. /\ b + c \in Int /\ a + c \in Int
      /\ a + (b + c) \in Int /\ b + (a + c) \in Int
      /\ a + (b + c) <= b + (a + c)
  BY <1>1
<1>3. /\ Plus(y, z) \in Fraction /\ Is(Plus(y, z), b + c, d)
      /\ Plus(x, z) \in Fraction /\ Is(Plus(x, z), a + c, d)
  BY <1>1, PlusIs
<1>4. Plus(x, Plus(y, z)) \in Fraction /\ Is(Plus(x, Plus(y, z)), a + (b + c), d)
  BY <1>1, <1>2, <1>3, PlusIs
<1>5. Plus(y, Plus(x, z)) \in Fraction /\ Is(Plus(y, Plus(x, z)), b + (a + c), d)
  BY <1>1, <1>2, <1>3, PlusIs
<1> QED
  BY <1>1, <1>2, <1>4, <1>5, IsAtMost

\* Amounts are the fractions that are not negative.
LEMMA AmountsAreFractions ==
  ASSUME NEW x
  PROVE  x \in Amount <=> x \in Fraction /\ x[1] >= 0
BY DEF Amount, Fraction

\* Plus of amounts is an amount.
LEMMA PlusIsAmount ==
  ASSUME NEW x \in Amount, NEW y \in Amount
  PROVE  Plus(x, y) \in Amount
<1>1. x \in Fraction /\ y \in Fraction /\ x[1] >= 0 /\ y[1] >= 0
  BY AmountsAreFractions
<1>2. PICK r1 \in Int, r2 \in Nat \ {0} : Plus(x, y) = <<r1, r2>>
  BY <1>1, PlusIsFraction DEF Fraction
<1>3. AtMost(y, Plus(x, y))
  BY <1>1, PlusGrows
<1>4. PICK y1 \in Nat, y2 \in Nat \ {0} : y = <<y1, y2>>
  BY DEF Amount
<1>5. y1 * r2 <= r1 * y2
  BY <1>2, <1>3, <1>4 DEF AtMost
<1>6. r1 >= 0
  BY <1>5, <1>2, <1>4
<1> QED
  BY <1>2, <1>6 DEF Amount

\* Less is the strict order of fractions.
LEMMA LessMeans ==
  ASSUME NEW x \in Fraction, NEW y \in Fraction
  PROVE  /\ Minus(x, y) \in Fraction
         /\ Less(x, y) <=> ~AtMost(y, x)
<1>1. PICK d \in Nat \ {0}, a \in Int, b \in Int : Is(x, a, d) /\ Is(y, b, d)
  BY CommonDenominator
<1>2. PICK y1 \in Int, y2 \in Nat \ {0} : y = <<y1, y2>>
  BY DEF Fraction
<1>3. Negative(y) \in Fraction /\ Is(Negative(y), -b, d)
  <2>1. y1 * d = b * y2
    BY <1>1, <1>2 DEF Is
  <2>2. (-y1) * d = (-b) * y2
    BY <2>1
  <2> QED
    BY <1>2, <2>2 DEF Negative, Fraction, Is
<1>4. Minus(x, y) = Plus(x, Negative(y))
  BY DEF Minus, Plus
<1>5. Minus(x, y) \in Fraction /\ Is(Minus(x, y), a + (-b), d)
  <2>1. -b \in Int
    OBVIOUS
  <2> QED
    BY <1>1, <1>3, <1>4, <2>1, PlusIs
<1>6. PICK r1 \in Int, r2 \in Nat \ {0} : Minus(x, y) = <<r1, r2>> /\ r1 * d = (a + (-b)) * r2
  BY <1>5 DEF Fraction, Is
<1>7. PICK c \in Int : c = a + (-b)
  OBVIOUS
<1>8. r1 < 0 <=> c < 0
  <2>1. r1 * d = c * r2
    BY <1>6, <1>7
  <2> QED
    BY <2>1
<1>9. AtMost(y, x) <=> b <= a
  BY <1>1, IsAtMost
<1>10. b <= a <=> ~(c < 0)
  BY <1>7
<1> QED
  BY <1>5, <1>6, <1>8, <1>9, <1>10 DEF Less

\* Times an amount is monotone.
LEMMA TimesIsMonotone ==
  ASSUME NEW x \in Fraction, NEW y \in Fraction, NEW r \in Amount, AtMost(x, y)
  PROVE  AtMost(Times(x, r), Times(y, r))
<1>1. PICK d \in Nat \ {0}, a \in Int, b \in Int : Is(x, a, d) /\ Is(y, b, d)
  BY CommonDenominator
<1>2. a <= b
  BY <1>1, IsAtMost
<1>3. r \in Fraction /\ r[1] \in Nat /\ r[2] \in Nat \ {0}
  BY AmountsAreFractions DEF Amount
<1>4. PICK k \in Nat, e \in Nat \ {0} : k = r[1] /\ e = r[2]
  BY <1>3
<1>5. /\ Times(x, r) \in Fraction /\ Is(Times(x, r), a * k, d * e)
      /\ Times(y, r) \in Fraction /\ Is(Times(y, r), b * k, d * e)
  BY <1>1, <1>3, <1>4, TimesIs
<1>6. a * k <= b * k /\ a * k \in Int /\ b * k \in Int /\ d * e \in Nat \ {0}
  BY <1>2
<1> QED
  BY <1>5, <1>6, IsAtMost

\* Times of amounts is an amount, and nothing only if one of them is.
LEMMA TimesIsAmount ==
  ASSUME NEW x \in Amount, NEW y \in Amount
  PROVE  /\ Times(x, y) \in Amount
         /\ Times(x, y)[1] = 0 <=> x[1] = 0 \/ y[1] = 0
<1>1. PICK x1 \in Nat, x2 \in Nat \ {0}, y1 \in Nat, y2 \in Nat \ {0} :
        x = <<x1, x2>> /\ y = <<y1, y2>>
  BY DEF Amount
<1>2. x \in Fraction /\ y \in Fraction
  BY AmountsAreFractions
<1>3. Times(x, y) \in Fraction /\ Is(Times(x, y), x1 * y1, x2 * y2)
  BY <1>1, <1>2, Itself, TimesIs
<1>4. PICK r1 \in Int, r2 \in Nat \ {0} : Times(x, y) = <<r1, r2>>
  BY <1>3 DEF Fraction
<1>5. PICK n \in Nat, d \in Nat \ {0} : n = x1 * y1 /\ d = x2 * y2
  BY <1>1
<1>6. r1 * d = n * r2
  BY <1>3, <1>4, <1>5 DEF Is
<1>7. r1 >= 0
  BY <1>6
<1>8. r1 = 0 <=> n = 0
  BY <1>6
<1>9. n = 0 <=> x1 = 0 \/ y1 = 0
  BY <1>1, <1>5
<1> QED
  BY <1>1, <1>4, <1>7, <1>8, <1>9 DEF Amount

\* Division by an amount that is not nothing is multiplication.
LEMMA OverIsTimes ==
  ASSUME NEW x, NEW y \in Amount, y[1] > 0
  PROVE  /\ Over(x, y) = Times(x, <<y[2], y[1]>>)
         /\ <<y[2], y[1]>> \in Amount
         /\ y[2] > 0
BY DEF Over, Times, Amount

\* Nothing and nothing is nothing.
LEMMA PlusOfNothing ==
  ASSUME NEW x \in Amount, NEW y \in Amount, x[1] = 0, y[1] = 0
  PROVE  Plus(x, y)[1] = 0
<1>1. x \in Fraction /\ y \in Fraction
  BY AmountsAreFractions
<1>2. Is(x, 0, 1) /\ Is(y, 0, 1)
  BY DEF Is, Amount
<1>3. Plus(x, y) \in Fraction /\ Is(Plus(x, y), 0 + 0, 1)
  BY <1>1, <1>2, PlusIs
<1>4. PICK r1 \in Int, r2 \in Nat \ {0} : Plus(x, y) = <<r1, r2>>
  BY <1>3 DEF Fraction
<1>5. r1 * 1 = (0 + 0) * r2
  BY <1>3, <1>4 DEF Is
<1> QED
  BY <1>4, <1>5

-----------------------------------------------------------------------------
(***************************************************************************)
(* Sums of amounts over finite sets.                                       *)
(***************************************************************************)

AnyOf(s) == CHOOSE x \in s : TRUE

\* g sums f over the subsets of U.
Sums(f, U, g) ==
  g = [s \in SUBSET U |->
         IF s = {} THEN Zero ELSE Plus(f[AnyOf(s)], g[s \ {AnyOf(s)}])]

\* A set that is not empty loses an element to AnyOf.
LEMMA AnyIsElement ==
  ASSUME NEW s, s # {}
  PROVE  /\ AnyOf(s) \in s
         /\ s \ {AnyOf(s)} \in SUBSET s
         /\ s \ {AnyOf(s)} # s
BY DEF AnyOf

\* Two sums agree on a set they are both defined for.
LEMMA SumsAgree ==
  ASSUME NEW f, NEW U, NEW V, NEW g, NEW h, Sums(f, U, g), Sums(f, V, h),
         NEW S \in SUBSET (U \cap V), IsFiniteSet(S)
  PROVE  g[S] = h[S]
<1> DEFINE Good == {s \in SUBSET S : g[s] = h[s]}
<1>1. ASSUME NEW s \in SUBSET S, \A r \in SUBSET s : r # s => r \in Good
      PROVE  s \in Good
  <2>1. s \in SUBSET U /\ s \in SUBSET V
    OBVIOUS
  <2>2. CASE s = {}
    BY <2>1, <2>2 DEF Sums
  <2>3. CASE s # {}
    <3>1. g[s \ {AnyOf(s)}] = h[s \ {AnyOf(s)}]
      BY <1>1, <2>3, AnyIsElement
    <3>2. /\ g[s] = Plus(f[AnyOf(s)], g[s \ {AnyOf(s)}])
          /\ h[s] = Plus(f[AnyOf(s)], h[s \ {AnyOf(s)}])
      BY <2>1, <2>3 DEF Sums
    <3> QED
      BY <3>1, <3>2
  <2> QED
    BY <2>2, <2>3
<1>2. SUBSET S \subseteq Good
  <2> HIDE DEF Good
  <2> QED
    BY <1>1, FiniteInduction
<1> QED
  BY <1>2

SumOf(f, s) == (CHOOSE g : Sums(f, s, g))[s]

\* Amounts have a sum over every subset of a finite set.
LEMMA SumsExist ==
  ASSUME NEW f, NEW S, IsFiniteSet(S), \A x \in S : f[x] \in Amount
  PROVE  \E g : Sums(f, S, g)
<1> DEFINE F == [z \in S \X Amount |-> Plus(f[z[1]], z[2])]
           c == [s \in SUBSET S |-> AnyOf(s)]
<1>1. F \in [S \X Amount -> Amount] /\ Zero \in Amount
  BY PlusIsAmount DEF Zero, Amount
<1>2. Picks(c, S)
  BY AnyIsElement DEF Picks
<1>3. \A x \in S, y \in Amount : F[<<x, y>>] = Plus(f[x], y)
  OBVIOUS
<1>4. \A s \in SUBSET S : c[s] = AnyOf(s)
  OBVIOUS
<1> HIDE DEF F, c
<1>5. PICK g : Folded(F, c, Zero, S, g)
  BY <1>2, FoldedExists
<1>6. \A s \in SUBSET S : g[s] \in Amount
  BY <1>1, <1>2, <1>5, FoldedStays
<1>7. ASSUME NEW s \in SUBSET S
      PROVE  g[s] = IF s = {} THEN Zero ELSE Plus(f[AnyOf(s)], g[s \ {AnyOf(s)}])
  <2>1. CASE s = {}
    BY <1>5, <2>1 DEF Folded
  <2>2. CASE s # {}
    <3>1. g[s] = F[<<c[s], g[s \ {c[s]}]>>] /\ c[s] = AnyOf(s)
      BY <1>4, <1>5, <2>2 DEF Folded
    <3>2. AnyOf(s) \in S /\ g[s \ {AnyOf(s)}] \in Amount
      BY <1>6, <2>2, AnyIsElement
    <3> QED
      BY <1>3, <2>2, <3>1, <3>2
  <2> QED
    BY <2>1, <2>2
<1>8. g = [s \in SUBSET S |-> g[s]]
  BY <1>5 DEF Folded
<1> QED
  BY <1>7, <1>8 DEF Sums

\* SumOf is what its recursive definition says.
LEMMA SumOfStep ==
  ASSUME NEW f, NEW S, IsFiniteSet(S), \A x \in S : f[x] \in Amount
  PROVE  /\ SumOf(f, {}) = Zero
         /\ S # {} => SumOf(f, S) = Plus(f[AnyOf(S)], SumOf(f, S \ {AnyOf(S)}))
<1>1. ASSUME NEW U \in SUBSET S, IsFiniteSet(U)
      PROVE  Sums(f, U, CHOOSE g : Sums(f, U, g))
  BY <1>1, SumsExist
<1>2. SumOf(f, {}) = Zero
  <2>1. Sums(f, {}, CHOOSE g : Sums(f, {}, g))
    BY <1>1, FS_EmptySet
  <2> QED
    BY <2>1 DEF SumOf, Sums
<1>3. ASSUME S # {}
      PROVE  SumOf(f, S) = Plus(f[AnyOf(S)], SumOf(f, S \ {AnyOf(S)}))
  <2>1. PICK V : V = S \ {AnyOf(S)}
    OBVIOUS
  <2>2. V \in SUBSET S
    BY <2>1
  <2>3. IsFiniteSet(V)
    BY <2>2, FS_Subset
  <2>4. PICK g : g = CHOOSE h : Sums(f, S, h)
    OBVIOUS
  <2>5. PICK h : h = CHOOSE i : Sums(f, V, i)
    OBVIOUS
  <2>6. Sums(f, S, g) /\ Sums(f, V, h)
    BY <1>1, <2>2, <2>3, <2>4, <2>5
  <2>7. g[V] = h[V]
    BY <2>2, <2>3, <2>6, SumsAgree
  <2>8. g[S] = Plus(f[AnyOf(S)], g[V])
    BY <1>3, <2>1, <2>6 DEF Sums
  <2> QED
    BY <2>1, <2>4, <2>5, <2>7, <2>8 DEF SumOf
<1> QED
  BY <1>2, <1>3

\* The fold of the community modules, as Total uses it, is this sum.
LEMMA TotalIsSum ==
  ASSUME NEW f, NEW S, IsFiniteSet(S), \A x \in S : f[x] \in Amount
  PROVE  Total([x \in S |-> f[x]]) = SumOf(f, S)
<1>1. PICK h : h = [x \in S |-> f[x]]
  OBVIOUS
<1>2. DOMAIN h = S
  BY <1>1
<1>3. Total(h) = (CHOOSE g : Sums(h, DOMAIN h, g))[DOMAIN h]
  BY DEF Total, FoldFunction, FoldFunctionOnSet, MapThenFoldSet, Sums, AnyOf
<1>4. PICK g : g = CHOOSE i : Sums(h, S, i)
  OBVIOUS
<1>5. Sums(h, S, g)
  BY <1>1, <1>4, SumsExist
<1>6. Sums(f, S, g)
  <2>1. \A s \in SUBSET S : s # {} => h[AnyOf(s)] = f[AnyOf(s)]
    BY <1>1, AnyIsElement
  <2> QED
    BY <1>5, <2>1 DEF Sums
<1>7. PICK i : i = CHOOSE j : Sums(f, S, j)
  OBVIOUS
<1>8. Sums(f, S, i)
  BY <1>7, SumsExist
<1>9. g[S] = i[S]
  BY <1>6, <1>8, SumsAgree
<1> QED
  BY <1>1, <1>2, <1>3, <1>4, <1>7, <1>9 DEF SumOf

\* A sum of amounts is an amount.
LEMMA SumIsAmount ==
  ASSUME NEW f, NEW S, IsFiniteSet(S), \A x \in S : f[x] \in Amount
  PROVE  SumOf(f, S) \in Amount
<1> DEFINE Good == {U \in SUBSET S : SumOf(f, U) \in Amount}
<1>1. ASSUME NEW U \in SUBSET S, \A W \in SUBSET U : W # U => W \in Good
      PROVE  U \in Good
  <2>1. IsFiniteSet(U)
    BY FS_Subset
  <2>2. CASE U = {}
    BY <2>1, <2>2, SumOfStep DEF Zero, Amount
  <2>3. CASE U # {}
    <3>1. AnyOf(U) \in S /\ SumOf(f, U \ {AnyOf(U)}) \in Amount
      BY <1>1, <2>3, AnyIsElement
    <3>2. SumOf(f, U) = Plus(f[AnyOf(U)], SumOf(f, U \ {AnyOf(U)}))
      BY <2>1, <2>3, SumOfStep
    <3> QED
      BY <3>1, <3>2, PlusIsAmount
  <2> QED
    BY <2>2, <2>3
<1>2. SUBSET S \subseteq Good
  <2> HIDE DEF Good
  <2> QED
    BY <1>1, FiniteInduction
<1> QED
  BY <1>2

Same(x, y) == AtMost(x, y) /\ AtMost(y, x)

\* AtMost is reflexive.
LEMMA AtMostItself == ASSUME NEW x \in Fraction PROVE AtMost(x, x)
BY DEF AtMost, Fraction

\* Sums that differ in the order of two summands are the same.
LEMMA Exchanged ==
  ASSUME NEW a \in Fraction, NEW b \in Fraction, NEW u \in Fraction, NEW v \in Fraction,
         NEW w \in Fraction, Same(u, Plus(b, w)), Same(v, Plus(a, w))
  PROVE  Same(Plus(a, u), Plus(b, v))
<1>1. Plus(b, w) \in Fraction /\ Plus(a, w) \in Fraction
  BY PlusIsFraction
<1>2. PICK s, t, y, z : /\ s = Plus(a, u) /\ t = Plus(a, Plus(b, w))
                        /\ y = Plus(b, Plus(a, w)) /\ z = Plus(b, v)
  OBVIOUS
<1>3. s \in Fraction /\ t \in Fraction /\ y \in Fraction /\ z \in Fraction
  BY <1>1, <1>2, PlusIsFraction
<1>4. AtMost(s, t) /\ AtMost(t, s)
  BY <1>1, <1>2, AtMostItself, PlusOfBoth DEF Same
<1>5. AtMost(t, y) /\ AtMost(y, t)
  BY <1>2, PlusExchanges
<1>6. AtMost(y, z) /\ AtMost(z, y)
  BY <1>1, <1>2, AtMostItself, PlusOfBoth DEF Same
<1>7. AtMost(s, z) /\ AtMost(z, s)
  BY <1>3, <1>4, <1>5, <1>6, AtMostIsTransitive
<1> QED
  BY <1>2, <1>7 DEF Same

\* Any element may be the last one that is added.
LEMMA SumWithout ==
  ASSUME NEW f, NEW S, IsFiniteSet(S), \A x \in S : f[x] \in Amount, NEW p \in S
  PROVE  Same(SumOf(f, S), Plus(f[p], SumOf(f, S \ {p})))
<1> DEFINE Good == {U \in SUBSET S :
             \A x \in U : Same(SumOf(f, U), Plus(f[x], SumOf(f, U \ {x})))}
<1>1. ASSUME NEW U \in SUBSET S, \A W \in SUBSET U : W # U => W \in Good
      PROVE  U \in Good
  <2>1. SUFFICES ASSUME NEW x \in U
                 PROVE  Same(SumOf(f, U), Plus(f[x], SumOf(f, U \ {x})))
    OBVIOUS
  <2>2. PICK c : c = AnyOf(U)
    OBVIOUS
  <2>3. c \in U
    BY <2>1, <2>2, AnyIsElement
  <2>4. IsFiniteSet(U)
    BY FS_Subset
  <2>5. ASSUME NEW W \in SUBSET U
        PROVE  SumOf(f, W) \in Fraction
    <3>1. IsFiniteSet(W)
      BY <2>4, FS_Subset
    <3> QED
      BY <3>1, SumIsAmount, AmountsAreFractions
  <2>6. f[c] \in Fraction /\ f[x] \in Fraction
    BY <2>1, <2>3, AmountsAreFractions
  <2>7. SumOf(f, U) = Plus(f[c], SumOf(f, U \ {c}))
    BY <2>1, <2>2, <2>4, SumOfStep
  <2>8. CASE c = x
    BY <2>5, <2>6, <2>7, <2>8, PlusIsFraction, AtMostItself DEF Same
  <2>9. CASE c # x
    <3>1. PICK V : V = U \ {c, x}
      OBVIOUS
    <3>2. V = (U \ {c}) \ {x} /\ V = (U \ {x}) \ {c} /\ V \in SUBSET U
      BY <3>1
    <3>3. Same(SumOf(f, U \ {c}), Plus(f[x], SumOf(f, V)))
      <4>1. U \ {c} \in SUBSET U /\ U \ {c} # U /\ x \in U \ {c}
        BY <2>1, <2>3, <2>9
      <4> QED
        BY <1>1, <3>2, <4>1
    <3>4. Same(SumOf(f, U \ {x}), Plus(f[c], SumOf(f, V)))
      <4>1. U \ {x} \in SUBSET U /\ U \ {x} # U /\ c \in U \ {x}
        BY <2>1, <2>3, <2>9
      <4> QED
        BY <1>1, <3>2, <4>1
    <3>5. PICK u, v, w : u = SumOf(f, U \ {c}) /\ v = SumOf(f, U \ {x}) /\ w = SumOf(f, V)
      OBVIOUS
    <3>6. u \in Fraction /\ v \in Fraction /\ w \in Fraction
      BY <2>5, <3>2, <3>5
    <3>7. Same(Plus(f[c], u), Plus(f[x], v))
      BY <2>6, <3>3, <3>4, <3>5, <3>6, Exchanged
    <3> QED
      BY <2>7, <3>5, <3>7
  <2> QED
    BY <2>8, <2>9
<1>2. SUBSET S \subseteq Good
  <2> HIDE DEF Good
  <2> QED
    BY <1>1, FiniteInduction
<1> QED
  BY <1>2

\* A sum of fewer amounts is not more.
LEMMA SumOfFewer ==
  ASSUME NEW f, NEW S, IsFiniteSet(S), \A x \in S : f[x] \in Amount, NEW T \in SUBSET S
  PROVE  AtMost(SumOf(f, T), SumOf(f, S))
<1> DEFINE Good == {U \in SUBSET S : T \subseteq U => AtMost(SumOf(f, T), SumOf(f, U))}
<1>1. ASSUME NEW U \in SUBSET S, \A W \in SUBSET U : W # U => W \in Good
      PROVE  U \in Good
  <2>1. SUFFICES ASSUME T \subseteq U
                 PROVE  AtMost(SumOf(f, T), SumOf(f, U))
    OBVIOUS
  <2>2. IsFiniteSet(U)
    BY FS_Subset
  <2>3. ASSUME NEW W \in SUBSET U
        PROVE  SumOf(f, W) \in Fraction
    <3>1. IsFiniteSet(W)
      BY <2>2, FS_Subset
    <3> QED
      BY <3>1, SumIsAmount, AmountsAreFractions
  <2>4. CASE T = U
    BY <2>3, <2>4, AtMostItself
  <2>5. CASE T # U
    <3>1. PICK x \in U : x \notin T
      BY <2>1, <2>5
    <3>2. f[x] \in Fraction /\ f[x][1] >= 0
      BY AmountsAreFractions
    <3>3. PICK t, v, u : t = SumOf(f, T) /\ v = SumOf(f, U \ {x}) /\ u = SumOf(f, U)
      OBVIOUS
    <3>4. t \in Fraction /\ v \in Fraction /\ u \in Fraction /\ Plus(f[x], v) \in Fraction
      BY <2>1, <2>3, <3>2, <3>3, PlusIsFraction
    <3>5. AtMost(t, v)
      <4>1. U \ {x} \in SUBSET U /\ U \ {x} # U /\ T \subseteq U \ {x}
        BY <2>1, <3>1
      <4> QED
        BY <1>1, <3>3, <4>1
    <3>6. AtMost(v, Plus(f[x], v))
      BY <3>2, <3>4, PlusGrows
    <3>7. AtMost(Plus(f[x], v), u)
      BY <2>2, <3>1, <3>3, SumWithout DEF Same
    <3>8. AtMost(t, Plus(f[x], v))
      BY <3>2, <3>4, <3>5, <3>6, AtMostIsTransitive
    <3>9. AtMost(t, u)
      BY <3>4, <3>7, <3>8, AtMostIsTransitive
    <3> QED
      BY <3>3, <3>9
  <2> QED
    BY <2>4, <2>5
<1>2. SUBSET S \subseteq Good
  <2> HIDE DEF Good
  <2> QED
    BY <1>1, FiniteInduction
<1> QED
  BY <1>2

\* A sum over a set with one element more is at most that element and the sum.
LEMMA SumOfOneMore ==
  ASSUME NEW f, NEW S, IsFiniteSet(S), NEW p, \A x \in S \cup {p} : f[x] \in Amount
  PROVE  AtMost(SumOf(f, S \cup {p}), Plus(f[p], SumOf(f, S)))
<1>1. SumOf(f, S) \in Fraction /\ f[p] \in Fraction /\ f[p][1] >= 0
  BY SumIsAmount, AmountsAreFractions
<1>2. CASE p \in S
  <2>1. S \cup {p} = S
    BY <1>2
  <2> QED
    BY <1>1, <2>1, PlusGrows
<1>3. CASE p \notin S
  <2>1. PICK U : U = S \cup {p}
    OBVIOUS
  <2>2. IsFiniteSet(U) /\ p \in U /\ U \ {p} = S
    BY <1>3, <2>1, FS_AddElement
  <2>3. Same(SumOf(f, U), Plus(f[p], SumOf(f, S)))
    BY <2>1, <2>2, SumWithout
  <2> QED
    BY <2>1, <2>3 DEF Same
<1> QED
  BY <1>2, <1>3

-----------------------------------------------------------------------------
(***************************************************************************)
(* Resources of nodes and pods (algorithms/base.py).                       *)
(***************************************************************************)

Ratio(n) == calculate_read_write_ratio(Capacity[n])

\* Vectors of resources.
Vectors == [Dimensions -> Amount]

\* The ratio of reads to writes of a node, if it has one, is positive.
LEMMA RatioIsPositive ==
  ASSUME NEW n \in Nodes, Ratio(n) # NoRatio
  PROVE  /\ Ratio(n) \in Amount
         /\ Ratio(n)[1] > 0
         /\ {"membw_read", "membw_write"} \subseteq Dimensions
<1>1. /\ DOMAIN Capacity[n] = Dimensions
      /\ \A d \in Dimensions : Capacity[n][d] \in Amount
  BY ResourcesAssumption
<1>2. "membw_read" \in Dimensions
  BY <1>1 DEF Ratio, calculate_read_write_ratio
<1>3. "membw_write" \in Dimensions
  BY <1>2, AlgorithmAssumption
<1>4. Capacity[n]["membw_read"][1] > 0 /\ Capacity[n]["membw_write"][1] > 0
  BY <1>2, <1>3, ResourcesAssumption
<1>5. PICK x \in Amount, y \in Amount :
        /\ x = Capacity[n]["membw_read"] /\ x[1] > 0
        /\ y = Capacity[n]["membw_write"] /\ y[1] > 0
  BY <1>1, <1>2, <1>3, <1>4
<1>6. Ratio(n) = Times(x, <<y[2], y[1]>>) /\ <<y[2], y[1]>> \in Amount /\ y[2] > 0
  BY <1>1, <1>2, <1>5, OverIsTimes DEF Ratio, calculate_read_write_ratio
<1>7. Ratio(n) \in Amount /\ Ratio(n)[1] # 0
  BY <1>5, <1>6, TimesIsAmount
<1> QED
  BY <1>2, <1>3, <1>7 DEF Amount

\* What a vector takes is not negative, is nothing if it is nothing, and is more
\* if it is more.
LEMMA TakenIsAmount ==
  ASSUME NEW n \in Nodes, NEW d \in Dimensions, NEW v \in Vectors
  PROVE  Taken(v, d, Ratio(n)) \in Amount
<1>1. PICK r : r = Ratio(n)
  OBVIOUS
<1>2. \A e \in Dimensions : v[e] \in Amount
  BY DEF Vectors
<1>3. CASE d = "membw_read" /\ r # NoRatio
  <2>1. r \in Amount /\ v["membw_write"] \in Amount
    BY <1>1, <1>2, <1>3, RatioIsPositive
  <2>2. Taken(v, d, r) = Plus(v[d], Times(v["membw_write"], r))
    BY <1>3 DEF Taken
  <2> QED
    BY <1>1, <1>2, <2>1, <2>2, TimesIsAmount, PlusIsAmount
<1>4. CASE d = "membw_write" /\ r # NoRatio
  <2>1. r \in Amount /\ r[1] > 0 /\ v["membw_read"] \in Amount
    BY <1>1, <1>2, <1>4, RatioIsPositive
  <2>2. Taken(v, d, r) = Plus(v[d], Over(v["membw_read"], r))
    BY <1>4 DEF Taken
  <2>3. Over(v["membw_read"], r) \in Amount
    <3>1. PICK i : i = <<r[2], r[1]>>
      OBVIOUS
    <3>2. i \in Amount /\ Over(v["membw_read"], r) = Times(v["membw_read"], i)
      BY <2>1, <3>1, OverIsTimes
    <3> QED
      BY <2>1, <3>2, TimesIsAmount
  <2> QED
    BY <1>1, <1>2, <2>2, <2>3, PlusIsAmount
<1>5. CASE r = NoRatio \/ d \notin {"membw_read", "membw_write"}
  <2>1. Taken(v, d, r) = v[d]
    BY <1>5 DEF Taken
  <2> QED
    BY <1>1, <1>2, <2>1
<1> QED
  BY <1>3, <1>4, <1>5

\* What is more takes more.
LEMMA MoreIsTaken ==
  ASSUME NEW n \in Nodes, NEW d \in Dimensions, NEW v \in Vectors, NEW w \in Vectors,
         \A e \in Dimensions : AtMost(v[e], w[e])
  PROVE  AtMost(Taken(v, d, Ratio(n)), Taken(w, d, Ratio(n)))
<1>1. PICK r : r = Ratio(n)
  OBVIOUS
<1>2. \A e \in Dimensions : /\ v[e] \in Amount /\ w[e] \in Amount
                            /\ v[e] \in Fraction /\ w[e] \in Fraction
  BY AmountsAreFractions DEF Vectors
<1>3. CASE d = "membw_read" /\ r # NoRatio
  <2>1. r \in Amount /\ "membw_write" \in Dimensions
    BY <1>1, <1>3, RatioIsPositive
  <2>2. PICK x, y : x = v["membw_write"] /\ y = w["membw_write"]
    OBVIOUS
  <2>3. x \in Fraction /\ y \in Fraction /\ AtMost(x, y) /\ x \in Amount /\ y \in Amount
    BY <1>2, <2>1, <2>2
  <2>4. AtMost(Times(x, r), Times(y, r))
    BY <2>1, <2>3, TimesIsMonotone
  <2>5. Times(x, r) \in Fraction /\ Times(y, r) \in Fraction
    BY <2>1, <2>3, TimesIsAmount, AmountsAreFractions
  <2>6. AtMost(Plus(v[d], Times(x, r)), Plus(w[d], Times(y, r)))
    BY <1>2, <2>4, <2>5, PlusOfBoth
  <2> QED
    BY <1>1, <1>3, <2>2, <2>6 DEF Taken
<1>4. CASE d = "membw_write" /\ r # NoRatio
  <2>1. r \in Amount /\ r[1] > 0 /\ "membw_read" \in Dimensions
    BY <1>1, <1>4, RatioIsPositive
  <2>2. PICK x, y : x = v["membw_read"] /\ y = w["membw_read"]
    OBVIOUS
  <2>3. x \in Fraction /\ y \in Fraction /\ AtMost(x, y) /\ x \in Amount /\ y \in Amount
    BY <1>2, <2>1, <2>2
  <2>4. PICK i : i = <<r[2], r[1]>>
    OBVIOUS
  <2>5. i \in Amount /\ Over(x, r) = Times(x, i) /\ Over(y, r) = Times(y, i)
    BY <2>1, <2>4, OverIsTimes
  <2>6. AtMost(Times(x, i), Times(y, i))
    BY <2>3, <2>5, TimesIsMonotone
  <2>7. Times(x, i) \in Fraction /\ Times(y, i) \in Fraction
    BY <2>3, <2>5, TimesIsAmount, AmountsAreFractions
  <2>8. AtMost(Plus(v[d], Times(x, i)), Plus(w[d], Times(y, i)))
    BY <1>2, <2>6, <2>7, PlusOfBoth
  <2> QED
    BY <1>1, <1>4, <2>2, <2>5, <2>8 DEF Taken
<1>5. CASE r = NoRatio \/ d \notin {"membw_read", "membw_write"}
  BY <1>1, <1>5 DEF Taken
<1> QED
  BY <1>3, <1>4, <1>5
\* Nothing is taken by nothing.
LEMMA NothingIsTaken ==
  ASSUME NEW n \in Nodes, NEW d \in Dimensions, NEW v \in Vectors,
         \A e \in Dimensions : v[e][1] = 0
  PROVE  Taken(v, d, Ratio(n))[1] = 0
<1>1. PICK r : r = Ratio(n)
  OBVIOUS
<1>2. \A e \in Dimensions : v[e] \in Amount /\ v[e][1] = 0
  BY DEF Vectors
<1>3. CASE d = "membw_read" /\ r # NoRatio
  <2>1. r \in Amount /\ "membw_write" \in Dimensions
    BY <1>1, <1>3, RatioIsPositive
  <2>2. PICK y : y = Times(v["membw_write"], r)
    OBVIOUS
  <2>3. y \in Amount /\ y[1] = 0
    BY <1>2, <2>1, <2>2, TimesIsAmount
  <2>4. Taken(v, d, r) = Plus(v[d], y)
    BY <1>3, <2>2 DEF Taken
  <2> QED
    BY <1>1, <1>2, <2>3, <2>4, PlusOfNothing
<1>4. CASE d = "membw_write" /\ r # NoRatio
  <2>1. r \in Amount /\ r[1] > 0 /\ "membw_read" \in Dimensions
    BY <1>1, <1>4, RatioIsPositive
  <2>2. PICK y : y = Over(v["membw_read"], r)
    OBVIOUS
  <2>3. PICK i : i = <<r[2], r[1]>>
    OBVIOUS
  <2>4. i \in Amount /\ y = Times(v["membw_read"], i)
    BY <2>1, <2>2, <2>3, OverIsTimes
  <2>5. y \in Amount /\ y[1] = 0
    BY <1>2, <2>1, <2>4, TimesIsAmount
  <2>6. Taken(v, d, r) = Plus(v[d], y)
    BY <1>4, <2>2 DEF Taken
  <2> QED
    BY <1>1, <1>2, <2>5, <2>6, PlusOfNothing
<1>5. CASE r = NoRatio \/ d \notin {"membw_read", "membw_write"}
  BY <1>1, <1>2, <1>5 DEF Taken
<1> QED
  BY <1>3, <1>4, <1>5

\* A node has enough if no more is taken of any of its capacities than there is.
LEMMA EnoughMeans ==
  ASSUME NEW n \in Nodes, NEW v \in Vectors
  PROVE  enough_resources_on_node(Capacity[n], v, Ratio(n)) <=>
           \A d \in Dimensions : AtMost(Taken(v, d, Ratio(n)), Capacity[n][d])
<1>1. PICK r : r = Ratio(n)
  OBVIOUS
<1>2. DOMAIN Capacity[n] = Dimensions
  BY ResourcesAssumption
<1>3. ASSUME NEW d \in Dimensions
      PROVE  ~Less(Minus(Capacity[n][d], Taken(v, d, r)), Zero) <=>
               AtMost(Taken(v, d, r), Capacity[n][d])
  <2>1. PICK c, t : c = Capacity[n][d] /\ t = Taken(v, d, r)
    OBVIOUS
  <2>2. c \in Fraction /\ t \in Fraction
    <3>1. c \in Amount
      BY <2>1, ResourcesAssumption
    <3>2. t \in Amount
      BY <1>1, <2>1, TakenIsAmount
    <3> QED
      BY <3>1, <3>2, AmountsAreFractions
  <2>3. PICK m1 \in Int, m2 \in Nat \ {0} : Minus(c, t) = <<m1, m2>>
    BY <2>2, LessMeans DEF Fraction
  <2>4. AtMost(t, c) <=> m1 >= 0
    <3>1. Less(c, t) <=> ~AtMost(t, c)
      BY <2>2, LessMeans
    <3>2. Less(c, t) <=> m1 < 0
      BY <2>3 DEF Less
    <3> QED
      BY <3>1, <3>2
  <2>5. Less(Minus(c, t), Zero) <=> ~(m1 >= 0)
    <3>1. Zero \in Fraction
      BY DEF Zero, Fraction
    <3>2. Less(Minus(c, t), Zero) <=> ~AtMost(Zero, Minus(c, t))
      BY <2>2, <3>1, LessMeans
    <3>3. AtMost(Zero, Minus(c, t)) <=> 0 * m2 <= m1 * 1
      BY <2>3 DEF AtMost, Zero
    <3> QED
      BY <3>2, <3>3
  <2> QED
    BY <2>1, <2>4, <2>5
<1>4. enough_resources_on_node(Capacity[n], v, r) <=>
        \A d \in Dimensions : ~Less(Minus(Capacity[n][d], Taken(v, d, r)), Zero)
  BY <1>2 DEF enough_resources_on_node, subtract_resources
<1> QED
  BY <1>1, <1>3, <1>4

Usage(pods) == used_resources_on_node(Dimensions, pods, Requested)

\* What each pod requests of dimension d.
Requests(d) == [t \in Tasks |-> Requested[AppOf[t]][d]]

\* Requests are amounts.
LEMMA RequestsAreAmounts ==
  ASSUME NEW d \in Dimensions
  PROVE  \A t \in Tasks : Requests(d)[t] \in Amount /\ Requests(d)[t] = Requested[AppOf[t]][d]
BY ResourcesAssumption DEF Requests

\* What pods use is the sum of their requests.
LEMMA UsageIsSum ==
  ASSUME NEW pods \in SUBSET Tasks
  PROVE  /\ IsFiniteSet(pods)
         /\ Usage(pods) \in Vectors
         /\ \A d \in Dimensions : Usage(pods)[d] = SumOf(Requests(d), pods)
<1>1. IsFiniteSet(pods)
  BY ResourcesAssumption, FS_Subset
<1>2. ASSUME NEW d \in Dimensions
      PROVE  /\ Usage(pods)[d] = SumOf(Requests(d), pods)
             /\ SumOf(Requests(d), pods) \in Amount
  <2>1. Usage(pods)[d] = Total([t \in pods |-> Requested[AppOf[t]][d]])
    BY DEF Usage, used_resources_on_node
  <2>2. [t \in pods |-> Requested[AppOf[t]][d]] = [t \in pods |-> Requests(d)[t]]
    BY RequestsAreAmounts
  <2>3. Total([t \in pods |-> Requests(d)[t]]) = SumOf(Requests(d), pods)
    BY <1>1, RequestsAreAmounts, TotalIsSum
  <2>4. SumOf(Requests(d), pods) \in Amount
    BY <1>1, RequestsAreAmounts, SumIsAmount
  <2> QED
    BY <2>1, <2>2, <2>3, <2>4
<1>3. Usage(pods) = [d \in Dimensions |-> Usage(pods)[d]]
  BY DEF Usage, used_resources_on_node
<1> QED
  BY <1>1, <1>2, <1>3 DEF Vectors

\* Pods fit a node if none of its capacities is exceeded by what they take.
LEMMA FitsMeans ==
  ASSUME NEW n \in Nodes, NEW pods \in SUBSET Tasks
  PROVE  Fits(n, pods) <=>
           \A d \in Dimensions : AtMost(Taken(Usage(pods), d, Ratio(n)), Capacity[n][d])
BY UsageIsSum, EnoughMeans DEF Fits, Usage, Ratio

\* A node with enough for one vector has enough for another that is not more.
LEMMA EnoughForLess ==
  ASSUME NEW n \in Nodes, NEW v \in Vectors, NEW w \in Vectors,
         \A d \in Dimensions : AtMost(v[d], w[d]),
         \A d \in Dimensions : AtMost(Taken(w, d, Ratio(n)), Capacity[n][d])
  PROVE  \A d \in Dimensions : AtMost(Taken(v, d, Ratio(n)), Capacity[n][d])
<1>1. TAKE d \in Dimensions
<1>2. PICK a, b, c : a = Taken(v, d, Ratio(n)) /\ b = Taken(w, d, Ratio(n)) /\ c = Capacity[n][d]
  OBVIOUS
<1>3. a \in Fraction /\ b \in Fraction
  BY <1>2, TakenIsAmount, AmountsAreFractions
<1>4. c \in Fraction
  BY <1>2, ResourcesAssumption, AmountsAreFractions
<1>5. AtMost(a, b)
  BY <1>2, MoreIsTaken
<1>6. AtMost(b, c)
  BY <1>2
<1>7. AtMost(a, c)
  BY <1>3, <1>4, <1>5, <1>6, AtMostIsTransitive
<1> QED
  BY <1>2, <1>7

\* A node has room for no pod,
LEMMA NothingFits == ASSUME NEW n \in Nodes PROVE Fits(n, {})
<1>1. PICK v : v = Usage({})
  OBVIOUS
<1>2. v \in Vectors /\ \A d \in Dimensions : v[d][1] = 0
  <2>1. v \in Vectors /\ \A d \in Dimensions : v[d] = SumOf(Requests(d), {})
    BY <1>1, UsageIsSum
  <2>2. \A d \in Dimensions : SumOf(Requests(d), {}) = Zero
    BY SumOfStep, FS_EmptySet
  <2> QED
    BY <2>1, <2>2 DEF Zero
<1>3. ASSUME NEW d \in Dimensions
      PROVE  AtMost(Taken(v, d, Ratio(n)), Capacity[n][d])
  <2>1. Taken(v, d, Ratio(n)) \in Amount /\ Taken(v, d, Ratio(n))[1] = 0
    BY <1>2, TakenIsAmount, NothingIsTaken
  <2>2. PICK t2 \in Nat \ {0} : Taken(v, d, Ratio(n)) = <<0, t2>>
    BY <2>1 DEF Amount
  <2>3. PICK c1 \in Nat, c2 \in Nat \ {0} : Capacity[n][d] = <<c1, c2>>
    BY ResourcesAssumption DEF Amount
  <2>4. 0 * c2 <= c1 * t2
    BY <2>2, <2>3
  <2> QED
    BY <2>2, <2>3, <2>4 DEF AtMost
<1> QED
  BY <1>1, <1>3, FitsMeans

\* for fewer pods than it has room for,
LEMMA FewerFit ==
  ASSUME NEW n \in Nodes, NEW pods \in SUBSET Tasks, NEW fewer \in SUBSET pods, Fits(n, pods)
  PROVE  Fits(n, fewer)
<1>1. fewer \in SUBSET Tasks
  OBVIOUS
<1>2. PICK v, w : v = Usage(fewer) /\ w = Usage(pods)
  OBVIOUS
<1>3. v \in Vectors /\ w \in Vectors
  BY <1>1, <1>2, UsageIsSum
<1>4. ASSUME NEW d \in Dimensions
      PROVE  AtMost(v[d], w[d])
  <2>1. AtMost(SumOf(Requests(d), fewer), SumOf(Requests(d), pods))
    BY UsageIsSum, RequestsAreAmounts, SumOfFewer
  <2> QED
    BY <1>1, <1>2, <2>1, UsageIsSum
<1>5. \A d \in Dimensions : AtMost(Taken(w, d, Ratio(n)), Capacity[n][d])
  BY <1>2, FitsMeans
<1>6. \A d \in Dimensions : AtMost(Taken(v, d, Ratio(n)), Capacity[n][d])
  BY <1>3, <1>4, <1>5, EnoughForLess
<1> QED
  BY <1>1, <1>2, <1>6, FitsMeans

\* and for a pod more if there is enough for what app_fits adds to what is used.
LEMMA OneMoreFits ==
  ASSUME NEW n \in Nodes, NEW pods \in SUBSET Tasks, NEW p \in Tasks,
         enough_resources_on_node(
           Capacity[n],
           sum_resources(Requested[AppOf[p]],
                         used_resources_on_node(Dimensions, pods, Requested)),
           calculate_read_write_ratio(Capacity[n]))
  PROVE  Fits(n, pods \cup {p})
<1>1. PICK more \in SUBSET Tasks : more = pods \cup {p}
  OBVIOUS
<1>2. PICK v, u, w : /\ v = Usage(more) /\ u = Usage(pods)
                     /\ w = sum_resources(Requested[AppOf[p]], u)
  OBVIOUS
<1>3. v \in Vectors /\ u \in Vectors
  BY <1>2, UsageIsSum
<1>4. /\ DOMAIN w = Dimensions
      /\ \A d \in Dimensions : w[d] = Plus(Requests(d)[p], u[d])
  <2>1. DOMAIN Requested[AppOf[p]] = Dimensions
    BY ResourcesAssumption
  <2> QED
    BY <1>2, <2>1, RequestsAreAmounts DEF sum_resources
<1>5. w \in Vectors
  <2>1. \A d \in Dimensions : w[d] \in Amount
    BY <1>3, <1>4, RequestsAreAmounts, PlusIsAmount DEF Vectors
  <2>2. w = [d \in Dimensions |-> w[d]]
    BY <1>2, <1>4 DEF sum_resources
  <2> QED
    BY <2>1, <2>2 DEF Vectors
<1>6. ASSUME NEW d \in Dimensions
      PROVE  AtMost(v[d], w[d])
  <2>1. AtMost(SumOf(Requests(d), pods \cup {p}),
               Plus(Requests(d)[p], SumOf(Requests(d), pods)))
    BY UsageIsSum, RequestsAreAmounts, SumOfOneMore
  <2>2. v[d] = SumOf(Requests(d), pods \cup {p}) /\ u[d] = SumOf(Requests(d), pods)
    BY <1>1, <1>2, UsageIsSum
  <2> QED
    BY <1>4, <2>1, <2>2
<1>7. \A d \in Dimensions : AtMost(Taken(w, d, Ratio(n)), Capacity[n][d])
  BY <1>2, <1>5, EnoughMeans DEF Usage, Ratio
<1>8. \A d \in Dimensions : AtMost(Taken(v, d, Ratio(n)), Capacity[n][d])
  BY <1>3, <1>5, <1>6, <1>7, EnoughForLess
<1> QED
  BY <1>1, <1>2, <1>8, FitsMeans

\* Only pods are bound.
LEMMA BoundPods == ASSUME NEW n PROVE Bound(n) \subseteq Tasks
BY DEF Bound

\* Neither a node that was chosen nor one that has room loses it when pods go.
LEMMA FewerChosen ==
  ASSUME ignored' = ignored, \A n \in Nodes : Bound(n)' \subseteq Bound(n),
         NEW names, names \subseteq Nodes, NEW blind, NEW p \in Tasks, Chosen(names, blind, p)
  PROVE  Chosen(names, blind, p)'
<1> SUFFICES ASSUME p \notin ignored, NEW n \in names \ blind
             PROVE  Fits(n, (Bound(n)' \ ignored) \cup {p})
    BY DEF Chosen
<1>1. Fits(n, (Bound(n) \ ignored) \cup {p})
    BY DEF Chosen
<1>2. n \in Nodes /\ (Bound(n) \ ignored) \cup {p} \in SUBSET Tasks
    BY BoundPods
<1>3. (Bound(n)' \ ignored) \cup {p} \in SUBSET ((Bound(n) \ ignored) \cup {p})
    BY <1>2
<1> QED
    BY <1>1, <1>2, <1>3, FewerFit

LEMMA FewerSeen ==
  ASSUME ignored' = ignored, \A n \in Nodes : Bound(n)' \subseteq Bound(n),
         NEW r, DOMAIN r.seen \subseteq Nodes, Seen(r)
  PROVE  Seen(r)'
BY DEF Seen

LEMMA FewerRoom ==
  ASSUME ignored' = ignored, unseen' = unseen, \A n \in Nodes : Bound(n)' \subseteq Bound(n),
         Room
  PROVE  Room'
<1> SUFFICES ASSUME NEW n \in Nodes \ unseen PROVE Fits(n, Bound(n)' \ ignored)
    BY DEF Room
<1>1. Fits(n, Bound(n) \ ignored)
    BY DEF Room
<1>2. Bound(n) \ ignored \in SUBSET Tasks /\ Bound(n)' \ ignored \in SUBSET (Bound(n) \ ignored)
    BY BoundPods
<1> QED
    BY <1>1, <1>2, FewerFit

\* What kube-scheduler's request has come to stays true when pods go and its
\* handler goes on as it should.
LEMMA DecisionKept ==
  ASSUME IInv, scheduler' = scheduler, ignored' = ignored,
         \A n \in Nodes : Bound(n)' \subseteq Bound(n),
         scheduler.step # "idle" => handler'[scheduler.on] = handler[scheduler.on]
  PROVE  Decision'
<1>1. CASE scheduler.step = "idle"
    BY <1>1 DEF Decision
<1>2. CASE scheduler.step = "filter"
  <2>1. PICK r : r = handler[scheduler.on]
      OBVIOUS
  <2>2. PICK p : p = scheduler.pod
      OBVIOUS
  <2>3. /\ r.names \subseteq Nodes /\ DOMAIN r.seen \subseteq Nodes /\ p \in Tasks
        /\ handler'[scheduler.on] = r
      BY <1>2, <2>1, <2>2 DEF IInv, Types, Serving, Holds
  <2>4. Seen(r)'
      BY <1>2, <2>1, <2>3, FewerSeen DEF IInv, Decision
  <2>5. r.step \in {"count", "add", "answered"} => Chosen(r.names, r.blind, p)'
      BY <1>2, <2>1, <2>2, <2>3, FewerChosen DEF IInv, Decision
  <2> QED
      BY <1>2, <2>2, <2>3, <2>4, <2>5 DEF Decision
<1>3. CASE scheduler.step = "prioritize"
  <2>1. PICK names, blind, p :
          names = scheduler.names /\ blind = scheduler.blind /\ p = scheduler.pod
      OBVIOUS
  <2>2. names \subseteq Nodes /\ p \in Tasks
      BY <1>3, <2>1 DEF IInv, Types, Serving
  <2>3. Chosen(names, blind, p)'
      BY <1>3, <2>1, <2>2, FewerChosen DEF IInv, Decision
  <2> QED
      BY <1>3, <2>1, <2>3 DEF Decision
<1> QED
    BY <1>1, <1>2, <1>3 DEF IInv, Types

LEMMA InitIInv == Init => IInv
<1> SUFFICES ASSUME Init PROVE IInv
    OBVIOUS
<1>1. Types
  <2>1. Holds(Idle, nodes)
      BY ExtenderAssumption DEF Holds, Idle, Fields
  <2>2. ignored \subseteq Tasks /\ nodes \subseteq Nodes
      BY ExtenderAssumption DEF Init
  <2>3. missing \in [Counters -> 0..MaxMissing]
      BY ExtenderAssumption DEF Init
  <2>4. \A h \in Handlers : handler[h] = Idle
      BY DEF Init
  <2>5. scheduler = Waiting /\ scheduler.step = "idle"
      BY DEF Init, Waiting
  <2>6. DOMAIN scheduler = {"step", "pod", "on", "names", "blind"}
      BY <2>5 DEF Waiting
  <2> QED
      BY <2>1, <2>2, <2>3, <2>4, <2>5, <2>6, ExtenderAssumption DEF Init, Types
<1>2. scheduler.step = "idle"
    BY DEF Init, Waiting
<1>3. Serving /\ Decision
    BY <1>2 DEF Serving, Decision
<1>4. Room
  <2>1. \A n : Bound(n) \ ignored = {}
      BY DEF Init, Bound
  <2> QED
      BY <2>1, NothingFits DEF Room
<1>5. Counting
  <2>1. \A h \in Handlers : handler[h].op = "none" /\ handler[h].step = "done"
                            /\ handler[h].behind = 0
      BY DEF Init, Idle
  <2> QED
      BY <2>1 DEF Init, Counting, Accounted
<1> QED
    BY <1>1, <1>3, <1>4, <1>5 DEF IInv

-----------------------------------------------------------------------------
(***************************************************************************)
(* The handlers.                                                           *)
(***************************************************************************)

\* The counter of a handler is that of its request.
LEMMA CounterOf == ASSUME NEW h \in Handlers PROVE Counter(h) = CountedBy(handler[h])
BY DEF Counter, Ignored, CountedBy

\* A request that goes on is accounted for as it was.
LEMMA StillAccounted ==
  ASSUME NEW r, NEW e, NEW waited, Accounted(r, waited),
         e.op = r.op, e.pod = r.pod, e.behind = r.behind,
         e.step \in {"count", "add"} =>
           \/ r.step \in {"count", "add"}
           \/ r.op \in {"filter", "prioritize"}
  PROVE  Accounted(e, waited)
<1>1. CountedBy(e) = CountedBy(r)
    BY DEF CountedBy
<1> QED
    BY <1>1 DEF Accounted

\* What the rest of the invariant asks of what handler h becomes.
Proceeds(h, e) ==
  /\ Holds(e, nodes)
  /\ scheduler.step # "idle" /\ scheduler.on = h =>
       e.op = handler[h].op /\ e.pod = handler[h].pod
  /\ scheduler.step = "filter" /\ scheduler.on = h =>
       /\ Seen(e)
       /\ e.step \in {"count", "add", "answered"} => Chosen(e.names, e.blind, scheduler.pod)
  /\ Accounted(e, Waited(h))

LEMMA HandlerStep ==
  ASSUME IInv, NEW h \in Handlers, NEW e, Proceeds(h, e),
         handler' = [handler EXCEPT ![h] = e],
         UNCHANGED <<algorithm, ignored, cached, cluster, scheduler, abandoned, missing>>
  PROVE  IInv'
<1> USE DEF cluster
<1>1. /\ DOMAIN handler' = Handlers /\ handler'[h] = e
      /\ \A g \in Handlers : g # h => handler'[g] = handler[g]
    BY DEF IInv, Types
<1>2. Types'
    BY <1>1 DEF IInv, Types, Proceeds
<1>3. Serving'
    BY <1>1 DEF IInv, Serving, Proceeds
<1>4. \A n : Bound(n)' = Bound(n)
    BY DEF Bound
<1>5. Decision'
  <2>1. CASE scheduler.step # "filter" \/ scheduler.on # h
    <3>1. CASE scheduler.step = "prioritize"
        BY <1>4, <3>1 DEF IInv, Decision, Chosen
    <3>2. CASE scheduler.step # "prioritize"
        BY <1>1, <1>4, <2>1, <3>2, DecisionKept DEF IInv, Types, Serving, Decision
    <3> QED
        BY <3>1, <3>2
  <2>2. CASE scheduler.step = "filter" /\ scheduler.on = h
    <3>1. Seen(e)'
        BY <1>4, <2>2 DEF Proceeds, Seen
    <3>2. PICK p : p = scheduler.pod
        OBVIOUS
    <3>3. e.step \in {"count", "add", "answered"} => Chosen(e.names, e.blind, p)'
        BY <1>4, <2>2, <3>2 DEF Proceeds, Chosen
    <3> QED
        BY <1>1, <2>2, <3>1, <3>2, <3>3 DEF Decision
  <2> QED
      BY <2>1, <2>2
<1>6. Room'
    BY <1>4 DEF IInv, Room
<1>7. Counting'
  <2>1. Accounted(e, Waited(h))'
      BY DEF Proceeds, Accounted, CountedBy, Waited
  <2>2. ASSUME NEW g \in Handlers, g # h PROVE Accounted(handler[g], Waited(g))'
    <3>1. PICK r : r = handler[g]
        OBVIOUS
    <3>2. Accounted(r, Waited(g))'
        BY <3>1 DEF IInv, Counting, Accounted, CountedBy, Waited
    <3> QED
        BY <1>1, <2>2, <3>1, <3>2
  <2> QED
      BY <1>1, <2>1, <2>2 DEF IInv, Counting
<1> QED
    BY <1>2, <1>3, <1>5, <1>6, <1>7 DEF IInv

\* A handler that is not deciding and keeps its answer, if it has one, goes on.
LEMMA OnlyStep ==
  ASSUME IInv, NEW h \in Handlers, NEW step, step \notin {"decide", "delete"},
         \/ handler[h].step \in {"count", "add"}
         \/ step \in {"failed", "pods"}
         \/ Ignored(h) /\ step = "count",
         NEW known, known \subseteq nodes, NEW e,
         e = [handler[h] EXCEPT !.step = step, !.known = known]
  PROVE  Proceeds(h, e)
<1>1. Holds(handler[h], nodes)
    BY DEF IInv, Types
<1>2. /\ DOMAIN e = Fields /\ e.step = step /\ e.known = known
      /\ e.op = handler[h].op /\ e.pod = handler[h].pod /\ e.names = handler[h].names
      /\ e.seen = handler[h].seen /\ e.blind = handler[h].blind
      /\ e.behind = handler[h].behind
    BY <1>1 DEF Holds, Fields
<1>3. Holds(e, nodes)
    BY <1>1, <1>2 DEF Holds
<1>4. Seen(e)
    BY <1>2 DEF Seen
<1>5. ASSUME scheduler.step = "filter", scheduler.on = h,
             step \in {"count", "add", "answered"}
      PROVE  Chosen(e.names, e.blind, scheduler.pod)
  <2>1. CASE Ignored(h)
      BY <1>5, <2>1 DEF IInv, Serving, Ignored, Chosen
  <2>2. CASE handler[h].step \in {"count", "add"}
      BY <1>2, <1>5, <2>2 DEF IInv, Decision
  <2> QED
      BY <1>5, <2>1, <2>2
<1>6. Accounted(e, Waited(h))
  <2>1. PICK r : r = handler[h]
      OBVIOUS
  <2>2. Accounted(r, Waited(h))
      BY <2>1 DEF IInv, Counting
  <2>3. step \in {"count", "add"} =>
          \/ r.step \in {"count", "add"}
          \/ r.op \in {"filter", "prioritize"}
      BY <2>1 DEF Ignored
  <2> QED
      BY <1>2, <2>1, <2>2, <2>3 DEF Accounted, CountedBy
<1> QED
    BY <1>2, <1>3, <1>4, <1>5, <1>6 DEF Proceeds

LEMMA ReadNodesStep == ASSUME IInv, NEW h \in Handlers, ReadNodes(h) PROVE IInv'
<1>0. Holds(handler[h], nodes) /\ DOMAIN handler[h] = Fields
    BY DEF IInv, Types, Holds
<1>1. PICK e : e = IF Ignored(h) THEN [handler[h] EXCEPT !.step = "count"]
                   ELSE [handler[h] EXCEPT !.step = "pods", !.known = nodes]
    OBVIOUS
<1>2. handler' = [handler EXCEPT ![h] = e]
    BY <1>1 DEF ReadNodes
<1>3. CASE Ignored(h)
  <2>1. e = [handler[h] EXCEPT !.step = "count", !.known = handler[h].known]
      BY <1>0, <1>1, <1>3 DEF Fields
  <2>2. Proceeds(h, e)
      BY <1>0, <1>3, <2>1, OnlyStep DEF Holds
  <2> QED
      BY <1>2, <2>2, HandlerStep DEF ReadNodes, others, bounds
<1>4. CASE ~Ignored(h)
  <2>1. Proceeds(h, e)
      BY <1>1, <1>4, OnlyStep
  <2> QED
      BY <1>2, <2>1, HandlerStep DEF ReadNodes, others, bounds
<1> QED
    BY <1>3, <1>4

LEMMA ReadPodsStep == ASSUME IInv, NEW h \in Handlers, ReadPods(h) PROVE IInv'
<1>0. Holds(handler[h], nodes) /\ DOMAIN handler[h] = Fields
    BY DEF IInv, Types, Holds
<1>1. PICK counted : counted = {p \in Tasks \ ignored : Counts(p)}
    OBVIOUS
<1>2. PICK seen : seen = [n \in handler[h].known |-> {p \in counted : on[p] = n}]
    OBVIOUS
<1>3. PICK blind : blind = {on[p] : p \in {r \in Tasks \ ignored : pod[r] = "bound"} \ counted}
    OBVIOUS
<1>4. PICK e : e = [handler[h] EXCEPT !.step = "decide", !.seen = seen, !.blind = blind]
    OBVIOUS
<1>5. PICK f : f = [handler[h] EXCEPT !.step = "failed"]
    OBVIOUS
<1>6. handler' = [handler EXCEPT ![h] = e] \/ handler' = [handler EXCEPT ![h] = f]
    BY <1>1, <1>2, <1>3, <1>4, <1>5 DEF ReadPods
<1>7. CASE handler' = [handler EXCEPT ![h] = e]
  <2>1. /\ DOMAIN e = Fields /\ e.step = "decide" /\ e.seen = seen /\ e.blind = blind
        /\ e.op = handler[h].op /\ e.pod = handler[h].pod /\ e.names = handler[h].names
        /\ e.known = handler[h].known /\ e.behind = handler[h].behind
      BY <1>0, <1>4 DEF Fields
  <2>2. DOMAIN seen \subseteq nodes /\ \A n \in DOMAIN seen : seen[n] \subseteq Tasks
      BY <1>0, <1>1, <1>2 DEF Holds
  <2>3. Holds(e, nodes)
      BY <1>0, <2>1, <2>2 DEF Holds
  <2>4. Seen(e)
    <3> SUFFICES ASSUME NEW n \in DOMAIN seen \ blind, NEW p \in Bound(n) \ ignored
                 PROVE  p \in seen[n]
        BY <2>1 DEF Seen
    <3>1. p \in Tasks \ ignored /\ on[p] = n /\ pod[p] \in {"bound", "running"}
        BY DEF Bound
    <3>2. pod[p] # "bound"
        BY <1>1, <1>3, <3>1 DEF Counts
    <3> QED
        BY <1>1, <1>2, <3>1, <3>2 DEF Counts
  <2>5. Proceeds(h, e)
    <3>1. Accounted(handler[h], Waited(h))
        BY DEF IInv, Counting
    <3>2. Accounted(e, Waited(h))
        BY <2>1, <3>1, StillAccounted
    <3> QED
        BY <2>1, <2>3, <2>4, <3>2 DEF Proceeds
  <2> QED
      BY <1>7, <2>5, HandlerStep DEF ReadPods, others, bounds
<1>8. CASE handler' = [handler EXCEPT ![h] = f]
  <2>1. f = [handler[h] EXCEPT !.step = "failed", !.known = handler[h].known]
      BY <1>0, <1>5 DEF Fields
  <2>2. Proceeds(h, f)
      BY <1>0, <2>1, OnlyStep DEF Holds
  <2> QED
      BY <1>8, <2>2, HandlerStep DEF ReadPods, others, bounds
<1> QED
    BY <1>6, <1>7, <1>8

\* What Fit and Score accept are nodes of the request that have room for the pod
\* next to the pods that were seen.
LEMMA Accepted ==
  ASSUME IInv, NEW h \in Handlers, NEW q, q = Query(h), ~Raises(q, h),
         NEW answer \in filter(algorithm, q, handler[h].names, AppOf[handler[h].pod])
  PROVE  /\ answer.NodeNames \subseteq handler[h].names
         /\ \A n \in answer.NodeNames :
              /\ n \in DOMAIN handler[h].seen
              /\ handler[h].pod \in Tasks => Fits(n, handler[h].seen[n] \cup {handler[h].pod})
<1>1. PICK app : app = AppOf[handler[h].pod]
    OBVIOUS
<1>2. PICK first : first = {n \in handler[h].names : app_fit_node(algorithm, q, n, app)}
    OBVIOUS
<1>3. answer.NodeNames \subseteq first
  <2>1. PICK second \in IF first = {} THEN {{}} ELSE app_fit_nodes(algorithm, q, first, app) :
          answer.NodeNames = second
      BY <1>1, <1>2 DEF filter
  <2>2. CASE first = {}
      BY <2>1, <2>2
  <2>3. CASE first # {} /\ algorithm = "Fit"
      BY <2>1, <2>3 DEF app_fit_nodes
  <2>4. CASE first # {} /\ algorithm = "Score"
    <3>1. second = score_app_fit_nodes(q, first, app)
        BY <2>1, <2>4 DEF app_fit_nodes
    <3> QED
        BY <2>1, <3>1 DEF score_app_fit_nodes
  <2> QED
      BY <2>2, <2>3, <2>4 DEF IInv, Types
<1>4. ASSUME NEW n \in first
      PROVE  /\ n \in DOMAIN handler[h].seen
             /\ handler[h].pod \in Tasks => Fits(n, handler[h].seen[n] \cup {handler[h].pod})
  <2>1. ~DataMissing(q, n, app)
      BY <1>1, <1>2, <1>4 DEF Raises
  <2>2. /\ q.capacities = [m \in nodes |-> Capacity[m]] /\ q.assigned = handler[h].seen
        /\ q.spec = Requested /\ q.pmem = {}
      BY DEF Query, get_nodes_capacities, get_apps_requested_resources
  <2>3. n \in nodes /\ n \in DOMAIN handler[h].seen /\ q.capacities[n] = Capacity[n]
      BY <2>1, <2>2 DEF DataMissing
  <2>4. fit_app_fit_node(q, n, app)
      BY <1>2, <1>4 DEF IInv, Types, app_fit_node, score_app_fit_node
  <2>5. app_fits(q, n, app, Capacity[n])
      BY <2>2, <2>3, <2>4 DEF fit_app_fit_node
  <2>6. enough_resources_on_node(
          Capacity[n],
          sum_resources(Requested[app],
                        used_resources_on_node(Dimensions, handler[h].seen[n], Requested)),
          calculate_read_write_ratio(Capacity[n]))
      BY <2>2, <2>5 DEF app_fits, requested_and_used
  <2>7. n \in Nodes /\ handler[h].seen[n] \in SUBSET Tasks
      BY <2>3 DEF IInv, Types, Holds
  <2> QED
      BY <1>1, <2>3, <2>6, <2>7, OneMoreFits
<1> QED
    BY <1>2, <1>3, <1>4

LEMMA FilterStep == ASSUME IInv, NEW h \in Handlers, Filter(h) PROVE IInv'
<1>0. Holds(handler[h], nodes) /\ DOMAIN handler[h] = Fields
    BY DEF IInv, Types, Holds
<1>1. PICK q : /\ q = Query(h)
               /\ IF Raises(q, h) THEN handler' = [handler EXCEPT ![h].step = "failed"]
                  ELSE \E answer \in filter(algorithm, q, handler[h].names,
                                            AppOf[handler[h].pod]) :
                       handler' = [handler EXCEPT ![h] =
                         [@ EXCEPT !.step = "count", !.names = answer.NodeNames,
                                   !.known = {}, !.seen = <<>>]]
    BY DEF Filter
<1>2. CASE Raises(q, h)
  <2>1. PICK e : e = [handler[h] EXCEPT !.step = "failed", !.known = handler[h].known]
      OBVIOUS
  <2>2. Proceeds(h, e)
      BY <1>0, <2>1, OnlyStep DEF Holds
  <2>3. e = [handler[h] EXCEPT !.step = "failed"]
      BY <1>0, <2>1 DEF Fields
  <2>4. handler' = [handler EXCEPT ![h] = e]
      BY <1>1, <1>2, <2>3
  <2> QED
      BY <2>2, <2>4, HandlerStep DEF Filter, others, bounds
<1>3. CASE ~Raises(q, h)
  <2>1. PICK answer \in filter(algorithm, q, handler[h].names, AppOf[handler[h].pod]) :
          handler' = [handler EXCEPT ![h] =
            [@ EXCEPT !.step = "count", !.names = answer.NodeNames,
                      !.known = {}, !.seen = <<>>]]
      BY <1>1, <1>3
  <2>2. PICK names : names = answer.NodeNames
      OBVIOUS
  <2>3. PICK e : e = [handler[h] EXCEPT !.step = "count", !.names = names,
                                        !.known = {}, !.seen = <<>>]
      OBVIOUS
  <2>4. handler' = [handler EXCEPT ![h] = e]
      BY <2>1, <2>2, <2>3
  <2>5. /\ names \subseteq handler[h].names
        /\ \A n \in names :
             /\ n \in DOMAIN handler[h].seen
             /\ handler[h].pod \in Tasks => Fits(n, handler[h].seen[n] \cup {handler[h].pod})
      BY <1>1, <1>3, <2>2, Accepted
  <2>6. /\ DOMAIN e = Fields /\ e.step = "count" /\ e.names = names /\ e.known = {}
        /\ e.seen = <<>> /\ e.op = handler[h].op /\ e.pod = handler[h].pod
        /\ e.blind = handler[h].blind /\ e.behind = handler[h].behind
      BY <1>0, <2>3 DEF Fields
  <2>7. Holds(e, nodes)
      BY <1>0, <2>5, <2>6 DEF Holds
  <2>8. ASSUME scheduler.step = "filter", scheduler.on = h
        PROVE  Chosen(e.names, e.blind, scheduler.pod)
    <3>1. PICK p : p = scheduler.pod
        OBVIOUS
    <3>2. p \in Tasks /\ handler[h].pod = p
        BY <2>8, <3>1 DEF IInv, Serving
    <3>3. ASSUME NEW n \in names \ handler[h].blind
          PROVE  Fits(n, (Bound(n) \ ignored) \cup {p})
      <4>1. n \in DOMAIN handler[h].seen /\ Fits(n, handler[h].seen[n] \cup {p})
          BY <2>5, <3>2, <3>3
      <4>2. handler[h].step = "decide"
          BY DEF Filter
      <4>3. Bound(n) \ ignored \subseteq handler[h].seen[n]
          BY <2>8, <3>3, <4>1, <4>2 DEF IInv, Decision, Seen
      <4>4. n \in Nodes /\ handler[h].seen[n] \cup {p} \in SUBSET Tasks
          BY <1>0, <3>2, <4>1 DEF IInv, Types, Holds
      <4>5. (Bound(n) \ ignored) \cup {p} \in SUBSET (handler[h].seen[n] \cup {p})
          BY <4>3
      <4> QED
          BY <4>1, <4>4, <4>5, FewerFit
    <3> QED
        BY <2>6, <3>1, <3>3 DEF Chosen
  <2>9. Seen(e)
      BY <2>6 DEF Seen
  <2>10. e.op = "filter"
      BY <2>6 DEF Filter
  <2>11. Proceeds(h, e)
    <3>1. Accounted(handler[h], Waited(h))
        BY DEF IInv, Counting
    <3>2. Accounted(e, Waited(h))
        BY <2>6, <2>10, <3>1, StillAccounted
    <3> QED
        BY <2>6, <2>7, <2>8, <2>9, <3>2 DEF Proceeds
  <2> QED
      BY <2>4, <2>11, HandlerStep DEF Filter, others, bounds
<1> QED
    BY <1>2, <1>3

LEMMA PrioritizeStep == ASSUME IInv, NEW h \in Handlers, Prioritize(h) PROVE IInv'
<1>0. Holds(handler[h], nodes) /\ DOMAIN handler[h] = Fields
    BY DEF IInv, Types, Holds
<1>1. PICK e : e = [handler[h] EXCEPT !.step = "count", !.names = {}, !.known = {},
                                      !.seen = <<>>]
    OBVIOUS
<1>2. handler' = [handler EXCEPT ![h] = e]
    BY <1>1 DEF Prioritize
<1>3. /\ DOMAIN e = Fields /\ e.step = "count" /\ e.names = {} /\ e.known = {}
      /\ e.seen = <<>> /\ e.op = handler[h].op /\ e.pod = handler[h].pod
      /\ e.blind = handler[h].blind /\ e.behind = handler[h].behind
    BY <1>0, <1>1 DEF Fields
<1>4. Holds(e, nodes)
    BY <1>0, <1>3 DEF Holds
<1>5. Seen(e) /\ Chosen(e.names, e.blind, scheduler.pod)
    BY <1>3 DEF Seen, Chosen
<1>6. Accounted(e, Waited(h))
  <2>1. Accounted(handler[h], Waited(h)) /\ handler[h].op = "prioritize"
      BY DEF IInv, Counting, Prioritize
  <2> QED
      BY <1>3, <2>1, StillAccounted
<1>7. Proceeds(h, e)
    BY <1>3, <1>4, <1>5, <1>6 DEF Proceeds
<1> QED
    BY <1>2, <1>7, HandlerStep DEF Prioritize, others, bounds

LEMMA CountReadStep == ASSUME IInv, NEW h \in Handlers, CountRead(h) PROVE IInv'
<1>0. Holds(handler[h], nodes) /\ DOMAIN handler[h] = Fields
    BY DEF IInv, Types, Holds
<1>1. PICK e : e = [handler[h] EXCEPT !.step = "add", !.known = handler[h].known]
    OBVIOUS
<1>2. e = [handler[h] EXCEPT !.step = "add"]
    BY <1>0, <1>1 DEF Fields
<1>3. handler' = [handler EXCEPT ![h] = e]
    BY <1>2 DEF CountRead
<1>4. handler[h].step = "count"
    BY DEF CountRead
<1>5. Proceeds(h, e)
    BY <1>0, <1>1, <1>4, OnlyStep DEF Holds
<1> QED
    BY <1>3, <1>5, HandlerStep DEF CountRead, others, bounds

LEMMA RescheduleStep == ASSUME IInv, NEW h \in Handlers, Reschedule(h) PROVE IInv'
<1>0. /\ Holds(handler[h], nodes) /\ DOMAIN handler[h] = Fields
      /\ handler[h].op = "reschedule"
    BY DEF IInv, Types, Holds, Reschedule
<1>1. PICK todo, step : 
        /\ step \in {"failed", "answered", "delete"}
        /\ handler' = [handler EXCEPT ![h] = [handler[h] EXCEPT !.todo = todo, !.step = step]]
  <2>1. CASE LookupRaises(h)
    <3>1. [handler[h] EXCEPT !.todo = handler[h].todo, !.step = "failed"]
            = [handler[h] EXCEPT !.step = "failed"]
        BY <1>0 DEF Fields
    <3>2. handler' = [handler EXCEPT ![h] = [handler[h] EXCEPT !.step = "failed"]]
        BY <2>1 DEF Reschedule
    <3> QED
        BY <3>1, <3>2
  <2>2. CASE ~LookupRaises(h)
    <3>1. PICK result : result = reschedule(algorithm, Query(h))
        OBVIOUS
    <3>2. PICK step : step = IF result = <<>> THEN "answered" ELSE "delete"
        OBVIOUS
    <3>3. handler' = [handler EXCEPT ![h] = [handler[h] EXCEPT !.todo = result, !.step = step]]
        BY <2>2, <3>1, <3>2 DEF Reschedule
    <3> QED
        BY <3>2, <3>3
  <2> QED
      BY <2>1, <2>2
<1>2. PICK e : e = [handler[h] EXCEPT !.todo = todo, !.step = step]
    OBVIOUS
<1>3. /\ DOMAIN e = Fields /\ e.step = step /\ e.names = handler[h].names
      /\ e.known = handler[h].known /\ e.seen = handler[h].seen
      /\ e.op = "reschedule" /\ e.pod = handler[h].pod
      /\ e.blind = handler[h].blind /\ e.behind = handler[h].behind
    BY <1>0, <1>2 DEF Fields
<1>4. Holds(e, nodes)
    BY <1>0, <1>3 DEF Holds
<1>5. ~(scheduler.step = "filter" /\ scheduler.on = h)
    BY <1>0 DEF IInv, Serving
<1>6. Accounted(e, Waited(h))
  <2>1. Accounted(handler[h], Waited(h))
      BY DEF IInv, Counting
  <2> QED
      BY <1>0, <1>1, <1>3, <2>1, StillAccounted
<1>7. Proceeds(h, e)
    BY <1>0, <1>1, <1>3, <1>4, <1>5, <1>6 DEF Proceeds
<1> QED
    BY <1>1, <1>2, <1>7, HandlerStep DEF Reschedule, others, bounds

\* What writing a counter leaves alone in a handler.
Keeps(e, r) ==
  /\ DOMAIN e = Fields
  /\ e.op = r.op /\ e.pod = r.pod /\ e.names = r.names /\ e.known = r.known
  /\ e.seen = r.seen /\ e.blind = r.blind
  /\ e.step = r.step \/ (r.step = "add" /\ e.step = "answered")
  /\ e.behind \in 0..MaxMissing

LEMMA CountWriteStep == ASSUME IInv, NEW h \in Handlers, CountWrite(h) PROVE IInv'
<1> DEFINE Capped(n) == IF n > MaxMissing THEN MaxMissing ELSE n
           c == Counter(h)
           Others(g) == g # h /\ handler[g].step = "add" /\ Counter(g) = c
<1>1. /\ handler[h].step = "add"
      /\ missing' = [missing EXCEPT ![c] = Capped(@ + handler[h].behind)]
      /\ handler' = [g \in Handlers |->
           CASE g = h -> [handler[h] EXCEPT !.step = "answered", !.behind = 0]
             [] Others(g) -> [handler[g] EXCEPT !.behind = Capped(@ + 1)]
             [] OTHER -> handler[g]]
      /\ UNCHANGED others
    BY DEF CountWrite, Overwrites, SameMetric
<1>2. \A n \in Nat : Capped(n) \in 0..MaxMissing
    BY ExtenderAssumption
<1>3. ASSUME NEW g \in Handlers
      PROVE  handler[g].behind \in Nat /\ handler[g].behind \in 0..MaxMissing
             /\ Holds(handler[g], nodes) /\ DOMAIN handler[g] = Fields
    BY ExtenderAssumption DEF IInv, Types, Holds
<1> HIDE DEF Capped, c
<1>4. ASSUME NEW g \in Handlers PROVE Keeps(handler'[g], handler[g])
  <2>1. CASE g = h
    <3>1. PICK e : e = [handler[h] EXCEPT !.step = "answered", !.behind = 0]
        OBVIOUS
    <3>2. handler'[g] = e
        BY <1>1, <2>1, <3>1
    <3>3. Keeps(e, handler[h])
        BY <1>1, <1>3, <3>1, ExtenderAssumption DEF Keeps, Fields
    <3> QED
        BY <2>1, <3>2, <3>3
  <2>2. CASE g # h /\ Others(g)
    <3>1. PICK v : v = Capped(handler[g].behind + 1)
        OBVIOUS
    <3>2. v \in 0..MaxMissing
        BY <1>2, <1>3, <3>1
    <3>3. PICK e : e = [handler[g] EXCEPT !.behind = v]
        OBVIOUS
    <3>4. handler'[g] = e
        BY <1>1, <2>2, <3>1, <3>3
    <3>5. Keeps(e, handler[g])
        BY <1>3, <3>2, <3>3 DEF Keeps, Fields
    <3> QED
        BY <3>4, <3>5
  <2>3. CASE g # h /\ ~Others(g)
    <3>1. handler'[g] = handler[g]
        BY <1>1, <2>3
    <3> QED
        BY <1>3, <3>1 DEF Keeps
  <2> QED
      BY <2>1, <2>2, <2>3
<1>5. Types'
  <2>1. missing' \in [Counters -> 0..MaxMissing]
    <3>1. PICK v : v = Capped(missing[c] + handler[h].behind)
        OBVIOUS
    <3>2. missing' = [missing EXCEPT ![c] = v]
        BY <1>1, <3>1
    <3>3. c \in Counters => v \in 0..MaxMissing
      <4>1. c \in Counters => missing[c] \in Nat
          BY ExtenderAssumption DEF IInv, Types
      <4> QED
          BY <1>2, <1>3, <3>1, <4>1
    <3> QED
        BY <3>2, <3>3 DEF IInv, Types
  <2>2. DOMAIN handler' = Handlers
      BY <1>1
  <2>3. \A g \in Handlers : Holds(handler'[g], nodes)
      BY <1>3, <1>4 DEF Keeps, Holds
  <2> QED
      BY <1>1, <2>1, <2>2, <2>3 DEF IInv, Types, others, cluster, bounds
<1>6. Serving'
    BY <1>1, <1>4 DEF IInv, Serving, Keeps, others, cluster
<1>7. \A n : Bound(n)' = Bound(n)
    BY <1>1 DEF Bound, others, cluster
<1>8. Decision'
  <2>1. CASE scheduler.step = "filter"
    <3>1. PICK r : r = handler[scheduler.on]
        OBVIOUS
    <3>2. PICK e : e = handler'[scheduler.on]
        OBVIOUS
    <3>3. PICK p : p = scheduler.pod
        OBVIOUS
    <3>4. Keeps(e, r)
        BY <1>4, <2>1, <3>1, <3>2 DEF IInv, Serving
    <3>5. Seen(e)'
        BY <1>1, <1>7, <2>1, <3>1, <3>4 DEF IInv, Decision, Seen, Keeps, others
    <3>6. e.step \in {"count", "add", "answered"} => Chosen(e.names, e.blind, p)'
        BY <1>1, <1>7, <2>1, <3>1, <3>3, <3>4 DEF IInv, Decision, Chosen, Keeps, others
    <3> QED
        BY <1>1, <2>1, <3>2, <3>3, <3>5, <3>6 DEF Decision, others
  <2>2. CASE scheduler.step # "filter"
      BY <1>1, <1>7, <2>2 DEF IInv, Decision, Chosen, others
  <2> QED
      BY <2>1, <2>2
<1>9. Room'
    BY <1>1, <1>7 DEF IInv, Room, others, cluster
<1>10. Counting'
  <2>1. /\ UNCHANGED <<ignored, abandoned, scheduler>>
        /\ \A g \in Handlers : Accounted(handler[g], Waited(g))
      BY <1>1 DEF IInv, Counting, others, bounds
  <2>2. c = CountedBy(handler[h])
      BY CounterOf DEF c
  <2>3. ASSUME NEW g \in Handlers, g # h, Others(g)
        PROVE  /\ c = CountedBy(handler[g]) /\ c \in abandoned
               /\ handler[g].op \in {"filter", "prioritize"}
    <3>1. c = CountedBy(handler[g]) /\ handler[g].step = "add"
        BY <2>3, CounterOf
    <3>2. ~Waited(g) \/ ~Waited(h)
        BY <2>3 DEF Waited
    <3>3. handler[g].op \in {"filter", "prioritize"}
        BY <2>1, <3>1 DEF Accounted
    <3>4. handler[h].op \in {"filter", "prioritize"}
        BY <1>1, <2>1 DEF Accounted
    <3> QED
        BY <2>1, <2>2, <3>1, <3>2, <3>3, <3>4 DEF Accounted
  <2>4. ASSUME NEW g \in Handlers PROVE Accounted(handler[g], Waited(g))'
    <3>1. PICK e, r : e = handler'[g] /\ r = handler[g]
        OBVIOUS
    <3>2. PICK w : w = Waited(g)
        OBVIOUS
    <3>3. Keeps(e, r) /\ Accounted(r, w)
        BY <1>4, <2>1, <3>1, <3>2
    <3>4. CountedBy(e) = CountedBy(r)
        BY <3>3 DEF Keeps, CountedBy
    <3>5. e.behind = 0 \/ e.behind = r.behind
            \/ (r.op \in {"filter", "prioritize"} /\ CountedBy(r) \in abandoned)
      <4>1. CASE g = h
        <5>1. handler'[h] = [handler[h] EXCEPT !.step = "answered", !.behind = 0]
            BY <1>1
        <5>2. handler'[h].behind = 0
            BY <1>3, <5>1 DEF Fields
        <5> QED
            BY <3>1, <4>1, <5>2
      <4>2. CASE g # h /\ Others(g)
          BY <2>3, <3>1, <4>2
      <4>3. CASE g # h /\ ~Others(g)
          BY <1>1, <3>1, <4>3
      <4> QED
          BY <4>1, <4>2, <4>3
    <3>6. Accounted(e, w)
        BY <3>3, <3>4, <3>5 DEF Accounted, Keeps
    <3>7. Accounted(e, w)'
        BY <2>1, <3>6 DEF Accounted, CountedBy
    <3> QED
        BY <2>1, <3>1, <3>2, <3>7 DEF Waited
  <2>5. ASSUME NEW d \in Counters \ abandoned PROVE missing'[d] = 0
    <3>1. missing[d] = 0
        BY DEF IInv, Counting
    <3>2. PICK v : v = Capped(missing[c] + handler[h].behind)
        OBVIOUS
    <3>3. missing' = [missing EXCEPT ![c] = v]
        BY <1>1, <3>2
    <3>4. CASE d = c
      <4>1. handler[h].behind = 0
          BY <2>1, <2>2, <3>4 DEF Accounted
      <4>2. Capped(0) = 0
          BY ExtenderAssumption DEF Capped
      <4>3. v = 0
          BY <3>1, <3>2, <3>4, <4>1, <4>2
      <4> QED
          BY <3>3, <3>4, <4>3 DEF IInv, Types
    <3>5. CASE d # c
        BY <3>1, <3>3, <3>5
    <3> QED
        BY <3>4, <3>5
  <2> QED
      BY <2>1, <2>4, <2>5 DEF Counting
<1> QED
    BY <1>5, <1>6, <1>8, <1>9, <1>10 DEF IInv

LEMMA DeleteStep == ASSUME IInv, NEW h \in Handlers, Delete(h) PROVE IInv'
<1>0. /\ Holds(handler[h], nodes) /\ DOMAIN handler[h] = Fields
      /\ handler[h].op = "reschedule" /\ handler[h].step = "delete"
    BY DEF IInv, Types, Holds, Delete
<1>1. PICK p : p = Head(handler[h].todo)
    OBVIOUS
<1>2. PICK todo, step :
        /\ step \in {"failed", "answered", "delete"}
        /\ handler' = [handler EXCEPT ![h] = [handler[h] EXCEPT !.step = step, !.todo = todo]]
        /\ \/ UNCHANGED <<pod, on>>
           \/ pod' = [pod EXCEPT ![p] = "gone"] /\ on' = [on EXCEPT ![p] = None]
  <2>1. CASE pod[p] = "gone"
    <3>1. /\ handler' = [handler EXCEPT ![h].step = "failed", ![h].todo = <<>>]
          /\ UNCHANGED <<pod, on>>
        BY <1>1, <2>1 DEF Delete
    <3>2. handler' = [handler EXCEPT ![h] = [handler[h] EXCEPT !.step = "failed", !.todo = <<>>]]
        BY <1>0, <3>1 DEF IInv, Types, Fields
    <3> QED
        BY <3>1, <3>2
  <2>2. CASE pod[p] # "gone"
    <3>1. PICK step : step = IF Len(handler[h].todo) = 1 THEN "answered" ELSE handler[h].step
        OBVIOUS
    <3>2. PICK todo : todo = Tail(handler[h].todo)
        OBVIOUS
    <3>3. /\ handler' = [handler EXCEPT ![h].todo = Tail(@),
                           ![h].step = IF Len(handler[h].todo) = 1 THEN "answered" ELSE @]
          /\ pod' = [pod EXCEPT ![p] = "gone"] /\ on' = [on EXCEPT ![p] = None]
        BY <1>1, <2>2 DEF Delete
    <3>4. handler' = [handler EXCEPT ![h] = [handler[h] EXCEPT !.step = step, !.todo = todo]]
        BY <1>0, <3>1, <3>2, <3>3 DEF IInv, Types, Fields
    <3>5. step \in {"failed", "answered", "delete"}
        BY <1>0, <3>1
    <3> QED
        BY <3>3, <3>4, <3>5
  <2> QED
      BY <2>1, <2>2
<1>3. PICK e : e = [handler[h] EXCEPT !.step = step, !.todo = todo]
    OBVIOUS
<1>4. /\ DOMAIN e = Fields /\ e.step = step /\ e.names = handler[h].names
      /\ e.known = handler[h].known /\ e.seen = handler[h].seen
      /\ e.op = "reschedule" /\ e.pod = handler[h].pod
      /\ e.blind = handler[h].blind /\ e.behind = handler[h].behind
    BY <1>0, <1>3 DEF Fields
<1>5. Holds(e, nodes)
    BY <1>0, <1>4 DEF Holds
<1>6. /\ DOMAIN handler' = Handlers /\ handler'[h] = e
      /\ \A g \in Handlers : g # h => handler'[g] = handler[g]
    BY <1>2, <1>3 DEF IInv, Types
<1>7. scheduler.step # "idle" => scheduler.on # h
    BY <1>0 DEF IInv, Serving, Types
<1>8. UNCHANGED <<algorithm, ignored, cached, nodes, profiled, unseen, scheduler, abandoned,
                  missing>>
    BY DEF Delete, bounds
<1>9. \A t \in Tasks : \/ pod'[t] = pod[t] /\ on'[t] = on[t]
                       \/ pod'[t] = "gone" /\ on'[t] = None
    BY <1>2 DEF IInv, Types
<1>10. \A n \in Nodes : Bound(n)' \subseteq Bound(n)
    BY <1>9 DEF Bound
<1>11. Types'
  <2>1. /\ pod' \in [Tasks -> {"pending", "bound", "running", "gone"}]
        /\ on' \in [Tasks -> Nodes \cup {None}]
      BY <1>2 DEF IInv, Types
  <2> QED
      BY <1>5, <1>6, <1>8, <1>9, <2>1 DEF IInv, Types
<1>12. Serving'
    BY <1>6, <1>7, <1>8 DEF IInv, Serving
<1>13. Decision'
    BY <1>6, <1>7, <1>8, <1>10, DecisionKept DEF IInv, Serving
<1>14. Room'
    BY <1>8, <1>10, FewerRoom DEF IInv
<1>15. Counting'
  <2>1. ASSUME NEW g \in Handlers PROVE Accounted(handler[g], Waited(g))'
    <3>1. PICK f, r : f = handler'[g] /\ r = handler[g]
        OBVIOUS
    <3>2. PICK w : w = Waited(g)
        OBVIOUS
    <3>3. Accounted(r, w)
        BY <3>1, <3>2 DEF IInv, Counting
    <3>4. Accounted(f, w)
      <4>1. CASE g = h
        <5>1. /\ f.op = r.op /\ f.pod = r.pod /\ f.behind = r.behind
              /\ f.step \notin {"count", "add"}
            BY <1>0, <1>2, <1>4, <1>6, <3>1, <4>1
        <5> QED
            BY <3>3, <5>1 DEF Accounted, CountedBy
      <4>2. CASE g # h
          BY <1>6, <3>1, <3>3, <4>2
      <4> QED
          BY <4>1, <4>2
    <3>5. Accounted(f, w)'
        BY <1>8, <3>4 DEF Accounted, CountedBy
    <3> QED
        BY <1>8, <3>1, <3>2, <3>5 DEF Waited
  <2> QED
      BY <1>8, <2>1 DEF IInv, Counting
<1> QED
    BY <1>11, <1>12, <1>13, <1>14, <1>15 DEF IInv

LEMMA ServeStep == ASSUME IInv, NEW h \in Handlers, Serve(h) PROVE IInv'
BY ReadNodesStep, ReadPodsStep, FilterStep, PrioritizeStep, CountReadStep, CountWriteStep,
   RescheduleStep, DeleteStep DEF Serve

-----------------------------------------------------------------------------
(***************************************************************************)
(* Requests and answers.                                                   *)
(***************************************************************************)

LEMMA IdleHolds == ASSUME NEW N PROVE Holds(Idle, N)
BY ExtenderAssumption DEF Holds, Idle, Fields

LEMMA DroppedStep == ASSUME IInv, NEW h \in Handlers, Dropped(h) PROVE IInv'
<1>1. /\ scheduler.step = "idle" \/ scheduler.on # h
      /\ handler' = [handler EXCEPT ![h] = Idle]
      /\ UNCHANGED <<algorithm, ignored, cached, cluster, scheduler, abandoned, missing>>
    BY DEF Dropped, bounds
<1>2. Idle.op = "none" /\ Idle.step = "done" /\ Idle.behind = 0
    BY DEF Idle
<1>3. Proceeds(h, Idle)
    BY <1>1, <1>2, IdleHolds DEF Proceeds, Accounted
<1> QED
    BY <1>1, <1>3, HandlerStep

LEMMA CallRescheduleStep == ASSUME IInv, NEW h \in Handlers, CallReschedule(h) PROVE IInv'
<1>1. PICK e : e = [Idle EXCEPT !.op = "reschedule", !.pod = None, !.names = {},
                                !.step = "nodes"]
    OBVIOUS
<1>2. /\ handler[h].op = "none" /\ handler' = [handler EXCEPT ![h] = e]
      /\ UNCHANGED <<algorithm, ignored, cached, cluster, scheduler, abandoned, missing>>
    BY <1>1 DEF CallReschedule, Takes, Request
<1>3. Holds(e, nodes) /\ e.op = "reschedule" /\ e.step = "nodes" /\ e.behind = 0
    BY <1>1, ExtenderAssumption DEF Holds, Idle, Fields
<1>4. scheduler.step = "idle" \/ scheduler.on # h
    BY <1>2 DEF IInv, Serving, Types
<1>5. Proceeds(h, e)
    BY <1>3, <1>4 DEF Proceeds, Accounted
<1> QED
    BY <1>2, <1>5, HandlerStep

\* kube-scheduler and one handler go on, the cluster stays as it is.
LEMMA SchedulerStep ==
  ASSUME IInv, NEW h \in Handlers, NEW e, Holds(e, nodes),
         handler' = [handler EXCEPT ![h] = e],
         UNCHANGED <<algorithm, ignored, cached, cluster, missing>>,
         abandoned \subseteq abandoned', abandoned' \subseteq Counters,
         DOMAIN scheduler' = {"step", "pod", "on", "names", "blind"},
         scheduler'.step \in {"idle", "filter", "prioritize"},
         scheduler'.step # "idle" =>
           /\ scheduler'.on = h /\ scheduler'.pod \in Tasks /\ scheduler'.names \subseteq nodes
           /\ e.op = scheduler'.step /\ e.pod = scheduler'.pod /\ e.step = "nodes",
         scheduler'.step = "prioritize" =>
           Chosen(scheduler'.names, scheduler'.blind, scheduler'.pod),
         scheduler.step # "idle" => scheduler.on = h,
         Accounted(e, Waited(h))'
  PROVE  IInv'
<1> USE DEF cluster
<1>1. /\ DOMAIN handler' = Handlers /\ handler'[h] = e
      /\ \A g \in Handlers : g # h => handler'[g] = handler[g]
    BY DEF IInv, Types
<1>2. Types'
    BY <1>1 DEF IInv, Types
<1>3. Serving'
    BY <1>1 DEF Serving
<1>4. \A n : Bound(n)' = Bound(n)
    BY DEF Bound
<1>5. Decision'
  <2>1. CASE scheduler'.step = "filter"
      BY <1>1, <2>1 DEF Decision, Seen
  <2>2. CASE scheduler'.step = "prioritize"
      BY <1>4, <2>2 DEF Decision, Chosen
  <2>3. CASE scheduler'.step = "idle"
      BY <2>3 DEF Decision
  <2> QED
      BY <2>1, <2>2, <2>3
<1>6. Room'
    BY <1>4 DEF IInv, Room
<1>7. Counting'
  <2>1. ASSUME NEW g \in Handlers, g # h PROVE Accounted(handler[g], Waited(g))'
    <3>1. PICK r : r = handler[g]
        OBVIOUS
    <3>2. Accounted(r, Waited(g)) /\ ~Waited(g)
        BY <2>1, <3>1 DEF IInv, Counting, Waited
    <3>3. Accounted(r, Waited(g))'
        BY <3>2 DEF Accounted, CountedBy
    <3> QED
        BY <1>1, <2>1, <3>1, <3>3
  <2> QED
      BY <1>1, <2>1 DEF IInv, Counting
<1> QED
    BY <1>2, <1>3, <1>5, <1>6, <1>7 DEF IInv

LEMMA WaitingFields ==
  /\ DOMAIN Waiting = {"step", "pod", "on", "names", "blind"}
  /\ Waiting.step = "idle"
BY DEF Waiting

LEMMA AskStep == ASSUME IInv, NEW p \in Tasks, NEW h \in Handlers, Ask(p, h) PROVE IInv'
<1>1. PICK e : e = [Idle EXCEPT !.op = "filter", !.pod = p, !.names = nodes, !.step = "nodes"]
    OBVIOUS
<1>2. /\ scheduler.step = "idle"
      /\ handler' = [handler EXCEPT ![h] = e]
      /\ scheduler' = [Waiting EXCEPT !.step = "filter", !.pod = p, !.on = h]
      /\ UNCHANGED <<algorithm, ignored, cached, cluster, missing, abandoned>>
    BY <1>1 DEF Ask, Request, bounds
<1>3. /\ Holds(e, nodes) /\ e.op = "filter" /\ e.pod = p /\ e.step = "nodes" /\ e.behind = 0
    BY <1>1, ExtenderAssumption DEF Holds, Idle, Fields
<1>4. /\ DOMAIN scheduler' = {"step", "pod", "on", "names", "blind"}
      /\ scheduler'.step = "filter" /\ scheduler'.pod = p /\ scheduler'.on = h
      /\ scheduler'.names = {}
    BY <1>2 DEF Waiting
<1>5. abandoned \subseteq Counters
    BY DEF IInv, Types
<1>6. Accounted(e, Waited(h))'
    BY <1>3, <1>4 DEF Accounted, Waited
<1> QED
    BY <1>2, <1>3, <1>4, <1>5, <1>6, SchedulerStep

LEMMA FilteredStep == ASSUME IInv, NEW h \in Handlers, Filtered(h) PROVE IInv'
<1>1. PICK names : names = handler[h].names
    OBVIOUS
<1>2. /\ scheduler.step = "filter" /\ scheduler.on = h /\ handler[h].step = "answered"
      /\ UNCHANGED <<algorithm, ignored, cached, cluster, missing, abandoned>>
    BY DEF Filtered, bounds
<1>3. abandoned \subseteq Counters
    BY DEF IInv, Types
<1>4. CASE names = {}
  <2>1. scheduler' = Waiting /\ handler' = [handler EXCEPT ![h] = Idle]
      BY <1>1, <1>4 DEF Filtered
  <2>2. Idle.op = "none" /\ Idle.step = "done" /\ Idle.behind = 0
      BY DEF Idle
  <2>3. Holds(Idle, nodes)
      BY IdleHolds
  <2>4. Accounted(Idle, Waited(h))'
      BY <2>2 DEF Accounted
  <2> QED
      BY <1>2, <1>3, <2>1, <2>3, <2>4, WaitingFields, SchedulerStep
<1>5. CASE names # {}
  <2>1. PICK p : p = scheduler.pod
      OBVIOUS
  <2>2. PICK e : e = [Idle EXCEPT !.op = "prioritize", !.pod = p, !.names = names,
                                  !.step = "nodes"]
      OBVIOUS
  <2>3. /\ scheduler' = [scheduler EXCEPT !.step = "prioritize", !.names = names,
                                          !.blind = handler[h].blind]
        /\ handler' = [handler EXCEPT ![h] = e]
      BY <1>1, <1>5, <2>1, <2>2 DEF Filtered, Request
  <2>4. names \subseteq nodes
      BY <1>1 DEF IInv, Types, Holds
  <2>5. /\ Holds(e, nodes) /\ e.op = "prioritize" /\ e.pod = p /\ e.step = "nodes"
        /\ e.behind = 0
      BY <2>2, <2>4, ExtenderAssumption DEF Holds, Idle, Fields
  <2>6. /\ DOMAIN scheduler' = {"step", "pod", "on", "names", "blind"}
        /\ scheduler'.step = "prioritize" /\ scheduler'.pod = p /\ scheduler'.on = h
        /\ scheduler'.names = names /\ scheduler'.blind = handler[h].blind
      BY <1>2, <2>1, <2>3 DEF IInv, Types
  <2>7. p \in Tasks
      BY <1>2, <2>1 DEF IInv, Serving
  <2>8. Chosen(names, handler[h].blind, p)
      BY <1>1, <1>2, <2>1 DEF IInv, Decision
  <2>9. Accounted(e, Waited(h))'
      BY <2>5, <2>6 DEF Accounted, Waited
  <2> QED
      BY <1>2, <1>3, <2>3, <2>4, <2>5, <2>6, <2>7, <2>8, <2>9, SchedulerStep
<1> QED
    BY <1>4, <1>5

LEMMA RefusedStep == ASSUME IInv, NEW h \in Handlers, Refused(h) PROVE IInv'
<1>1. /\ scheduler.step # "idle" /\ scheduler.on = h
      /\ scheduler' = Waiting /\ handler' = [handler EXCEPT ![h] = Idle]
      /\ UNCHANGED <<algorithm, ignored, cached, cluster, missing, abandoned>>
    BY DEF Refused, bounds
<1>2. Idle.op = "none" /\ Idle.step = "done" /\ Idle.behind = 0
    BY DEF Idle
<1>3. Holds(Idle, nodes) /\ abandoned \subseteq Counters
    BY IdleHolds DEF IInv, Types
<1>4. Accounted(Idle, Waited(h))'
    BY <1>2 DEF Accounted
<1> QED
    BY <1>1, <1>3, <1>4, WaitingFields, SchedulerStep

LEMMA TimeoutStep == ASSUME IInv, Timeout PROVE IInv'
<1>1. PICK h : h = scheduler.on
    OBVIOUS
<1>2. h \in Handlers /\ scheduler.step # "idle"
    BY <1>1 DEF IInv, Serving, Timeout
<1>3. PICK p : p = IF scheduler.pod \in ignored THEN scheduler.pod ELSE None
    OBVIOUS
<1>4. PICK step : step = IF handler[h].step = "add" THEN "add" ELSE "count"
    OBVIOUS
<1>5. PICK e : e = [Idle EXCEPT !.op = handler[h].op, !.pod = p,
                                !.behind = handler[h].behind, !.step = step]
    OBVIOUS
<1>6. /\ e.op = handler[h].op /\ e.pod = p /\ e.behind = handler[h].behind /\ e.step = step
      /\ step \in {"add", "count"}
    BY <1>4, <1>5 DEF Idle
<1>7. Holds(e, nodes)
  <2>1. Holds(handler[h], nodes)
      BY <1>2 DEF IInv, Types
  <2>2. step # "delete"
      BY <1>4
  <2> QED
      BY <1>5, <2>1, <2>2 DEF Holds, Idle, Fields
<1>8. /\ handler' = [handler EXCEPT ![h] = e] /\ scheduler' = Waiting
      /\ abandoned' = abandoned \cup {Counter(h)}
      /\ UNCHANGED <<algorithm, ignored, cached, cluster, missing>>
    BY <1>1, <1>3, <1>4, <1>5 DEF Timeout
<1>9. Counter(h) = CountedBy(e) /\ Counter(h) \in Counters /\ e.op \in {"filter", "prioritize"}
  <2>1. /\ handler[h].op \in {"filter", "prioritize"} /\ handler[h].pod = scheduler.pod
      BY <1>1, <1>2 DEF IInv, Types, Serving
  <2>2. p \in ignored <=> handler[h].pod \in ignored
      BY <1>3, <2>1, ExtenderAssumption DEF IInv, Types
  <2> QED
      BY <1>2, <1>6, <2>1, <2>2, CounterOf DEF CountedBy, Counters
<1>10. abandoned' \subseteq Counters
    BY <1>8, <1>9 DEF IInv, Types
<1>11. Accounted(e, Waited(h))'
    BY <1>8, <1>9 DEF Accounted, CountedBy
<1> QED
    BY <1>1, <1>2, <1>7, <1>8, <1>10, <1>11, WaitingFields, SchedulerStep

\* The pod is bound to a node that was chosen for it, or that was not all seen.
LEMMA BindStep == ASSUME IInv, NEW h \in Handlers, NEW n \in Nodes, Bind(h, n) PROVE IInv'
<1>1. PICK p : p = scheduler.pod
    OBVIOUS
<1>2. /\ scheduler.step = "prioritize" /\ scheduler.on = h /\ n \in scheduler.names
      /\ pod' = [pod EXCEPT ![p] = "bound"] /\ on' = [on EXCEPT ![p] = n]
      /\ unseen' = unseen \cup ({n} \cap scheduler.blind)
      /\ scheduler' = Waiting /\ handler' = [handler EXCEPT ![h] = Idle]
      /\ UNCHANGED <<algorithm, ignored, nodes, profiled, cached, missing, abandoned>>
    BY <1>1 DEF Bind, bounds
<1>3. p \in Tasks /\ n \in nodes
    BY <1>1, <1>2 DEF IInv, Serving
<1>4. /\ DOMAIN handler' = Handlers /\ handler'[h] = Idle
      /\ \A g \in Handlers : g # h => handler'[g] = handler[g]
    BY <1>2 DEF IInv, Types
<1>5. /\ pod'[p] = "bound" /\ on'[p] = n
      /\ \A t \in Tasks : t # p => pod'[t] = pod[t] /\ on'[t] = on[t]
    BY <1>2, <1>3 DEF IInv, Types
<1>6. Types'
  <2>1. /\ pod' \in [Tasks -> {"pending", "bound", "running", "gone"}]
        /\ on' \in [Tasks -> Nodes \cup {None}]
      BY <1>2 DEF IInv, Types
  <2>2. \A g \in Handlers : Holds(handler'[g], nodes)
      BY <1>4, IdleHolds DEF IInv, Types
  <2>3. DOMAIN scheduler' = {"step", "pod", "on", "names", "blind"} /\ scheduler'.step = "idle"
      BY <1>2, WaitingFields
  <2> QED
      BY <1>2, <1>3, <1>4, <1>5, <2>1, <2>2, <2>3 DEF IInv, Types
<1>7. Serving' /\ Decision'
    BY <1>2, WaitingFields DEF Serving, Decision
<1>8. Room'
  <2> SUFFICES ASSUME NEW m \in Nodes \ unseen' PROVE Fits(m, Bound(m)' \ ignored)
      BY <1>2 DEF Room
  <2>1. Fits(m, Bound(m) \ ignored) /\ Bound(m) \ ignored \in SUBSET Tasks
      BY <1>2, BoundPods DEF IInv, Room
  <2>2. CASE m # n \/ p \in ignored
    <3>1. Bound(m)' \ ignored \in SUBSET (Bound(m) \ ignored)
        BY <1>3, <1>5, <2>2 DEF Bound
    <3> QED
        BY <2>1, <3>1, FewerFit
  <2>3. CASE m = n /\ p \notin ignored
    <3>1. m \in scheduler.names \ scheduler.blind
        BY <1>2, <2>3
    <3>2. Fits(m, (Bound(m) \ ignored) \cup {p})
        BY <1>1, <1>2, <2>3, <3>1 DEF IInv, Decision, Chosen
    <3>3. /\ (Bound(m) \ ignored) \cup {p} \in SUBSET Tasks
          /\ Bound(m)' \ ignored \in SUBSET ((Bound(m) \ ignored) \cup {p})
        BY <1>3, <1>5, <2>1 DEF Bound
    <3> QED
        BY <3>2, <3>3, FewerFit
  <2> QED
      BY <2>2, <2>3
<1>9. Counting'
  <2>1. Idle.op = "none" /\ Idle.step = "done" /\ Idle.behind = 0
      BY DEF Idle
  <2> QED
    <3>1. Accounted(Idle, Waited(h))'
        BY <2>1 DEF Accounted
    <3>2. ASSUME NEW g \in Handlers, g # h PROVE Accounted(handler[g], Waited(g))'
      <4>1. PICK r : r = handler[g]
          OBVIOUS
      <4>2. Accounted(r, Waited(g)) /\ ~Waited(g)
          BY <1>2, <3>2, <4>1 DEF IInv, Counting, Waited
      <4>3. Accounted(r, Waited(g))'
          BY <1>2, <4>2 DEF Accounted, CountedBy
      <4> QED
          BY <1>4, <3>2, <4>1, <4>3
    <3> QED
        BY <1>2, <1>4, <3>1, <3>2 DEF IInv, Counting
<1> QED
    BY <1>6, <1>7, <1>8, <1>9 DEF IInv

-----------------------------------------------------------------------------
(***************************************************************************)
(* The cluster.                                                            *)
(***************************************************************************)

\* Nodes that join, scores that become known and pods that start take no room.
LEMMA ClusterStep ==
  ASSUME IInv, nodes \subseteq nodes', nodes' \subseteq Nodes, profiled' \subseteq DOMAIN Score,
         pod' \in [Tasks -> {"pending", "bound", "running", "gone"}],
         \A p \in Tasks : pod'[p] \in {"bound", "running"} <=> pod[p] \in {"bound", "running"},
         UNCHANGED <<algorithm, ignored, cached, on, handler, missing, scheduler, unseen,
                     abandoned>>
  PROVE  IInv'
<1>1. \A n : Bound(n)' = Bound(n)
    BY DEF Bound
<1>2. \A h \in Handlers : Holds(handler[h], nodes')
    BY DEF IInv, Types, Holds
<1>3. Types'
    BY <1>2 DEF IInv, Types
<1>4. Serving'
    BY DEF IInv, Serving
<1>5. Decision'
    BY <1>1, DecisionKept
<1>6. Room'
    BY <1>1 DEF IInv, Room
<1>7. Counting'
    BY DEF IInv, Counting, Accounted, CountedBy, Waited
<1> QED
    BY <1>3, <1>4, <1>5, <1>6, <1>7 DEF IInv

LEMMA NextIInv == IInv /\ [Next]_vars => IInv'
<1> SUFFICES ASSUME IInv, [Next]_vars PROVE IInv'
    OBVIOUS
<1>0. /\ nodes \subseteq Nodes /\ profiled \subseteq DOMAIN Score
      /\ pod \in [Tasks -> {"pending", "bound", "running", "gone"}]
    BY DEF IInv, Types
<1>1. CASE \E n \in Nodes : NodeJoins(n)
    BY <1>0, <1>1, ClusterStep DEF NodeJoins, bounds
<1>2. CASE AppsProfiled
    BY <1>0, <1>2, ClusterStep DEF AppsProfiled, bounds
<1>3. CASE \E p \in Tasks : PodStarted(p)
  <2>1. PICK p \in Tasks : PodStarted(p)
      BY <1>3
  <2>2. /\ pod' \in [Tasks -> {"pending", "bound", "running", "gone"}]
        /\ \A t \in Tasks : pod'[t] \in {"bound", "running"} <=> pod[t] \in {"bound", "running"}
      BY <1>0, <2>1 DEF PodStarted
  <2> QED
      BY <1>0, <2>1, <2>2, ClusterStep DEF PodStarted, bounds
<1>4. CASE KubeScheduler
    BY <1>4, AskStep, FilteredStep, RefusedStep, DroppedStep, BindStep DEF KubeScheduler
<1>5. CASE Timeout
    BY <1>5, TimeoutStep
<1>6. CASE \E h \in Handlers : CallReschedule(h) \/ Serve(h)
    BY <1>6, CallRescheduleStep, ServeStep
<1>7. CASE UNCHANGED vars
    BY <1>0, <1>7, ClusterStep DEF vars, bounds
<1> QED
    BY <1>1, <1>2, <1>3, <1>4, <1>5, <1>6, <1>7 DEF Next

-----------------------------------------------------------------------------
(***************************************************************************)
(* What Score reschedules (algorithms/score.py): tasks are considered one  *)
(* after the other, and the room that was given is used up.                *)
(***************************************************************************)

\* Tasks are considered in a total order.
LEMMA TasksAreOrdered ==
  ASSUME NEW q, NEW r \in Tasks, NEW s \in Tasks, NEW t \in Tasks,
         \A u \in {r, s, t} : q.profile[AppOf[u]] \in Int
  PROVE  /\ r = s \/ Before(q, r, s) \/ Before(q, s, r)
         /\ Before(q, r, s) /\ Before(q, s, t) => Before(q, r, t)
<1>1. PICK x \in Int, y \in Int, z \in Int :
        x = q.profile[AppOf[r]] /\ y = q.profile[AppOf[s]] /\ z = q.profile[AppOf[t]]
  OBVIOUS
<1>2. PICK a \in Nat, b \in Nat, c \in Nat : a = AppOf[r] /\ b = AppOf[s] /\ c = AppOf[t]
  BY AlgorithmAssumption
<1>3. r \in Nat /\ s \in Nat /\ t \in Nat
  BY AlgorithmAssumption
<1>4. (a = b => x = y) /\ (b = c => y = z)
  BY <1>1, <1>2
<1>5. /\ Before(q, r, s) <=> x < y \/ (x = y /\ (a < b \/ (a = b /\ r < s)))
      /\ Before(q, s, r) <=> y < x \/ (x = y /\ (b < a \/ (a = b /\ s < r)))
      /\ Before(q, s, t) <=> y < z \/ (y = z /\ (b < c \/ (b = c /\ s < t)))
      /\ Before(q, r, t) <=> x < z \/ (x = z /\ (a < c \/ (a = c /\ r < t)))
  BY <1>1, <1>2 DEF Before
<1> QED
  BY <1>3, <1>4, <1>5

\* A set of tasks has a last one.
LEMMA LastIsElement ==
  ASSUME NEW q, NEW S \in SUBSET Tasks, \A t \in S : q.profile[AppOf[t]] \in Int,
         NEW s \in SUBSET S, s # {}
  PROVE  LastOf(q, s) \in s
<1> DEFINE Latest(u, t) == \A r \in u : r = t \/ Before(q, r, t)
           Good == {u \in SUBSET S : u # {} => \E t \in u : Latest(u, t)}
<1>1. IsFiniteSet(S)
  BY ResourcesAssumption, FS_Subset
<1>2. ASSUME NEW u \in SUBSET S, \A w \in SUBSET u : w # u => w \in Good
      PROVE  u \in Good
  <2>1. SUFFICES ASSUME u # {} PROVE \E t \in u : Latest(u, t)
    OBVIOUS
  <2>2. PICK x \in u : TRUE
    BY <2>1
  <2>3. CASE u = {x}
    BY <2>3
  <2>4. CASE u # {x}
    <3>1. PICK t \in u \ {x} : Latest(u \ {x}, t)
      <4>1. u \ {x} \in SUBSET u /\ u \ {x} # u /\ u \ {x} # {}
        BY <2>2, <2>4
      <4>2. u \ {x} \in Good
        BY <1>2, <4>1
      <4> QED
        BY <4>1, <4>2
    <3>2. \A r \in u : r \in Tasks /\ q.profile[AppOf[r]] \in Int
      OBVIOUS
    <3>3. CASE Before(q, x, t)
      BY <3>1, <3>3
    <3>4. CASE Before(q, t, x)
      <4>1. \A r \in u \ {x} : Before(q, r, x)
        BY <3>1, <3>2, <3>4, TasksAreOrdered
      <4> QED
        BY <4>1
    <3> QED
      BY <3>1, <3>2, <3>3, <3>4, TasksAreOrdered
  <2> QED
    BY <2>3, <2>4
<1>3. SUBSET S \subseteq Good
  <2> HIDE DEF Good
  <2> QED
    BY <1>1, <1>2, FiniteInduction
<1>4. \E t \in s : Latest(s, t)
  BY <1>3
<1> QED
  BY <1>4 DEF LastOf

\* The sequence of a finite set has its elements.
LEMMA SequenceOfSet ==
  ASSUME NEW S, IsFiniteSet(S)
  PROVE  /\ SetToSeq(S) \in Seq(S)
         /\ Range(SetToSeq(S)) = S
<1>1. PICK k \in Nat : k = Cardinality(S) /\ ExistsBijection(1..k, S)
  BY FS_CardinalityType
<1>2. PICK f \in Bijection(1..k, S) : TRUE
  BY <1>1 DEF ExistsBijection
<1>3. f \in [1..k -> S] /\ IsInjective(f)
  BY <1>2 DEF Bijection, Injection, IsInjective
<1>4. PICK g : g = SetToSeq(S)
  OBVIOUS
<1>5. g \in [1..k -> S] /\ IsInjective(g)
  BY <1>1, <1>3, <1>4 DEF SetToSeq
<1>6. g \in Injection(1..k, S)
  BY <1>5 DEF Injection, IsInjective
<1>7. Cardinality(1..k) = k
  BY FS_Interval
<1>8. g \in Surjection(1..k, S)
  BY <1>1, <1>6, <1>7, FS_Injection
<1>9. Range(g) = S
  BY <1>5, <1>8 DEF Surjection, Range
<1>10. g \in Seq(S)
  BY <1>1, <1>5, SeqDef
<1> QED
  BY <1>4, <1>9, <1>10

\* Enough resources on node n.
Enough(n, v) == enough_resources_on_node(Capacity[n], v, Ratio(n))

\* g considers the tasks of the subsets of C, in their order.
Considers(q, C, start, g) ==
  g = [s \in SUBSET C |->
         IF s = {} THEN start ELSE Consider(q, g[s \ {LastOf(q, s)}], LastOf(q, s))]

\* The pods that are misplaced on pmem nodes are listed, and no room was given.
Start(q) == [used |-> UsedAfterRemoval(q), result |-> SetToSeq(Misplaced(q, "pmem"))]

\* _get_tasks_to_reschedule without its local names.
LEMMA WhatIsRescheduled ==
  ASSUME NEW q
  PROVE  _get_tasks_to_reschedule(q) =
           IF Misplaced(q, "dram") = {} THEN <<>>
           ELSE (CHOOSE g : Considers(q, Misplaced(q, "dram"), Start(q), g))
                  [Misplaced(q, "dram")].result
BY DEF _get_tasks_to_reschedule, Considers, Start

\* A task t is given room on the nodes of a set, and is listed if there is one:
\* what is used goes from u to v, the result from r to w.
Given(P, t, room, u, v, r, w) ==
  /\ \A n \in P \ room : v[n] = u[n]
  /\ \A n \in room : /\ Enough(n, v[n])
                     /\ \A d \in Dimensions :
                          v[n][d] = Plus(u[n][d], Requested[AppOf[t]][d])
  /\ Range(r) \subseteq Range(w)
  /\ Range(w) \subseteq Range(r) \cup {t}
  /\ room = {} => Range(w) \subseteq Range(r)

\* What q says of the resources of the nodes N, and of requests, is what there is.
Knows(q, N) ==
  /\ N \subseteq Nodes /\ q.spec = Requested
  /\ \A n \in N : q.capacities[n] = Capacity[n]

\* This is what Consider does.
LEMMA ConsiderMeans ==
  ASSUME NEW q, NEW P, Knows(q, P), NEW t \in Tasks, NEW u \in [P -> Vectors], NEW r \in Seq(Tasks),
         NEW y, y = [used |-> u, result |-> r]
  PROVE  \E room \in SUBSET P, v \in [P -> Vectors], w \in Seq(Tasks) :
           /\ Consider(q, y, t) = [used |-> v, result |-> w]
           /\ Given(P, t, room, u, v, r, w)
<1> USE DEF Knows
<1>1. PICK after : after = [n \in P |-> sum_resources(u[n], Requested[AppOf[t]])]
  OBVIOUS
<1>2. PICK room : room = {n \in P : Enough(n, after[n])}
  OBVIOUS
<1>3. PICK v : v = [n \in P |-> IF n \in room THEN after[n] ELSE u[n]]
  OBVIOUS
<1>4. PICK k \in Nat : k = Cardinality(room) /\ (k = 0 <=> room = {})
  <2>1. IsFiniteSet(room)
    BY <1>2, ExtenderAssumption, FS_Subset
  <2> QED
    BY <2>1, FS_CardinalityType, FS_EmptySet
<1>5. PICK x : x = [i \in 1..k |-> t]
  OBVIOUS
<1>6. x \in Seq(Tasks) /\ DOMAIN x = 1..k /\ \A i \in 1..k : x[i] = t
  <2>1. x \in [1..k -> Tasks]
    BY <1>5
  <2> QED
    BY <1>5, <2>1, SeqDef
<1>7. Consider(q, [used |-> u, result |-> r], t) = [used |-> v, result |-> r \o x]
  <2>1. DOMAIN u = P
    OBVIOUS
  <2>2. room = {n \in P : enough_resources_on_node(q.capacities[n], after[n],
                            calculate_read_write_ratio(q.capacities[n]))}
    BY <1>2 DEF Enough, Ratio
  <2> QED
    BY <1>1, <1>3, <1>4, <1>5, <2>1, <2>2 DEF Consider
<1>8. ASSUME NEW n \in P
      PROVE  after[n] \in Vectors /\ \A d \in Dimensions :
               after[n][d] = Plus(u[n][d], Requested[AppOf[t]][d])
  <2>1. u[n] \in [Dimensions -> Amount] /\ Requested[AppOf[t]] \in [Dimensions -> Amount]
    BY ResourcesAssumption DEF Vectors
  <2>2. after[n] = [d \in Dimensions |-> Plus(u[n][d], Requested[AppOf[t]][d])]
    BY <1>1, <2>1 DEF sum_resources
  <2>3. \A d \in Dimensions : Plus(u[n][d], Requested[AppOf[t]][d]) \in Amount
    BY <2>1, PlusIsAmount
  <2> QED
    BY <2>2, <2>3 DEF Vectors
<1>9. v \in [P -> Vectors] /\ room \in SUBSET P
  BY <1>2, <1>3, <1>8
<1>10. PICK w : w = r \o x
  OBVIOUS
<1>11. /\ w \in Seq(Tasks) /\ Len(w) = Len(r) + k
       /\ \A i \in 1..Len(r) + k : w[i] = IF i <= Len(r) THEN r[i] ELSE x[i - Len(r)]
       /\ Len(r) \in Nat /\ DOMAIN r = 1..Len(r) /\ DOMAIN w = 1..Len(r) + k
  <2>1. Len(x) = k
    BY <1>6, LenProperties
  <2>2. /\ w \in Seq(Tasks) /\ Len(w) = Len(r) + Len(x)
        /\ \A i \in 1..Len(r) + Len(x) : w[i] = IF i <= Len(r) THEN r[i] ELSE x[i - Len(r)]
    BY <1>6, <1>10, ConcatProperties
  <2>3. Len(r) \in Nat /\ DOMAIN r = 1..Len(r) /\ DOMAIN w = 1..Len(w)
    BY <2>2, LenProperties
  <2> QED
    BY <2>1, <2>2, <2>3
<1>12. Range(r) \subseteq Range(w)
  <2>1. SUFFICES ASSUME NEW i \in 1..Len(r) PROVE r[i] \in Range(w)
    BY <1>11 DEF Range
  <2>2. i \in 1..Len(r) + k /\ w[i] = r[i]
    BY <1>11
  <2> QED
    BY <1>11, <2>2 DEF Range
<1>13. ASSUME NEW i \in 1..Len(r) + k
       PROVE  \/ w[i] \in Range(r)
              \/ w[i] = t /\ k # 0
  <2>1. CASE i <= Len(r)
    <3>1. i \in 1..Len(r) /\ w[i] = r[i]
      BY <1>11, <2>1
    <3> QED
      BY <1>11, <3>1 DEF Range
  <2>2. CASE i > Len(r)
    <3>1. i - Len(r) \in 1..k /\ w[i] = x[i - Len(r)]
      BY <1>11, <2>2
    <3> QED
      BY <1>6, <3>1
  <2> QED
    BY <1>11, <2>1, <2>2
<1>14. /\ Range(w) \subseteq Range(r) \cup {t}
       /\ room = {} => Range(w) \subseteq Range(r)
  BY <1>4, <1>11, <1>13 DEF Range
<1>15. /\ \A n \in P \ room : v[n] = u[n]
       /\ \A n \in room : /\ Enough(n, v[n])
                          /\ \A d \in Dimensions :
                               v[n][d] = Plus(u[n][d], Requested[AppOf[t]][d])
  BY <1>2, <1>3, <1>8
<1>16. v \in [P -> Vectors] /\ w \in Seq(Tasks) /\ room \in SUBSET P
  BY <1>9, <1>11
<1>17. Consider(q, y, t) = [used |-> v, result |-> w]
  BY <1>7, <1>10
<1>18. Given(P, t, room, u, v, r, w)
  BY <1>12, <1>14, <1>15 DEF Given
<1> QED
  BY <1>16, <1>17, <1>18, Zenon

\* After the tasks of s were considered: used is u, the result is r.  If the
\* pods base[n] fit the nodes n of P, the tasks listed have been given nodes,
\* and what is used is at least what these and the pods there ask for.
Planned(base, M, P, s, u, r) ==
  /\ M \subseteq Range(r) /\ Range(r) \subseteq M \cup s
  /\ (\A n \in P : Fits(n, base[n])) =>
       \E given \in [P -> SUBSET s] :
         /\ Range(r) \subseteq M \cup UNION {given[n] : n \in P}
         /\ \A n \in P : /\ Enough(n, u[n])
                         /\ \A d \in Dimensions :
                              AtMost(Usage(base[n] \cup given[n])[d], u[n][d])

\* One task more takes at most what it asks for.
LEMMA OneMoreUsed ==
  ASSUME NEW pods \in SUBSET Tasks, NEW t \in Tasks, NEW d \in Dimensions,
         NEW x \in Amount, AtMost(Usage(pods)[d], x)
  PROVE  AtMost(Usage(pods \cup {t})[d], Plus(x, Requested[AppOf[t]][d]))
<1>1. PICK a, b, c : /\ a = Usage(pods)[d] /\ b = Usage(pods \cup {t})[d]
                     /\ c = Requested[AppOf[t]][d]
  OBVIOUS
<1>2. /\ IsFiniteSet(pods) /\ a = SumOf(Requests(d), pods) /\ a \in Amount
      /\ b = SumOf(Requests(d), pods \cup {t}) /\ b \in Amount
  BY <1>1, UsageIsSum DEF Vectors
<1>3. c = Requests(d)[t] /\ c \in Amount
  BY <1>1, RequestsAreAmounts
<1>4. \A y \in pods \cup {t} : Requests(d)[y] \in Amount
  BY RequestsAreAmounts
<1>5. AtMost(b, Plus(c, a))
  BY <1>2, <1>3, <1>4, SumOfOneMore
<1>6. a \in Fraction /\ b \in Fraction /\ c \in Fraction /\ x \in Fraction
  BY <1>2, <1>3, AmountsAreFractions
<1>7. AtMost(Plus(a, c), Plus(x, c)) /\ Plus(a, c) = Plus(c, a)
  BY <1>1, <1>6, PlusIsMonotone, PlusCommutes
<1>8. AtMost(b, Plus(x, c))
  BY <1>5, <1>6, <1>7, PlusIsFraction, AtMostIsTransitive
<1> QED
  BY <1>1, <1>8

\* A plan for the tasks of s and room given to one more are a plan for both.
LEMMA PlannedStep ==
  ASSUME NEW M, NEW P \in SUBSET Nodes, NEW base \in [P -> SUBSET Tasks],
         NEW s \in SUBSET Tasks, NEW t \in Tasks,
         NEW u \in [P -> Vectors], NEW r, Planned(base, M, P, s, u, r),
         NEW room \in SUBSET P, NEW v, NEW w, Given(P, t, room, u, v, r, w)
  PROVE  Planned(base, M, P, s \cup {t}, v, w)
<1> USE DEF Given
<1>1. M \subseteq Range(w) /\ Range(w) \subseteq M \cup (s \cup {t})
  BY DEF Planned
<1>2. ASSUME \A n \in P : Fits(n, base[n])
      PROVE  \E given \in [P -> SUBSET (s \cup {t})] :
               /\ Range(w) \subseteq M \cup UNION {given[n] : n \in P}
               /\ \A n \in P : /\ Enough(n, v[n])
                               /\ \A d \in Dimensions :
                                    AtMost(Usage(base[n] \cup given[n])[d], v[n][d])
  <2>1. PICK given \in [P -> SUBSET s] :
          /\ Range(r) \subseteq M \cup UNION {given[n] : n \in P}
          /\ \A n \in P : /\ Enough(n, u[n])
                          /\ \A d \in Dimensions :
                               AtMost(Usage(base[n] \cup given[n])[d], u[n][d])
    BY <1>2 DEF Planned
  <2>2. PICK more : more = [n \in P |-> IF n \in room THEN given[n] \cup {t} ELSE given[n]]
    OBVIOUS
  <2>3. more \in [P -> SUBSET (s \cup {t})]
    BY <2>2
  <2>4. \A n \in P : given[n] \subseteq more[n]
    BY <2>2
  <2>5. \A n \in room : t \in more[n]
    BY <2>2
  <2>6. UNION {given[n] : n \in P} \subseteq UNION {more[n] : n \in P}
    BY <2>4
  <2>7. Range(w) \subseteq M \cup UNION {more[n] : n \in P}
    <3>1. CASE room = {}
      BY <2>1, <2>6, <3>1
    <3>2. CASE room # {}
      <4>1. t \in UNION {more[n] : n \in P}
        BY <2>5, <3>2
      <4> QED
        BY <2>1, <2>6, <4>1
    <3> QED
      BY <3>1, <3>2
  <2>8. ASSUME NEW n \in P, NEW d \in Dimensions
        PROVE  AtMost(Usage(base[n] \cup more[n])[d], v[n][d])
    <3>1. CASE n \notin room
      BY <2>1, <2>2, <3>1
    <3>2. CASE n \in room
      <4>1. PICK pods \in SUBSET Tasks : pods = base[n] \cup given[n]
        OBVIOUS
      <4>2. base[n] \cup more[n] = pods \cup {t}
        BY <2>2, <3>2, <4>1
      <4>3. u[n][d] \in Amount /\ AtMost(Usage(pods)[d], u[n][d])
        BY <2>1, <4>1 DEF Vectors
      <4>4. AtMost(Usage(pods \cup {t})[d], Plus(u[n][d], Requested[AppOf[t]][d]))
        BY <4>3, OneMoreUsed
      <4> QED
        BY <3>2, <4>2, <4>4
    <3> QED
      BY <3>1, <3>2
  <2>9. \A n \in P : Enough(n, v[n])
    BY <2>1
  <2> QED
    BY <2>3, <2>7, <2>8, <2>9
<1> QED
  BY <1>1, <1>2 DEF Planned

\* This holds of what was accumulated.
Plan(q, base, M, P, s, acc) ==
  /\ Knows(q, P) /\ base \in [P -> SUBSET Tasks] /\ s \in SUBSET Tasks
  /\ \E u \in [P -> Vectors], r \in Seq(Tasks) :
       acc = [used |-> u, result |-> r] /\ Planned(base, M, P, s, u, r)

\* One step of Consider extends a plan by the task considered.
LEMMA ConsiderPlans ==
  ASSUME NEW q, NEW base, NEW M, NEW P, NEW s, NEW acc, Plan(q, base, M, P, s, acc),
         NEW t \in Tasks
  PROVE  Plan(q, base, M, P, s \cup {t}, Consider(q, acc, t))
<1>1. /\ Knows(q, P) /\ P \in SUBSET Nodes
      /\ base \in [P -> SUBSET Tasks] /\ s \in SUBSET Tasks
  BY DEF Plan, Knows
<1>2. PICK u \in [P -> Vectors], r \in Seq(Tasks) :
        acc = [used |-> u, result |-> r] /\ Planned(base, M, P, s, u, r)
  BY DEF Plan
<1>3. PICK room \in SUBSET P, v \in [P -> Vectors], w \in Seq(Tasks) :
        /\ Consider(q, acc, t) = [used |-> v, result |-> w]
        /\ Given(P, t, room, u, v, r, w)
  <2>1. acc = [used |-> u, result |-> r]
    BY <1>2
  <2> QED
    BY <1>1, <2>1, ConsiderMeans
<1>4. Planned(base, M, P, s \cup {t}, v, w)
  BY <1>1, <1>2, <1>3, PlannedStep
<1>5. \E x \in [P -> Vectors], z \in Seq(Tasks) :
        /\ Consider(q, acc, t) = [used |-> x, result |-> z]
        /\ Planned(base, M, P, s \cup {t}, x, z)
  BY <1>3, <1>4, Zenon
<1>6. s \cup {t} \in SUBSET Tasks
  BY <1>1
<1> QED
  BY <1>1, <1>5, <1>6 DEF Plan

\* q was read of the nodes N.
Reads(q, N) ==
  /\ Knows(q, N) /\ q.assigned \in [N -> SUBSET Tasks]
  /\ \A a \in DOMAIN q.profile : q.profile[a] \in Int

\* pmem nodes among those read.
PmemRead(q, N) == {n \in N : q.cached[n] = "pmem"}

\* The pods that stay on the pmem nodes.
Left(q, N) == [n \in PmemRead(q, N) |-> q.assigned[n] \ Misplaced(q, "pmem")]

\* Pods that are misplaced were read on a node of that type, and their apps have a score.
LEMMA MisplacedPods ==
  ASSUME NEW q, NEW N, Reads(q, N)
  PROVE  /\ Misplaced(q, "pmem") \in SUBSET Tasks /\ IsFiniteSet(Misplaced(q, "pmem"))
         /\ Misplaced(q, "dram") \in SUBSET Tasks /\ IsFiniteSet(Misplaced(q, "dram"))
         /\ \A t \in Misplaced(q, "dram") : q.profile[AppOf[t]] \in Int
         /\ \A t \in Misplaced(q, "pmem") : \E n \in PmemRead(q, N) : t \in q.assigned[n]
         /\ \A t \in Misplaced(q, "dram") : \E n \in N : t \in q.assigned[n]
         /\ Left(q, N) \in [PmemRead(q, N) -> SUBSET Tasks]
<1>1. DOMAIN q.assigned = N /\ \A n \in N : q.assigned[n] \subseteq Tasks
  BY DEF Reads
<1>2. \A t \in Misplaced(q, "pmem") : \E n \in PmemRead(q, N) : t \in q.assigned[n]
  BY <1>1 DEF Misplaced, PmemRead
<1>3. \A t \in Misplaced(q, "dram") : \E n \in N : t \in q.assigned[n]
  BY <1>1 DEF Misplaced
<1>4. Misplaced(q, "pmem") \in SUBSET Tasks /\ Misplaced(q, "dram") \in SUBSET Tasks
  BY <1>1, <1>2, <1>3 DEF PmemRead
<1>5. IsFiniteSet(Misplaced(q, "pmem")) /\ IsFiniteSet(Misplaced(q, "dram"))
  BY <1>4, ResourcesAssumption, FS_Subset
<1>6. \A t \in Misplaced(q, "dram") : q.profile[AppOf[t]] \in Int
  <2>1. \A t \in Misplaced(q, "dram") : _get_app_node_type(q.profile, AppOf[t]) # "dram"
    BY DEF Misplaced
  <2>2. \A t \in Misplaced(q, "dram") : AppOf[t] \in DOMAIN q.profile
    BY <2>1 DEF _get_app_node_type
  <2> QED
    BY <2>2 DEF Reads
<1>7. Left(q, N) \in [PmemRead(q, N) -> SUBSET Tasks]
  BY <1>1 DEF Left, PmemRead
<1> QED
  BY <1>2, <1>3, <1>4, <1>5, <1>6, <1>7

\* The function that is defined by recursion in _get_tasks_to_reschedule exists.
LEMMA ConsidersExists ==
  ASSUME NEW q, NEW N, Reads(q, N), NEW C, C = Misplaced(q, "dram"),
         NEW P, P = PmemRead(q, N), NEW u \in [P -> Vectors], NEW r \in Seq(Tasks)
  PROVE  \E g : Considers(q, C, [used |-> u, result |-> r], g)
<1> DEFINE D == {[used |-> v, result |-> w] : v \in [P -> Vectors], w \in Seq(Tasks)}
           F == [z \in C \X D |-> Consider(q, z[2], z[1])]
           c == [s \in SUBSET C |-> LastOf(q, s)]
           start == [used |-> u, result |-> r]
<1>1. /\ C \in SUBSET Tasks /\ IsFiniteSet(C) /\ Knows(q, P)
      /\ \A t \in C : q.profile[AppOf[t]] \in Int
  BY MisplacedPods DEF Reads, Knows, PmemRead
<1>2. ASSUME NEW t \in C, NEW y \in D
      PROVE  Consider(q, y, t) \in D
  <2>1. PICK v \in [P -> Vectors], w \in Seq(Tasks) : y = [used |-> v, result |-> w]
    OBVIOUS
  <2>2. t \in Tasks
    BY <1>1
  <2>3. PICK x \in [P -> Vectors], z \in Seq(Tasks) :
          Consider(q, y, t) = [used |-> x, result |-> z]
    <3> HIDE DEF D, F, c, start
    <3>1. \E room \in SUBSET P, x \in [P -> Vectors], z \in Seq(Tasks) :
            /\ Consider(q, y, t) = [used |-> x, result |-> z]
            /\ Given(P, t, room, v, x, w, z)
      BY <1>1, <2>1, <2>2, ConsiderMeans
    <3> QED
      BY <3>1, Zenon
  <2> QED
    BY <2>3
<1>3. start \in D
  OBVIOUS
<1> HIDE DEF D, start
<1>4. F \in [C \X D -> D] /\ \A t \in C, y \in D : F[<<t, y>>] = Consider(q, y, t)
  BY <1>2
<1>5. Picks(c, C) /\ \A s \in SUBSET C : c[s] = LastOf(q, s)
  BY <1>1, LastIsElement DEF Picks
<1> HIDE DEF F, c
<1>6. PICK g : Folded(F, c, start, C, g)
  BY <1>1, <1>5, FoldedExists
<1>7. \A s \in SUBSET C : g[s] \in D
  BY <1>1, <1>3, <1>4, <1>5, <1>6, FoldedStays
<1>8. ASSUME NEW s \in SUBSET C
      PROVE  g[s] = IF s = {} THEN start
                    ELSE Consider(q, g[s \ {LastOf(q, s)}], LastOf(q, s))
  <2>1. CASE s = {}
    BY <1>6, <2>1 DEF Folded
  <2>2. CASE s # {}
    <3>1. g[s] = F[<<c[s], g[s \ {c[s]}]>>] /\ c[s] = LastOf(q, s)
      BY <1>5, <1>6, <2>2 DEF Folded
    <3>2. LastOf(q, s) \in C /\ g[s \ {LastOf(q, s)}] \in D
      BY <1>5, <1>7, <2>2, <3>1, Rest
    <3> QED
      BY <1>4, <2>2, <3>1, <3>2
  <2> QED
    BY <2>1, <2>2
<1>9. g = [s \in SUBSET C |-> g[s]]
  BY <1>6 DEF Folded
<1>10. Considers(q, C, start, g)
  BY <1>8, <1>9 DEF Considers
<1> QED
  BY <1>10 DEF start

\* What is used to start with, and the result.
LEMMA StartsPlanned ==
  ASSUME NEW q, NEW N, Reads(q, N), NEW P, P = PmemRead(q, N),
         NEW M, M = Misplaced(q, "pmem"), NEW base, base = Left(q, N)
  PROVE  /\ Plan(q, base, M, P, {}, Start(q))
         /\ \E u \in [P -> Vectors], r \in Seq(Tasks) : Start(q) = [used |-> u, result |-> r]
<1>1. /\ M \in SUBSET Tasks /\ IsFiniteSet(M) /\ base \in [P -> SUBSET Tasks]
      /\ P \in SUBSET Nodes /\ Knows(q, P)
  BY MisplacedPods DEF Reads, Knows, PmemRead
<1>2. PICK u : u = [n \in P |-> Usage(base[n])]
  OBVIOUS
<1>3. u \in [P -> Vectors]
  BY <1>1, <1>2, UsageIsSum
<1>4. UsedAfterRemoval(q) = u
  <2>1. DOMAIN q.assigned = N /\ q.spec = Requested
    BY DEF Reads, Knows
  <2>2. P = {n \in DOMAIN q.assigned : q.cached[n] = "pmem"}
    BY <2>1 DEF PmemRead
  <2>3. \A n \in P : base[n] = q.assigned[n] \ Misplaced(q, "pmem")
    BY DEF Left
  <2> QED
    BY <1>2, <2>1, <2>2, <2>3 DEF UsedAfterRemoval, Usage
<1>5. PICK r : r = SetToSeq(M)
  OBVIOUS
<1>6. r \in Seq(M) /\ Range(r) = M
  BY <1>1, <1>5, SequenceOfSet
<1>7. r \in Seq(Tasks)
  BY <1>1, <1>6, SeqMonotonic
<1>8. Planned(base, M, P, {}, u, r)
  <2>1. ASSUME \A n \in P : Fits(n, base[n])
        PROVE  \E given \in [P -> SUBSET {}] :
                 /\ Range(r) \subseteq M \cup UNION {given[n] : n \in P}
                 /\ \A n \in P : /\ Enough(n, u[n])
                                 /\ \A d \in Dimensions :
                                      AtMost(Usage(base[n] \cup given[n])[d], u[n][d])
    <3>1. PICK given : given = [n \in P |-> {}]
      OBVIOUS
    <3>2. given \in [P -> SUBSET {}] /\ \A n \in P : base[n] \cup given[n] = base[n]
      BY <3>1
    <3>3. \A n \in P : Enough(n, u[n])
      BY <1>2, <2>1 DEF Enough, Fits, Usage, Ratio
    <3>4. \A n \in P : \A d \in Dimensions : AtMost(Usage(base[n])[d], u[n][d])
      <4>1. TAKE n \in P
      <4>2. TAKE d \in Dimensions
      <4>3. u[n][d] \in Fraction /\ Usage(base[n])[d] = u[n][d]
        BY <1>2, <1>3, AmountsAreFractions DEF Vectors
      <4> QED
        BY <4>3, AtMostItself
    <3> QED
      BY <1>6, <3>2, <3>3, <3>4
  <2> QED
    BY <1>6, <2>1 DEF Planned
<1>9. Start(q) = [used |-> u, result |-> r]
  BY <1>4, <1>5 DEF Start
<1>10. \E x \in [P -> Vectors], z \in Seq(Tasks) :
         Start(q) = [used |-> x, result |-> z] /\ Planned(base, M, P, {}, x, z)
  BY <1>3, <1>7, <1>8, <1>9, Zenon
<1>11. {} \in SUBSET Tasks
  OBVIOUS
<1> QED
  BY <1>1, <1>10, <1>11 DEF Plan

\* All tasks that are to be considered are planned for.
LEMMA AllPlanned ==
  ASSUME NEW q, NEW base, NEW M, NEW P, NEW start, Plan(q, base, M, P, {}, start),
         NEW C \in SUBSET Tasks, \A t \in C : q.profile[AppOf[t]] \in Int,
         NEW g, Considers(q, C, start, g)
  PROVE  Plan(q, base, M, P, C, g[C])
<1> DEFINE Good == {s \in SUBSET C : Plan(q, base, M, P, s, g[s])}
<1>1. IsFiniteSet(C)
  BY ResourcesAssumption, FS_Subset
<1>2. ASSUME NEW s \in SUBSET C, \A w \in SUBSET s : w # s => w \in Good
      PROVE  s \in Good
  <2>1. CASE s = {}
    <3>1. g[s] = start
      BY <2>1 DEF Considers
    <3> QED
      BY <2>1, <3>1
  <2>2. CASE s # {}
    <3>1. PICK t : t = LastOf(q, s)
      OBVIOUS
    <3>2. t \in s /\ t \in Tasks
      BY <2>2, <3>1, LastIsElement
    <3>3. PICK x : x = s \ {t}
      OBVIOUS
    <3>4. x \in SUBSET s /\ x # s /\ x \cup {t} = s
      BY <3>2, <3>3
    <3>5. Plan(q, base, M, P, x, g[x])
      BY <1>2, <3>4
    <3>6. g[s] = Consider(q, g[x], t)
      BY <2>2, <3>1, <3>3 DEF Considers
    <3>7. Plan(q, base, M, P, x \cup {t}, Consider(q, g[x], t))
      BY <3>2, <3>5, ConsiderPlans
    <3> QED
      BY <3>4, <3>6, <3>7
  <2> QED
    BY <2>1, <2>2
<1>3. SUBSET C \subseteq Good
  <2> HIDE DEF Good
  <2> QED
    BY <1>1, <1>2, FiniteInduction
<1> QED
  BY <1>3

\* What _get_tasks_to_reschedule returns: all pods M that are misplaced on the pmem
\* nodes P, and pods of C that are misplaced on dram nodes and were given nodes of P,
\* which have room for them next to the pods that stay there (base).
Rescheduled(result, P, M, C, base) ==
  /\ result \in Seq(Tasks)
  /\ M \subseteq Range(result) /\ Range(result) \subseteq M \cup C
  /\ (\A n \in P : Fits(n, base[n])) =>
       \E given \in [P -> SUBSET Tasks] :
         /\ Range(result) \subseteq M \cup UNION {given[n] : n \in P}
         /\ \A n \in P : Fits(n, base[n] \cup given[n])

LEMMA RescheduledFit ==
  ASSUME NEW q, NEW N, Reads(q, N), _get_tasks_to_reschedule(q) # <<>>
  PROVE  Rescheduled(_get_tasks_to_reschedule(q), PmemRead(q, N), Misplaced(q, "pmem"),
                     Misplaced(q, "dram"), Left(q, N))
<1>1. PICK P, M, C : P = PmemRead(q, N) /\ M = Misplaced(q, "pmem") /\ C = Misplaced(q, "dram")
  OBVIOUS
<1>2. PICK base, result : base = Left(q, N) /\ result = _get_tasks_to_reschedule(q)
  OBVIOUS
<1>3. /\ C \in SUBSET Tasks /\ IsFiniteSet(C) /\ \A t \in C : q.profile[AppOf[t]] \in Int
      /\ base \in [P -> SUBSET Tasks] /\ P \in SUBSET Nodes /\ Knows(q, P)
  BY <1>1, <1>2, MisplacedPods DEF Reads, Knows, PmemRead
<1>4. PICK start : start = Start(q)
  OBVIOUS
<1>5. PICK g : g = CHOOSE f : Considers(q, C, start, f)
  OBVIOUS
<1>6. /\ Plan(q, base, M, P, {}, start)
      /\ \E u \in [P -> Vectors], r \in Seq(Tasks) : start = [used |-> u, result |-> r]
  BY <1>1, <1>2, <1>4, StartsPlanned
<1>7. Considers(q, C, start, g)
  <2>1. PICK u \in [P -> Vectors], r \in Seq(Tasks) : start = [used |-> u, result |-> r]
    BY <1>6
  <2>2. \E f : Considers(q, C, [used |-> u, result |-> r], f)
    BY <1>1, ConsidersExists
  <2> QED
    BY <1>5, <2>1, <2>2
<1>8. Plan(q, base, M, P, C, g[C])
  BY <1>3, <1>6, <1>7, AllPlanned
<1>9. PICK u \in [P -> Vectors], r \in Seq(Tasks) :
        g[C] = [used |-> u, result |-> r] /\ Planned(base, M, P, C, u, r)
  BY <1>8 DEF Plan
<1>10. result = r
  <2>1. result = g[C].result
    BY <1>1, <1>2, <1>4, <1>5, WhatIsRescheduled
  <2> QED
    BY <1>9, <2>1
<1>11. ASSUME \A n \in P : Fits(n, base[n])
      PROVE  \E given \in [P -> SUBSET Tasks] :
               /\ Range(result) \subseteq M \cup UNION {given[n] : n \in P}
               /\ \A n \in P : Fits(n, base[n] \cup given[n])
  <2>1. PICK given \in [P -> SUBSET C] :
          /\ Range(r) \subseteq M \cup UNION {given[n] : n \in P}
          /\ \A n \in P : /\ Enough(n, u[n])
                          /\ \A d \in Dimensions :
                               AtMost(Usage(base[n] \cup given[n])[d], u[n][d])
    BY <1>9, <1>11 DEF Planned
  <2>2. given \in [P -> SUBSET Tasks]
    BY <1>3
  <2>3. ASSUME NEW n \in P
        PROVE  Fits(n, base[n] \cup given[n])
    <3>1. PICK pods \in SUBSET Tasks : pods = base[n] \cup given[n]
      BY <1>3, <2>2
    <3>2. n \in Nodes /\ u[n] \in Vectors /\ Usage(pods) \in Vectors
      BY <1>3, <3>1, UsageIsSum
    <3>3. \A d \in Dimensions : AtMost(Taken(u[n], d, Ratio(n)), Capacity[n][d])
      BY <2>1, <3>2, EnoughMeans DEF Enough
    <3>4. \A d \in Dimensions : AtMost(Usage(pods)[d], u[n][d])
      BY <2>1, <3>1
    <3>5. \A d \in Dimensions : AtMost(Taken(Usage(pods), d, Ratio(n)), Capacity[n][d])
      BY <3>2, <3>3, <3>4, EnoughForLess
    <3> QED
      BY <3>1, <3>2, <3>5, FitsMeans
  <2> QED
    BY <1>10, <2>1, <2>2, <2>3
<1>12. Rescheduled(result, P, M, C, base)
  BY <1>9, <1>10, <1>11 DEF Planned, Rescheduled
<1> QED
  BY <1>1, <1>2, <1>12

-----------------------------------------------------------------------------
(***************************************************************************)
(* What is deleted has room elsewhere: Moving is what handlers that        *)
(* reschedule know of the pods they saw.                                   *)
(***************************************************************************)

\* A pod is where a handler saw it, or gone.
StaysOn(p, n) ==
  \/ pod[p] = "gone"
  \/ pod[p] = "running" /\ on[p] = n

\* pmem nodes a handler that reschedules knows of, the pods that stay on one of
\* them, and the pods that come from dram nodes.
PmemOf(r) == {n \in DOMAIN r.seen : NodeType[n] = "pmem"}

StayingOn(r, n) == {p \in r.seen[n] : p \notin Range(r.todo) /\ pod[p] # "gone"}

ComingOf(r) == {p \in Range(r.todo) : pod[p] = "running" /\ NodeType[on[p]] = "dram"}

\* There is a pmem node for every pod that comes.
Placed(r) ==
  \E place \in [ComingOf(r) -> PmemOf(r)] : \A n \in PmemOf(r) :
    Fits(n, StayingOn(r, n) \cup {p \in ComingOf(r) : place[p] = n})

\* What a handler that reschedules knows of the pods it saw.
Rescheduling(r) ==
  r.op = "reschedule" =>
    /\ r.step \in {"decide", "delete"} =>
         \A n \in DOMAIN r.seen : \A p \in r.seen[n] : StaysOn(p, n)
    /\ r.step = "decide" =>
         /\ r.seen \in [r.known -> SUBSET Tasks]
         /\ \A n \in DOMAIN r.seen \ unseen : Fits(n, r.seen[n])
    /\ r.step = "delete" =>
         /\ r.todo \in Seq(Tasks) /\ r.todo # <<>>
         /\ \A p \in Range(r.todo) : \E n \in DOMAIN r.seen : p \in r.seen[n]
         /\ PmemOf(r) \cap unseen = {} => Placed(r)

\* Node types do not change, and the pod kube-scheduler works on stays pending.
Moving ==
  /\ \A n \in DOMAIN cached : cached[n] = NodeType[n]
  /\ scheduler.step # "idle" => pod[scheduler.pod] = "pending"
  /\ \A h \in Handlers : Rescheduling(handler[h])

\* Pods that run run where they are or go for good, and a node stays one that a pod
\* was bound to unseen.
Onward ==
  /\ \A p \in Tasks :
       /\ pod[p] = "gone" => pod'[p] = "gone"
       /\ pod[p] = "running" =>
            \/ pod'[p] = "gone"
            \/ pod'[p] = "running" /\ on'[p] = on[p]
  /\ unseen \subseteq unseen'

\* With fewer pods that stay and come there is still a place for each.
LEMMA StillPlaced ==
  ASSUME NEW r, NEW e, Placed(r), PmemOf(e) = PmemOf(r), ComingOf(e)' \subseteq ComingOf(r),
         ComingOf(r) \subseteq Tasks,
         \A n \in PmemOf(r) : /\ n \in Nodes /\ StayingOn(r, n) \subseteq Tasks
                              /\ StayingOn(e, n)' \subseteq StayingOn(r, n)
  PROVE  Placed(e)'
<1>1. PICK P, A, B : P = PmemOf(r) /\ A = ComingOf(r) /\ B = ComingOf(e)'
  OBVIOUS
<1>2. PICK place \in [A -> P] : \A n \in P :
        Fits(n, StayingOn(r, n) \cup {p \in A : place[p] = n})
  BY <1>1 DEF Placed
<1>3. PICK new : new = [p \in B |-> place[p]]
  OBVIOUS
<1>4. new \in [B -> P]
  BY <1>1, <1>3
<1>5. ASSUME NEW n \in P
      PROVE  Fits(n, StayingOn(e, n)' \cup {p \in B : new[p] = n})
  <2>1. PICK S, T : /\ S = StayingOn(r, n) \cup {p \in A : place[p] = n}
                    /\ T = StayingOn(e, n)' \cup {p \in B : new[p] = n}
    OBVIOUS
  <2>2. n \in Nodes /\ S \in SUBSET Tasks /\ T \in SUBSET S /\ Fits(n, S)
    BY <1>1, <1>2, <1>3, <2>1
  <2> QED
    BY <2>1, <2>2, FewerFit
<1>6. PmemOf(e)' = P
  BY <1>1 DEF PmemOf
<1> QED
  BY <1>1, <1>4, <1>5, <1>6 DEF Placed

\* There is nothing to know of a handler that neither decides nor deletes.
LEMMA IdleIsNotMoving ==
  ASSUME NEW r, r.step \notin {"decide", "delete"} \/ r.op # "reschedule"
  PROVE  Rescheduling(r)
BY DEF Rescheduling

\* What a handler knows stays true while it does nothing.
LEMMA MovingOn ==
  ASSUME Onward, nodes \subseteq Nodes, NEW r, Holds(r, nodes), Rescheduling(r)
  PROVE  Rescheduling(r)'
<1>1. SUFFICES ASSUME r.op = "reschedule", r.step \in {"decide", "delete"}
               PROVE  Rescheduling(r)'
  BY DEF Rescheduling
<1>2. DOMAIN r.seen \subseteq Nodes /\ \A n \in DOMAIN r.seen : r.seen[n] \subseteq Tasks
  BY DEF Holds
<1>3. \A n \in DOMAIN r.seen : \A p \in r.seen[n] : StaysOn(p, n)
  BY <1>1 DEF Rescheduling
<1>4. \A n \in DOMAIN r.seen : \A p \in r.seen[n] : StaysOn(p, n)'
  BY <1>2, <1>3 DEF StaysOn, Onward
<1>5. CASE r.step = "decide"
  <2>1. /\ r.seen \in [r.known -> SUBSET Tasks]
        /\ \A n \in DOMAIN r.seen \ unseen : Fits(n, r.seen[n])
    BY <1>1, <1>5 DEF Rescheduling
  <2>2. \A n \in DOMAIN r.seen \ unseen' : Fits(n, r.seen[n])
    BY <2>1 DEF Onward
  <2> QED
    BY <1>4, <1>5, <2>1, <2>2 DEF Rescheduling
<1>6. CASE r.step = "delete"
  <2>1. /\ r.todo \in Seq(Tasks) /\ r.todo # <<>>
        /\ \A p \in Range(r.todo) : \E n \in DOMAIN r.seen : p \in r.seen[n]
        /\ PmemOf(r) \cap unseen = {} => Placed(r)
    BY <1>1, <1>6 DEF Rescheduling
  <2>2. ASSUME PmemOf(r) \cap unseen' = {}
        PROVE  Placed(r)'
    <3>1. Placed(r)
      BY <2>1, <2>2 DEF Onward
    <3>2. ComingOf(r) \subseteq Tasks
      BY <1>2, <2>1 DEF ComingOf
    <3>3. ComingOf(r)' \subseteq ComingOf(r)
      <4>1. SUFFICES ASSUME NEW p \in Range(r.todo), pod'[p] = "running",
                            NodeType[on'[p]] = "dram"
                     PROVE  pod[p] = "running" /\ NodeType[on[p]] = "dram"
        BY DEF ComingOf
      <4>2. PICK n \in DOMAIN r.seen : p \in r.seen[n]
        BY <2>1
      <4>3. p \in Tasks /\ StaysOn(p, n)
        BY <1>2, <1>3, <4>2
      <4> QED
        BY <4>1, <4>3 DEF StaysOn, Onward
    <3>4. ASSUME NEW n \in PmemOf(r)
          PROVE  /\ n \in Nodes /\ StayingOn(r, n) \subseteq Tasks
                 /\ StayingOn(r, n)' \subseteq StayingOn(r, n)
      <4>1. n \in Nodes /\ r.seen[n] \subseteq Tasks
        BY <1>2 DEF PmemOf
      <4> QED
        BY <4>1 DEF StayingOn, Onward
    <3> QED
      BY <3>1, <3>2, <3>3, <3>4, StillPlaced
  <2>3. PmemOf(r)' = PmemOf(r)
    BY DEF PmemOf
  <2> QED
    BY <1>4, <1>6, <2>1, <2>2, <2>3 DEF Rescheduling
<1> QED
  BY <1>1, <1>5, <1>6

\* Only handlers that read pods, decide on pods or delete one need a closer look.
LEMMA MovingKept ==
  ASSUME IInv, Moving, Onward, cached' = cached,
         scheduler'.step # "idle" => pod'[scheduler'.pod] = "pending",
         \A h \in Handlers :
           \/ handler'[h] = handler[h]
           \/ Rescheduling(handler[h])'
  PROVE  Moving'
<1>1. ASSUME NEW h \in Handlers
      PROVE  Rescheduling(handler[h])'
  <2>1. CASE handler'[h] = handler[h]
    <3>1. PICK r : r = handler[h]
      OBVIOUS
    <3>2. nodes \subseteq Nodes /\ Holds(r, nodes) /\ Rescheduling(r)
      BY <3>1 DEF IInv, Types, Moving
    <3>3. Rescheduling(r)'
      BY <3>2, MovingOn
    <3> QED
      BY <2>1, <3>1, <3>3
  <2> QED
    BY <2>1
<1> QED
  BY <1>1 DEF Moving

\* The cluster stays as it is, and one handler goes on to what is true of it.
LEMMA MovingHandler ==
  ASSUME IInv, Moving, NEW h \in Handlers, NEW e, Rescheduling(e),
         handler' = [handler EXCEPT ![h] = e], UNCHANGED <<cached, pod, on, unseen>>,
         scheduler'.step # "idle" => pod[scheduler'.pod] = "pending"
  PROVE  Moving'
<1>1. /\ handler'[h] = e
      /\ \A g \in Handlers : g # h => handler'[g] = handler[g]
  BY DEF IInv, Types
<1>2. Rescheduling(e)'
  <2>1. \A p, n : StaysOn(p, n)' <=> StaysOn(p, n)
    BY DEF StaysOn
  <2>2. /\ \A n : StayingOn(e, n)' = StayingOn(e, n)
        /\ ComingOf(e)' = ComingOf(e) /\ PmemOf(e)' = PmemOf(e)
    BY DEF StayingOn, ComingOf, PmemOf
  <2>3. Placed(e)' <=> Placed(e)
    BY <2>2, Zenon DEF Placed
  <2> QED
    BY <2>1, <2>2, <2>3 DEF Rescheduling
<1>3. Onward
  BY DEF Onward, IInv, Types
<1>4. \A g \in Handlers : handler'[g] = handler[g] \/ Rescheduling(handler[g])'
  BY <1>1, <1>2
<1> QED
  BY <1>3, <1>4, MovingKept

\* Requests, answers, reading nodes, filtering, prioritizing and counting are of
\* handlers that have no pods to delete.
LEMMA MovingElsewhere ==
  ASSUME IInv, Moving, NEW h \in Handlers, NEW e,
         \/ e.step \notin {"decide", "delete"}
         \/ e.op # "reschedule",
         handler' = [handler EXCEPT ![h] = e], UNCHANGED <<cached, pod, on, unseen>>,
         scheduler'.step # "idle" => pod[scheduler'.pod] = "pending"
  PROVE  Moving'
BY MovingHandler, IdleIsNotMoving

\* A handler that read nodes, answered a request or read its counter deletes nothing.
LEMMA MovingReads ==
  ASSUME IInv, Moving, NEW h \in Handlers,
         ReadNodes(h) \/ Filter(h) \/ Prioritize(h) \/ CountRead(h)
  PROVE  Moving'
<1>1. Holds(handler[h], nodes) /\ DOMAIN handler[h] = Fields
  BY DEF IInv, Types, Holds
<1>2. /\ UNCHANGED <<cached, pod, on, unseen>> /\ scheduler' = scheduler
      /\ scheduler'.step # "idle" => pod[scheduler'.pod] = "pending"
  BY DEF ReadNodes, Filter, Prioritize, CountRead, others, cluster, Moving
<1>3. CASE ReadNodes(h)
  <2>1. PICK e : e = IF Ignored(h) THEN [handler[h] EXCEPT !.step = "count"]
                     ELSE [handler[h] EXCEPT !.step = "pods", !.known = nodes]
    OBVIOUS
  <2>2. handler' = [handler EXCEPT ![h] = e] /\ e.step \notin {"decide", "delete"}
    BY <1>1, <1>3, <2>1 DEF ReadNodes, Fields
  <2> QED
    BY <1>2, <2>2, MovingElsewhere
<1>4. CASE CountRead(h)
  <2>1. PICK e : e = [handler[h] EXCEPT !.step = "add"]
    OBVIOUS
  <2>2. handler' = [handler EXCEPT ![h] = e] /\ e.step \notin {"decide", "delete"}
    BY <1>1, <1>4, <2>1 DEF CountRead, Fields
  <2> QED
    BY <1>2, <2>2, MovingElsewhere
<1>5. CASE Prioritize(h)
  <2>1. PICK e : e = [handler[h] EXCEPT !.step = "count", !.names = {}, !.known = {},
                                        !.seen = <<>>]
    OBVIOUS
  <2>2. handler' = [handler EXCEPT ![h] = e] /\ e.step \notin {"decide", "delete"}
    BY <1>1, <1>5, <2>1 DEF Prioritize, Fields
  <2> QED
    BY <1>2, <2>2, MovingElsewhere
<1>6. CASE Filter(h)
  <2>1. \E e : handler' = [handler EXCEPT ![h] = e] /\ e.step \notin {"decide", "delete"}
    <3>1. PICK q : q = Query(h)
      OBVIOUS
    <3>2. CASE Raises(q, h)
      <4>1. PICK e : e = [handler[h] EXCEPT !.step = "failed"]
        OBVIOUS
      <4>2. handler' = [handler EXCEPT ![h] = e]
        BY <1>6, <3>1, <3>2, <4>1 DEF Filter
      <4>3. e.step \notin {"decide", "delete"}
        BY <1>1, <4>1 DEF Fields
      <4> QED
        BY <4>2, <4>3, Zenon
    <3>3. CASE ~Raises(q, h)
      <4>1. PICK answer : handler' = [handler EXCEPT ![h] =
              [handler[h] EXCEPT !.step = "count", !.names = answer.NodeNames,
                                 !.known = {}, !.seen = <<>>]]
        BY <1>6, <3>1, <3>3 DEF Filter
      <4>2. PICK e : e = [handler[h] EXCEPT !.step = "count", !.names = answer.NodeNames,
                                            !.known = {}, !.seen = <<>>]
        OBVIOUS
      <4>3. handler' = [handler EXCEPT ![h] = e]
        BY <4>1, <4>2
      <4>4. e.step \notin {"decide", "delete"}
        BY <1>1, <4>2 DEF Fields
      <4> QED
        BY <4>3, <4>4, Zenon
    <3> QED
      BY <3>2, <3>3
  <2> QED
    BY <1>2, <2>1, MovingElsewhere
<1> QED
  BY <1>3, <1>4, <1>5, <1>6

\* Nor does one that counts, or one whose counter it changes.
LEMMA MovingCountWrite ==
  ASSUME IInv, Moving, NEW h \in Handlers, CountWrite(h)
  PROVE  Moving'
<1>1. /\ UNCHANGED <<cached, pod, on, unseen>> /\ scheduler' = scheduler
      /\ scheduler'.step # "idle" => pod'[scheduler'.pod] = "pending"
  BY DEF CountWrite, others, cluster, Moving
<1>2. Onward
  BY <1>1 DEF Onward, IInv, Types
<1>3. ASSUME NEW g \in Handlers
      PROVE  handler'[g] = handler[g] \/ Rescheduling(handler[g])'
  <2>1. DOMAIN handler[g] = Fields
    BY DEF IInv, Types, Holds
  <2>2. CASE g = h
    <3>1. PICK e : e = [handler[g] EXCEPT !.step = "answered", !.behind = 0]
      OBVIOUS
    <3>2. handler'[g] = e
      BY <2>2, <3>1 DEF CountWrite
    <3>3. e.step = "answered"
      BY <2>1, <3>1 DEF Fields
    <3> QED
      BY <3>2, <3>3 DEF Rescheduling
  <2>3. CASE g # h /\ handler[g].step = "add" /\ Counter(g) = Counter(h)
    <3>1. PICK v : v = IF handler[g].behind + 1 > MaxMissing THEN MaxMissing
                       ELSE handler[g].behind + 1
      OBVIOUS
    <3>2. PICK e : e = [handler[g] EXCEPT !.behind = v]
      OBVIOUS
    <3>3. handler'[g] = e
      BY <2>3, <3>1, <3>2 DEF CountWrite, SameMetric
    <3>4. e.step = "add"
      BY <2>1, <2>3, <3>2 DEF Fields
    <3> QED
      BY <3>3, <3>4 DEF Rescheduling
  <2>4. CASE g # h /\ ~(handler[g].step = "add" /\ Counter(g) = Counter(h))
    BY <2>4 DEF CountWrite, SameMetric
  <2> QED
    BY <2>2, <2>3, <2>4
<1> QED
  BY <1>1, <1>2, <1>3, MovingKept

\* A handler has seen pods that run where it saw them, and they fit: they are bound there.
LEMMA MovingReadPods ==
  ASSUME IInv, Moving, NEW h \in Handlers, ReadPods(h)
  PROVE  Moving'
<1>1. Holds(handler[h], nodes) /\ DOMAIN handler[h] = Fields
  BY DEF IInv, Types, Holds
<1>2. /\ UNCHANGED <<cached, pod, on, unseen>> /\ scheduler' = scheduler
      /\ scheduler'.step # "idle" => pod[scheduler'.pod] = "pending"
  BY DEF ReadPods, others, cluster, Moving
<1>3. PICK counted : counted = {p \in Tasks \ ignored : Counts(p)}
  OBVIOUS
<1>4. PICK seen : seen = [n \in handler[h].known |-> {p \in counted : on[p] = n}]
  OBVIOUS
<1>5. PICK blind : blind = {on[p] : p \in {r \in Tasks \ ignored : pod[r] = "bound"} \ counted}
  OBVIOUS
<1>6. PICK e : e = [handler[h] EXCEPT !.step = "decide", !.seen = seen, !.blind = blind]
  OBVIOUS
<1>7. PICK f : f = [handler[h] EXCEPT !.step = "failed"]
  OBVIOUS
<1>8. handler' = [handler EXCEPT ![h] = e] \/ handler' = [handler EXCEPT ![h] = f]
  BY <1>3, <1>4, <1>5, <1>6, <1>7 DEF ReadPods
<1>9. Rescheduling(e)
  <2>1. e.step = "decide" /\ e.seen = seen /\ e.known = handler[h].known
    BY <1>1, <1>6 DEF Fields
  <2>2. seen \in [handler[h].known -> SUBSET Tasks] /\ handler[h].known \subseteq Nodes
    BY <1>1, <1>3, <1>4 DEF Holds, IInv, Types
  <2>3. \A n \in DOMAIN seen : \A p \in seen[n] : StaysOn(p, n)
    BY <1>3, <1>4 DEF StaysOn, Counts
  <2>4. ASSUME NEW n \in DOMAIN seen \ unseen
        PROVE  Fits(n, seen[n])
    <3>1. PICK pods : pods = Bound(n) \ ignored
      OBVIOUS
    <3>2. n \in Nodes /\ pods \in SUBSET Tasks /\ Fits(n, pods)
      BY <2>2, <3>1, BoundPods DEF IInv, Room
    <3>3. seen[n] \in SUBSET pods
      BY <1>3, <1>4, <3>1 DEF Bound, Counts
    <3> QED
      BY <3>2, <3>3, FewerFit
  <2> QED
    BY <2>1, <2>2, <2>3, <2>4 DEF Rescheduling
<1>10. Rescheduling(f)
  <2>1. f.step = "failed"
    BY <1>1, <1>7 DEF Fields
  <2> QED
    BY <2>1, IdleIsNotMoving
<1> QED
  BY <1>2, <1>8, <1>9, <1>10, MovingHandler

\* kube-scheduler asks for a pending pod, and goes on with it.
LEMMA MovingRequests ==
  ASSUME IInv, Moving, NEW h \in Handlers,
         \/ \E p \in Tasks : Ask(p, h)
         \/ Filtered(h) \/ Refused(h) \/ Dropped(h) \/ CallReschedule(h)
  PROVE  Moving'
<1>1. UNCHANGED <<cached, pod, on, unseen>>
  BY DEF Ask, Filtered, Refused, Dropped, CallReschedule, cluster
<1>2. Idle.step \notin {"decide", "delete"}
  BY DEF Idle
<1>3. scheduler.step # "idle" => pod[scheduler.pod] = "pending"
  BY DEF Moving
<1>4. ASSUME NEW op, NEW p, NEW names, Request(h, op, p, names)
      PROVE  \E e : handler' = [handler EXCEPT ![h] = e] /\ e.step \notin {"decide", "delete"}
  <2>1. PICK e : e = [Idle EXCEPT !.op = op, !.pod = p, !.names = names, !.step = "nodes"]
    OBVIOUS
  <2>2. handler' = [handler EXCEPT ![h] = e]
    BY <1>4, <2>1 DEF Request
  <2>3. e.step \notin {"decide", "delete"}
    BY <2>1 DEF Idle
  <2> QED
    BY <2>2, <2>3, Zenon
<1>5. CASE \E p \in Tasks : Ask(p, h)
  <2>1. PICK p \in Tasks : Ask(p, h)
    BY <1>5
  <2>2. Request(h, "filter", p, nodes) /\ pod[p] = "pending"
    BY <2>1 DEF Ask
  <2>3. scheduler'.pod = p
    BY <2>1 DEF Ask, Waiting
  <2>4. PICK e : handler' = [handler EXCEPT ![h] = e] /\ e.step \notin {"decide", "delete"}
    BY <1>4, <2>2
  <2> QED
    BY <1>1, <2>2, <2>3, <2>4, MovingElsewhere
<1>6. CASE Refused(h) \/ (Filtered(h) /\ handler[h].names = {})
  <2>1. scheduler' = Waiting /\ handler' = [handler EXCEPT ![h] = Idle]
    BY <1>6 DEF Refused, Filtered
  <2> QED
    BY <1>1, <1>2, <2>1, WaitingFields, MovingElsewhere
<1>7. CASE Filtered(h) /\ handler[h].names # {}
  <2>1. PICK names, p : names = handler[h].names /\ p = scheduler.pod
    OBVIOUS
  <2>2. /\ scheduler' = [scheduler EXCEPT !.step = "prioritize", !.names = names,
                                          !.blind = handler[h].blind]
        /\ scheduler.step = "filter" /\ Request(h, "prioritize", p, names)
    BY <1>7, <2>1 DEF Filtered
  <2>3. scheduler'.pod = p /\ pod[p] = "pending"
    BY <1>3, <2>1, <2>2 DEF IInv, Types
  <2>4. PICK e : handler' = [handler EXCEPT ![h] = e] /\ e.step \notin {"decide", "delete"}
    BY <1>4, <2>2
  <2> QED
    BY <1>1, <2>3, <2>4, MovingElsewhere
<1>8. CASE Dropped(h)
  <2>1. scheduler' = scheduler /\ handler' = [handler EXCEPT ![h] = Idle]
    BY <1>8 DEF Dropped
  <2> QED
    BY <1>1, <1>2, <1>3, <2>1, MovingElsewhere
<1>9. CASE CallReschedule(h)
  <2>1. scheduler' = scheduler /\ Request(h, "reschedule", None, {})
    BY <1>9 DEF CallReschedule
  <2>2. PICK e : handler' = [handler EXCEPT ![h] = e] /\ e.step \notin {"decide", "delete"}
    BY <1>4, <2>1
  <2> QED
    BY <1>1, <1>3, <2>1, <2>2, MovingElsewhere
<1> QED
  BY <1>5, <1>6, <1>7, <1>8, <1>9

\* A handler nobody waits for any more only counts.
LEMMA MovingTimeout ==
  ASSUME IInv, Moving, Timeout
  PROVE  Moving'
<1>1. PICK h : h = scheduler.on
  OBVIOUS
<1>2. h \in Handlers
  BY <1>1 DEF IInv, Serving, Timeout
<1>3. PICK p : p = IF scheduler.pod \in ignored THEN scheduler.pod ELSE None
  OBVIOUS
<1>4. PICK step : step = IF handler[h].step = "add" THEN "add" ELSE "count"
  OBVIOUS
<1>5. PICK e : e = [Idle EXCEPT !.op = handler[h].op, !.pod = p,
                                !.behind = handler[h].behind, !.step = step]
  OBVIOUS
<1>6. /\ handler' = [handler EXCEPT ![h] = e] /\ scheduler' = Waiting
      /\ UNCHANGED <<cached, pod, on, unseen>>
  BY <1>1, <1>3, <1>4, <1>5 DEF Timeout, cluster
<1>7. e.step \notin {"decide", "delete"}
  BY <1>4, <1>5 DEF Idle
<1> QED
  BY <1>2, <1>6, <1>7, WaitingFields, MovingElsewhere

\* The pod that is bound was pending: no handler had seen it.
LEMMA MovingBind ==
  ASSUME IInv, Moving, NEW h \in Handlers, NEW n \in Nodes, Bind(h, n)
  PROVE  Moving'
<1>1. PICK p : p = scheduler.pod
  OBVIOUS
<1>2. /\ scheduler.step = "prioritize" /\ scheduler' = Waiting /\ cached' = cached
      /\ pod' = [pod EXCEPT ![p] = "bound"] /\ on' = [on EXCEPT ![p] = n]
      /\ unseen \subseteq unseen' /\ handler' = [handler EXCEPT ![h] = Idle]
  BY <1>1 DEF Bind
<1>3. pod[p] = "pending" /\ p \in Tasks
  BY <1>1, <1>2 DEF Moving, IInv, Serving
<1>4. Onward
  BY <1>2, <1>3 DEF Onward, IInv, Types
<1>5. Idle.step \notin {"decide", "delete"}
  BY DEF Idle
<1>6. ASSUME NEW g \in Handlers
      PROVE  handler'[g] = handler[g] \/ Rescheduling(handler[g])'
  <2>1. CASE g = h
    <3>1. handler'[g] = Idle
      BY <1>2, <2>1 DEF IInv, Types
    <3> QED
      BY <1>5, <3>1 DEF Rescheduling
  <2>2. CASE g # h
    BY <1>2, <2>2 DEF IInv, Types
  <2> QED
    BY <2>1, <2>2
<1> QED
  BY <1>2, <1>4, <1>6, WaitingFields, MovingKept

\* A pod that starts was bound: no handler had seen it either.
LEMMA MovingCluster ==
  ASSUME IInv, Moving,
         \/ \E n \in Nodes : NodeJoins(n)
         \/ AppsProfiled
         \/ \E p \in Tasks : PodStarted(p)
         \/ UNCHANGED vars
  PROVE  Moving'
<1>1. UNCHANGED <<cached, on, unseen, handler, scheduler>>
  BY DEF NodeJoins, AppsProfiled, PodStarted, vars
<1>2. \A p \in Tasks : pod'[p] = pod[p] \/ (pod[p] = "bound" /\ pod'[p] = "running")
  BY DEF NodeJoins, AppsProfiled, PodStarted, vars, IInv, Types
<1>3. Onward
  BY <1>1, <1>2 DEF Onward
<1>4. scheduler'.step # "idle" => pod'[scheduler'.pod] = "pending"
  BY <1>1, <1>2 DEF Moving, IInv, Serving
<1> QED
  BY <1>1, <1>3, <1>4, MovingKept

\* The length of the empty sequence.
LEMMA EmptyLength == ASSUME NEW t, t = <<>> PROVE Len(t) = 0
OBVIOUS

\* The elements of a sequence are its head and those of its tail.
LEMMA HeadAndTail ==
  ASSUME NEW S, NEW s \in Seq(S), s # <<>>
  PROVE  /\ Head(s) \in S /\ Head(s) \in Range(s) /\ Tail(s) \in Seq(S)
         /\ Range(s) \subseteq {Head(s)} \cup Range(Tail(s))
         /\ Range(Tail(s)) \subseteq Range(s)
         /\ Tail(s) = <<>> => Len(s) = 1
<1>1. PICK t : t = Tail(s)
  OBVIOUS
<1>2. /\ Len(s) \in Nat /\ Len(s) >= 1 /\ DOMAIN s = 1..Len(s)
      /\ t \in Seq(S) /\ Len(t) = Len(s) - 1 /\ DOMAIN t = 1..Len(t)
      /\ \A i \in 1..Len(t) : t[i] = s[i + 1]
      /\ Head(s) = s[1] /\ s[1] \in S
  BY <1>1
<1>3. Range(s) \subseteq {Head(s)} \cup Range(t)
  <2>1. SUFFICES ASSUME NEW i \in 1..Len(s) PROVE s[i] \in {Head(s)} \cup Range(t)
    BY <1>2 DEF Range
  <2>2. CASE i = 1
    BY <1>2, <2>2
  <2>3. CASE i # 1
    <3>1. i - 1 \in 1..Len(t) /\ t[i - 1] = s[i]
      BY <1>2, <2>3
    <3> QED
      BY <1>2, <3>1 DEF Range
  <2> QED
    BY <2>2, <2>3
<1>4. Range(t) \subseteq Range(s)
  <2>1. SUFFICES ASSUME NEW i \in 1..Len(t) PROVE t[i] \in Range(s)
    BY <1>2 DEF Range
  <2>2. i + 1 \in 1..Len(s) /\ t[i] = s[i + 1]
    BY <1>2
  <2> QED
    BY <1>2, <2>2 DEF Range
<1>5. Head(s) \in Range(s)
  <2>1. 1 \in DOMAIN s
    BY <1>2
  <2> QED
    BY <1>2, <2>1 DEF Range
<1>6. ASSUME t = <<>> PROVE Len(s) = 1
  <2>1. Len(t) = 0
    BY <1>6, EmptyLength, Zenon
  <2>2. PICK k, m : k = Len(s) /\ m = Len(t)
    OBVIOUS
  <2>3. k \in Nat /\ m = k - 1 /\ m = 0
    BY <1>2, <2>1, <2>2, Zenon
  <2>4. k = 1
    BY <2>3
  <2> QED
    BY <2>2, <2>4, Zenon
<1> QED
  BY <1>1, <1>2, <1>3, <1>4, <1>5, <1>6

\* A pod that is deleted was running, so that it leaves room, and others keep theirs.
LEMMA MovingDelete ==
  ASSUME IInv, Moving, NEW h \in Handlers, Delete(h)
  PROVE  Moving'
<1>1. PICK r : r = handler[h]
  OBVIOUS
<1>2. /\ Holds(r, nodes) /\ DOMAIN r = Fields /\ nodes \subseteq Nodes
      /\ r.op = "reschedule" /\ r.step = "delete" /\ Rescheduling(r)
  BY <1>1 DEF IInv, Types, Holds, Delete, Moving
<1>3. /\ \A n \in DOMAIN r.seen : \A p \in r.seen[n] : StaysOn(p, n)
      /\ r.todo \in Seq(Tasks) /\ r.todo # <<>>
      /\ \A p \in Range(r.todo) : \E n \in DOMAIN r.seen : p \in r.seen[n]
      /\ PmemOf(r) \cap unseen = {} => Placed(r)
  BY <1>2 DEF Rescheduling
<1>4. PICK p : p = Head(r.todo)
  OBVIOUS
<1>5. /\ p \in Tasks /\ p \in Range(r.todo) /\ Tail(r.todo) \in Seq(Tasks)
      /\ Range(r.todo) \subseteq {p} \cup Range(Tail(r.todo))
      /\ Range(Tail(r.todo)) \subseteq Range(r.todo)
      /\ Tail(r.todo) = <<>> => Len(r.todo) = 1
  BY <1>3, <1>4, HeadAndTail
<1>6. cached' = cached /\ scheduler' = scheduler /\ unseen' = unseen
  BY DEF Delete
<1>7. pod[p] = "gone" \/ pod[p] = "running"
  BY <1>3, <1>5 DEF StaysOn
<1>8. CASE pod[p] = "gone"
  <2>1. PICK e : e = [r EXCEPT !.step = "failed", !.todo = <<>>]
    OBVIOUS
  <2>2. handler' = [handler EXCEPT ![h] = e] /\ UNCHANGED <<pod, on>>
    BY <1>1, <1>2, <1>4, <1>8, <2>1 DEF Delete, Fields, IInv, Types
  <2>3. e.step \notin {"decide", "delete"}
    BY <1>2, <2>1 DEF Fields
  <2> QED
    BY <1>6, <2>2, <2>3, MovingElsewhere DEF Moving
<1>9. CASE pod[p] = "running"
  <2>1. PICK step : step = IF Len(r.todo) = 1 THEN "answered" ELSE r.step
    OBVIOUS
  <2>2. PICK e : e = [r EXCEPT !.todo = Tail(r.todo), !.step = step]
    OBVIOUS
  <2>3. /\ handler' = [handler EXCEPT ![h] = e]
        /\ pod' = [pod EXCEPT ![p] = "gone"] /\ on' = [on EXCEPT ![p] = None]
    BY <1>1, <1>2, <1>4, <1>9, <2>1, <2>2 DEF Delete, Fields, IInv, Types
  <2>4. /\ e.op = r.op /\ e.seen = r.seen /\ e.todo = Tail(r.todo) /\ e.step = step
    BY <1>2, <2>2 DEF Fields
  <2>5. /\ pod'[p] = "gone"
        /\ \A t \in Tasks : t # p => pod'[t] = pod[t] /\ on'[t] = on[t]
    BY <1>5, <2>3 DEF IInv, Types
  <2>6. Onward
    BY <1>6, <2>5 DEF Onward
  <2>7. scheduler'.step # "idle" => pod'[scheduler'.pod] = "pending"
    BY <1>6, <1>9, <2>5 DEF Moving, IInv, Serving
  <2>8. Rescheduling(e)'
    <3>1. SUFFICES ASSUME step = "delete" PROVE Rescheduling(e)'
      BY <1>2, <2>1, <2>4 DEF Rescheduling
    <3>2. DOMAIN r.seen \subseteq Nodes /\ \A n \in DOMAIN r.seen : r.seen[n] \subseteq Tasks
      BY <1>2 DEF Holds
    <3>3. \A n \in DOMAIN e.seen : \A t \in e.seen[n] : StaysOn(t, n)'
      BY <1>3, <2>4, <2>6, <3>2 DEF StaysOn, Onward
    <3>4. e.todo \in Seq(Tasks) /\ e.todo # <<>>
      BY <1>5, <2>1, <2>4, <3>1
    <3>5. \A t \in Range(e.todo) : \E n \in DOMAIN e.seen : t \in e.seen[n]
      BY <1>3, <1>5, <2>4
    <3>6. PmemOf(e) = PmemOf(r)
      BY <2>4 DEF PmemOf
    <3>7. ComingOf(r) \subseteq Tasks
      BY <1>3, <3>2 DEF ComingOf
    <3>8. ComingOf(e)' \subseteq ComingOf(r)
      <4>1. SUFFICES ASSUME NEW t \in Range(e.todo), pod'[t] = "running",
                            NodeType[on'[t]] = "dram"
                     PROVE  t \in Range(r.todo) /\ pod[t] = "running" /\ NodeType[on[t]] = "dram"
        BY DEF ComingOf
      <4>2. t \in Range(r.todo) /\ t \in Tasks /\ t # p
        BY <1>3, <1>5, <2>4, <2>5, <3>2, <4>1
      <4> QED
        BY <2>5, <4>1, <4>2
    <3>9. ASSUME NEW n \in PmemOf(r)
          PROVE  /\ n \in Nodes /\ StayingOn(r, n) \subseteq Tasks
                 /\ StayingOn(e, n)' \subseteq StayingOn(r, n)
      <4>1. n \in Nodes /\ n \in DOMAIN r.seen /\ r.seen[n] \subseteq Tasks
        BY <3>2 DEF PmemOf
      <4>2. StayingOn(r, n) \subseteq Tasks
        BY <4>1 DEF StayingOn
      <4>3. ASSUME NEW t \in r.seen[n], t \notin Range(Tail(r.todo)), pod'[t] # "gone"
            PROVE  t \notin Range(r.todo) /\ pod[t] # "gone"
        BY <1>5, <2>5, <4>1, <4>3
      <4>4. StayingOn(e, n)' \subseteq StayingOn(r, n)
        BY <2>4, <4>3 DEF StayingOn
      <4> QED
        BY <4>1, <4>2, <4>4
    <3>10. PmemOf(r) \cap unseen = {} => Placed(e)'
      BY <1>3, <3>6, <3>7, <3>8, <3>9, StillPlaced
    <3>11. PmemOf(e)' = PmemOf(r)
      BY <3>6 DEF PmemOf
    <3> QED
      BY <1>6, <2>4, <3>1, <3>3, <3>4, <3>5, <3>10, <3>11 DEF Rescheduling
  <2>9. \A g \in Handlers : handler'[g] = handler[g] \/ Rescheduling(handler[g])'
    <3>1. handler'[h] = e /\ \A g \in Handlers : g # h => handler'[g] = handler[g]
      BY <2>3 DEF IInv, Types
    <3> QED
      BY <2>8, <3>1
  <2> QED
    BY <1>6, <2>6, <2>7, <2>9, MovingKept
<1> QED
  BY <1>7, <1>8, <1>9

\* What Score decides to delete has places: pods that are misplaced on a pmem node
\* run there, and those that come from dram nodes were each given a pmem node.
LEMMA ListedArePlaced ==
  ASSUME NEW e, NEW q, NEW N, Reads(q, N), q.assigned = e.seen,
         \A n \in N : q.cached[n] = NodeType[n],
         \A n \in N : \A p \in e.seen[n] : StaysOn(p, n),
         \A n \in N \ unseen : Fits(n, e.seen[n]),
         e.todo = _get_tasks_to_reschedule(q), e.todo # <<>>
  PROVE  /\ e.todo \in Seq(Tasks)
         /\ \A p \in Range(e.todo) : \E n \in N : p \in e.seen[n]
         /\ PmemOf(e) \cap unseen = {} => Placed(e)
<1>1. PICK P : P = PmemRead(q, N)
  OBVIOUS
<1>2. PICK M : M = Misplaced(q, "pmem")
  OBVIOUS
<1>3. PICK C : C = Misplaced(q, "dram")
  OBVIOUS
<1>4. PICK base : base = Left(q, N)
  OBVIOUS
<1>5. PICK result : result = _get_tasks_to_reschedule(q)
  OBVIOUS
<1>6. e.todo = result /\ result # <<>>
  BY <1>5
<1>7. Rescheduled(result, P, M, C, base)
  BY <1>1, <1>2, <1>3, <1>4, <1>5, <1>6, RescheduledFit
<1>8. /\ N \subseteq Nodes /\ DOMAIN e.seen = N /\ \A n \in N : e.seen[n] \in SUBSET Tasks
  BY DEF Reads, Knows
<1>9. /\ \A t \in M : \E n \in P : t \in e.seen[n]
      /\ \A t \in C : \E n \in N : t \in e.seen[n]
  BY <1>1, <1>2, <1>3, MisplacedPods
<1>10. /\ P = PmemOf(e) /\ P \subseteq N
       /\ \A n \in P : n \in Nodes /\ NodeType[n] = "pmem" /\ base[n] = e.seen[n] \ M
  BY <1>1, <1>2, <1>4, <1>8 DEF PmemRead, PmemOf, Left
<1>11. \A p \in Range(result) : \E n \in N : p \in e.seen[n]
  BY <1>7, <1>9, <1>10 DEF Rescheduled
<1>12. ASSUME P \cap unseen = {}
       PROVE  Placed(e)
  <2>1. ASSUME NEW n \in P
        PROVE  Fits(n, base[n])
    <3>1. n \in Nodes /\ e.seen[n] \in SUBSET Tasks /\ base[n] \in SUBSET e.seen[n]
      BY <1>8, <1>10
    <3>2. Fits(n, e.seen[n])
      BY <1>10, <1>12
    <3> QED
      BY <3>1, <3>2, FewerFit
  <2>2. PICK given \in [P -> SUBSET Tasks] :
          /\ Range(result) \subseteq M \cup UNION {given[n] : n \in P}
          /\ \A n \in P : Fits(n, base[n] \cup given[n])
    BY <1>7, <2>1 DEF Rescheduled
  <2>3. PICK coming : coming = ComingOf(e)
    OBVIOUS
  <2>4. ASSUME NEW p \in coming
        PROVE  \E n \in P : p \in given[n]
    <3>1. p \in Range(result) /\ pod[p] = "running" /\ NodeType[on[p]] = "dram"
      BY <1>6, <2>3 DEF ComingOf
    <3>2. p \notin M
      <4>1. SUFFICES ASSUME NEW n \in P, p \in e.seen[n] PROVE FALSE
        BY <1>9
      <4>2. StaysOn(p, n)
        BY <1>10, <4>1
      <4> QED
        BY <1>10, <3>1, <4>2 DEF StaysOn
    <3> QED
      BY <2>2, <3>1, <3>2
  <2>5. PICK place : place = [p \in coming |-> CHOOSE n \in P : p \in given[n]]
    OBVIOUS
  <2>6. /\ place \in [coming -> P]
        /\ \A p \in coming : p \in given[place[p]]
    BY <2>4, <2>5
  <2>7. ASSUME NEW n \in P
        PROVE  Fits(n, StayingOn(e, n) \cup {p \in coming : place[p] = n})
    <3>1. PICK S, T : /\ S = base[n] \cup given[n]
                      /\ T = StayingOn(e, n) \cup {p \in coming : place[p] = n}
      OBVIOUS
    <3>2. StayingOn(e, n) \subseteq base[n]
      BY <1>6, <1>7, <1>10 DEF StayingOn, Rescheduled
    <3>3. {p \in coming : place[p] = n} \subseteq given[n]
      BY <2>6
    <3>4. n \in Nodes /\ S \in SUBSET Tasks /\ T \in SUBSET S /\ Fits(n, S)
      BY <1>8, <1>10, <2>2, <3>1, <3>2, <3>3
    <3> QED
      BY <3>1, <3>4, FewerFit
  <2> QED
    BY <1>10, <2>3, <2>6, <2>7 DEF Placed
<1> QED
  BY <1>6, <1>7, <1>10, <1>11, <1>12 DEF Rescheduled

\* A handler that decided what to delete has a place for each pod that comes.
LEMMA MovingReschedule ==
  ASSUME IInv, Moving, NEW h \in Handlers, Reschedule(h)
  PROVE  Moving'
<1>1. PICK r : r = handler[h]
  OBVIOUS
<1>2. /\ Holds(r, nodes) /\ DOMAIN r = Fields /\ r.op = "reschedule" /\ r.step = "decide"
      /\ Rescheduling(r) /\ nodes \subseteq Nodes
  BY <1>1 DEF IInv, Types, Holds, Reschedule, Moving
<1>3. /\ UNCHANGED <<cached, pod, on, unseen>> /\ scheduler' = scheduler
      /\ scheduler'.step # "idle" => pod[scheduler'.pod] = "pending"
  BY DEF Reschedule, others, cluster, Moving
<1>4. CASE LookupRaises(h)
  <2>1. PICK e : e = [r EXCEPT !.step = "failed"]
    OBVIOUS
  <2>2. handler' = [handler EXCEPT ![h] = e]
    BY <1>1, <1>4, <2>1 DEF Reschedule
  <2>3. e.step \notin {"decide", "delete"}
    BY <1>2, <2>1 DEF Fields
  <2> QED
    BY <1>3, <2>2, <2>3, MovingElsewhere
<1>5. CASE ~LookupRaises(h)
  <2>1. PICK q : q = Query(h)
    OBVIOUS
  <2>2. PICK result : result = reschedule(algorithm, q)
    OBVIOUS
  <2>3. PICK step : step = IF result = <<>> THEN "answered" ELSE "delete"
    OBVIOUS
  <2>4. PICK e : e = [r EXCEPT !.todo = result, !.step = step]
    OBVIOUS
  <2>5. handler' = [handler EXCEPT ![h] = e]
    BY <1>1, <1>5, <2>1, <2>2, <2>3, <2>4 DEF Reschedule
  <2>6. /\ e.op = "reschedule" /\ e.step = step /\ e.todo = result
        /\ e.seen = r.seen
    BY <1>2, <2>4 DEF Fields
  <2>7. Rescheduling(e)
    <3>1. CASE result = <<>>
      BY <2>3, <2>6, <3>1 DEF Rescheduling
    <3>2. CASE result # <<>>
      <4>1. algorithm = "Score" /\ result = _get_tasks_to_reschedule(q)
        BY <2>2, <3>2 DEF reschedule
      <4>2. PICK N : N = r.known
        OBVIOUS
      <4>3. N \subseteq DOMAIN cached /\ N \subseteq nodes
        BY <1>1, <1>2, <1>5, <4>1, <4>2 DEF Holds, LookupRaises
      <4>4. /\ r.seen \in [N -> SUBSET Tasks] /\ \A n \in N : \A p \in r.seen[n] : StaysOn(p, n)
            /\ \A n \in N \ unseen : Fits(n, r.seen[n])
        BY <1>2, <4>2 DEF Rescheduling
      <4>5. /\ q.assigned = r.seen /\ q.cached = cached /\ q.spec = Requested
            /\ q.capacities = [n \in nodes |-> Capacity[n]]
            /\ q.profile = [a \in profiled |-> Score[a]]
        BY <1>1, <2>1 DEF Query, get_nodes_capacities, get_apps_requested_resources,
                          get_apps_profile
      <4>6. Reads(q, N)
        <5>1. Knows(q, N)
          BY <1>2, <4>3, <4>5 DEF Knows
        <5>2. \A a \in DOMAIN q.profile : q.profile[a] \in Int
          BY <4>5, ExtenderAssumption DEF IInv, Types
        <5> QED
          BY <4>4, <4>5, <5>1, <5>2 DEF Reads
      <4>7. \A n \in N : q.cached[n] = NodeType[n]
        BY <4>3, <4>5 DEF Moving
      <4>8. q.assigned = e.seen /\ e.todo = _get_tasks_to_reschedule(q) /\ e.todo # <<>>
        BY <2>6, <3>2, <4>1, <4>5
      <4>9. /\ \A n \in N : \A p \in e.seen[n] : StaysOn(p, n)
            /\ \A n \in N \ unseen : Fits(n, e.seen[n])
        BY <2>6, <4>4
      <4>10. /\ e.todo \in Seq(Tasks)
             /\ \A p \in Range(e.todo) : \E n \in N : p \in e.seen[n]
             /\ PmemOf(e) \cap unseen = {} => Placed(e)
        BY <4>6, <4>7, <4>8, <4>9, ListedArePlaced
      <4>11. DOMAIN e.seen = N
        BY <2>6, <4>4
      <4> QED
        BY <2>3, <2>6, <3>2, <4>8, <4>9, <4>10, <4>11 DEF Rescheduling
    <3> QED
      BY <3>1, <3>2
  <2> QED
    BY <1>3, <2>5, <2>7, MovingHandler
<1> QED
  BY <1>4, <1>5

\* At first no handler does anything.
LEMMA InitMoving == Init => Moving
<1> SUFFICES ASSUME Init PROVE Moving
  OBVIOUS
<1>2. Idle.step = "done"
  BY DEF Idle
<1>3. \A h \in Handlers : Rescheduling(handler[h])
  BY <1>2 DEF Init, Rescheduling
<1>4. \A n \in DOMAIN cached : cached[n] = NodeType[n]
  BY DEF Init
<1>5. scheduler.step = "idle"
  BY WaitingFields DEF Init
<1> QED
  BY <1>3, <1>4, <1>5 DEF Moving

\* Every step keeps what is known of moves.
LEMMA NextMoving == IInv /\ Moving /\ [Next]_vars => Moving'
<1> SUFFICES ASSUME IInv, Moving, [Next]_vars PROVE Moving'
  OBVIOUS
<1>1. ASSUME NEW h \in Handlers, Serve(h)
      PROVE  Moving'
  BY <1>1, MovingReads, MovingReadPods, MovingCountWrite, MovingReschedule, MovingDelete DEF Serve
<1>2. CASE KubeScheduler
  BY <1>2, MovingRequests, MovingBind DEF KubeScheduler
<1>3. CASE Timeout
  BY <1>3, MovingTimeout
<1>4. CASE \E h \in Handlers : CallReschedule(h)
  BY <1>4, MovingRequests
<1>5. CASE \/ \E n \in Nodes : NodeJoins(n)
           \/ AppsProfiled
           \/ \E p \in Tasks : PodStarted(p)
           \/ UNCHANGED vars
  BY <1>5, MovingCluster
<1> QED
  BY <1>1, <1>2, <1>3, <1>4, <1>5 DEF Next

-----------------------------------------------------------------------------
\* The inductive invariant of the extender, its requests and the cluster.
THEOREM Invariance == Spec => []IInv
<1> QED
    BY InitIInv, NextIInv, PTL DEF Spec

\* Every variable keeps its type, a pod that was bound has a node, and a handler
\* knows nodes of the cluster only (server.py, cluster_data_provider.py).
THEOREM TypeCorrect == Spec => []TypeOK
<1>1. IInv => TypeOK
    BY DEF IInv, Types, Holds, TypeOK
<1> QED
    BY <1>1, Invariance, PTL

\* For any cluster and any number of handlers, pods fit their node unless it was
\* decided on without having seen all its pods (algorithms/fit.py app_fit_node,
\* algorithms/base.py filter, cluster_data_provider.py get_apps_counts).
THEOREM PodsFitUnlessUnseen == Spec => []FitsUnlessUnseen
<1>1. IInv => FitsUnlessUnseen
    BY DEF IInv, Types, Room, FitsUnlessUnseen
<1> QED
    BY <1>1, Invariance, PTL

\* For any cluster and any number of handlers and timeouts, handlers that add at the
\* same time undo each other's additions only to a counter of requests of which
\* kube-scheduler abandoned one (metrics.py MetricRegistry.add, server.py).
THEOREM RequestsAreCounted == Spec => []Counted
<1>1. IInv => Counted
    BY DEF IInv, Counting, Counted
<1> QED
    BY <1>1, Invariance, PTL

\* For any cluster, what Score deletes fits: there is a pmem node for each pod that
\* is taken from a dram node, unless one of them was overfilled unseen
\* (algorithms/score.py _get_tasks_to_reschedule, server.py reschedule_once).
THEOREM MovesFit == Spec => []MovesHaveRoom
<1>1. IInv /\ Moving => MovesHaveRoom
  <2> SUFFICES ASSUME IInv, Moving, NEW h \in Handlers, handler[h].step = "delete",
                      PmemOf(handler[h]) \cap unseen = {}
               PROVE  Placed(handler[h])
    BY Zenon DEF MovesHaveRoom, Placed, PmemOf, StayingOn, ComingOf
  <2>1. handler[h].op = "reschedule" /\ Rescheduling(handler[h])
    BY DEF IInv, Types, Holds, Moving
  <2> QED
    BY <2>1 DEF Rescheduling
<1> QED
  BY <1>1, InitIInv, NextIInv, InitMoving, NextMoving, PTL DEF Spec

=============================================================================
