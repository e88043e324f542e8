---------------------------- MODULE Stats_proofs -----------------------------
(***************************************************************************)
(* Proofs about what the statistics page shows, for any consoles, games,   *)
(* places and endpoints and any number of passes and samples.              *)
(*                                                                         *)
(* Metrics: RatesTrueAlways, where the counters fit their type.            *)
(* MetricsInv relates what the sampler kept to the counters now and to     *)
(* what happened to them since.                                            *)
(*                                                                         *)
(* The dashboard: CountsTrueAlways and AskedOnceAlways.  DashboardInv says *)
(* of a pass what it has added up so far, endpoint by endpoint, and of an  *)
(* address that it is looked up, known or neither, once for all consoles   *)
(* in it.  What MapThenSumSet adds up is established first, by induction   *)
(* over the least counterexample.                                          *)
(***************************************************************************)
EXTENDS Metrics, Dashboard, FiniteSetTheorems, WellFoundedInduction, TLAPS

------------------------------------------------------------------------------
(* Metrics *)

\* The counters of the kernel, a sample, and what a sample shows
Kernel == [idle : Nat, total : Nat, eth : Nat, wlan : Nat]
LastSample == [idle : Nat, total : Nat, net : Nat, set : BOOLEAN]
Since == [sent : Nat, back : BOOLEAN, lost : BOOLEAN]

MetricsTypes ==
    /\ kernel \in Kernel /\ last \in LastSample /\ since \in Since
    /\ kernel.total <= MaxKernel /\ kernel.eth + kernel.wlan <= MaxKernel
    /\ since.sent <= MaxKernel

\* What happened to the counters since the last sample is what since says.
SinceLast ==
    /\ last.total # 0 =>
          /\ last.total <= kernel.total
          /\ since.back \/ (kernel.idle - last.idle) \in 0..(kernel.total - last.total)
    /\ last.set => since.lost \/ kernel.eth + kernel.wlan = last.net + since.sent

MetricsInv == MetricsTypes /\ SinceLast /\ RatesTrue

\* Counters that do not wrap around have the difference of numbers.
LEMMA SmallMinus ==
    ASSUME MaxKernel < UInt, NEW a \in Nat, NEW b \in Nat, b <= a, a - b <= MaxKernel
    PROVE  Minus(a, b) = a - b
<1>1. UInt \in Nat /\ MaxKernel \in Nat
  BY MetricsAssumption
<1>2. a - b \in 0..(UInt - 1)
  BY <1>1
<1>3. QED
  BY <1>1, <1>2 DEF Minus

\* Nothing is compared before the first sample.
LEMMA MetricsInitInv == MetricsInit => MetricsInv
<1> SUFFICES ASSUME MetricsInit PROVE MetricsInv
  OBVIOUS
<1>1. MetricsTypes
  BY MetricsAssumption
  DEF MetricsInit, MetricsTypes, Kernel, LastSample, Since, Nothing
<1>2. SinceLast
  BY DEF MetricsInit, SinceLast
<1>3. RatesTrue
  BY DEF MetricsInit, RatesTrue, Nothing
<1>4. QED
  BY <1>1, <1>2, <1>3 DEF MetricsInv

\* A round of the loop shows what happened since the last one.
LEMMA SampleInv ==
    ASSUME MaxKernel < UInt, MetricsInv, NEW c \in BOOLEAN, NEW n \in BOOLEAN, Sample(c, n)
    PROVE  MetricsInv'
<1> DEFINE idle == IF c THEN kernel.idle ELSE 0
           total == IF c THEN kernel.total ELSE 0
           net == IF n THEN kernel.eth + kernel.wlan ELSE 0
           of == IF Comparable(total) THEN Minus(total, last.total) ELSE 0
           busy == IF of = 0 THEN 0 ELSE of - Minus(idle, last.idle)
           shown == IF KnownTime THEN Minus(net, last.net) ELSE 0
<1>1. /\ MetricsTypes /\ SinceLast
      /\ kernel.idle \in Nat /\ kernel.total \in Nat /\ kernel.eth \in Nat /\ kernel.wlan \in Nat
      /\ last.idle \in Nat /\ last.total \in Nat /\ last.net \in Nat
      /\ since.sent \in Nat /\ since.sent <= MaxKernel /\ kernel.total <= MaxKernel
      /\ MaxKernel \in Nat
  BY MetricsAssumption DEF MetricsInv, MetricsTypes, Kernel, LastSample, Since
<1>2. /\ kernel' = kernel
      /\ last' = [idle |-> idle, total |-> total, net |-> net, set |-> TRUE]
      /\ since' = [sent |-> 0, back |-> FALSE, lost |-> ~n]
      /\ sampled' = [since EXCEPT !.lost = @ \/ ~n]
      /\ snap' = [of |-> of, busy |-> busy, net |-> shown]
  BY DEF Sample, Nothing
<1>3. idle \in Nat /\ total \in Nat /\ net \in Nat
  BY <1>1
<1>4. MetricsTypes'
  <2>1. last' \in LastSample /\ since' \in Since /\ since'.sent = 0
    BY <1>2, <1>3 DEF LastSample, Since
  <2>2. QED
    BY <1>1, <1>2, <2>1 DEF MetricsTypes
<1>5. SinceLast'
  <2>1. /\ last'.idle = idle /\ last'.total = total /\ last'.net = net
        /\ since'.sent = 0 /\ (n \/ since'.lost)
    BY <1>2, Zenon
  <2>2. total # 0 => idle = kernel.idle /\ total = kernel.total
    OBVIOUS
  <2>3. ~n \/ net = kernel.eth + kernel.wlan
    OBVIOUS
  <2> HIDE DEF idle, total, net, of, busy, shown
  <2>4. ASSUME last'.total # 0
        PROVE  /\ last'.total <= kernel'.total
               /\ (kernel'.idle - last'.idle) \in 0..(kernel'.total - last'.total)
    BY <1>1, <1>2, <2>1, <2>2, <2>4
  <2>5. since'.lost \/ kernel'.eth + kernel'.wlan = last'.net + since'.sent
    BY <1>1, <1>2, <1>3, <2>1, <2>3
  <2>6. QED
    BY <2>4, <2>5 DEF SinceLast
<1>6. busy \in 0..of \/ since.back
  <2>1. CASE ~Comparable(total)
    BY <2>1
  <2>2. CASE Comparable(total) /\ ~since.back
    <3>1. c /\ idle = kernel.idle /\ total = kernel.total /\ last.total # 0 /\ total > last.total
      BY <1>1, <2>2 DEF Comparable
    <3>2. (idle - last.idle) \in 0..(total - last.total) /\ last.total <= total
      BY <1>1, <2>2, <3>1 DEF SinceLast
    <3> HIDE DEF idle, total
    <3>3. Minus(total, last.total) = total - last.total
      BY <1>1, <1>3, <3>1, <3>2, SmallMinus
    <3>4. Minus(idle, last.idle) = idle - last.idle
      <4>1. last.idle <= idle /\ idle - last.idle <= MaxKernel
        BY <1>1, <1>3, <3>1, <3>2
      <4>2. QED
        BY <1>1, <1>3, <4>1, SmallMinus
    <3>5. QED
      BY <1>1, <1>3, <2>2, <3>2, <3>3, <3>4
  <2>3. QED
    BY <2>1, <2>2
<1>7. shown <= since.sent \/ since.lost \/ ~n
  <2>1. CASE ~KnownTime
    BY <1>1, <2>1
  <2>2. CASE KnownTime /\ ~since.lost /\ n
    <3>1. net = last.net + since.sent
      BY <1>1, <2>2 DEF SinceLast, KnownTime
    <3> HIDE DEF net
    <3>2. Minus(net, last.net) = net - last.net
      <4>1. last.net <= net /\ net - last.net <= MaxKernel
        BY <1>1, <1>3, <3>1
      <4>2. QED
        BY <1>1, <1>3, <4>1, SmallMinus
    <3>3. QED
      BY <1>1, <2>2, <3>1, <3>2
  <2>3. QED
    BY <2>1, <2>2
<1>8. RatesTrue'
  <2>1. /\ snap'.of = of /\ snap'.busy = busy /\ snap'.net = shown
    BY <1>2
  <2>2. since \in Since
    BY <1>1 DEF MetricsTypes
  <2>3. sampled'.back = since.back /\ sampled'.sent = since.sent /\ sampled'.lost = (since.lost \/ ~n)
    BY <1>2, <2>2 DEF Since
  <2> HIDE DEF idle, total, net, of, busy, shown
  <2>4. QED
    BY <1>6, <1>7, <2>1, <2>3, Zenon DEF RatesTrue
<1>9. QED
  BY <1>4, <1>5, <1>8 DEF MetricsInv

\* The kernel counts on, its idle counter goes back or an interface vanishes: since says so.
LEMMA KernelInv ==
    ASSUME MetricsInv, UNCHANGED <<last, snap, sampled>>,
           \/ \E i, b, e, w \in 0..1 : Counts(i, b, e, w)
           \/ IdleGoesBack \/ InterfaceVanishes
    PROVE  MetricsInv'
<1>0. RatesTrue'
  BY DEF MetricsInv, RatesTrue
<1>1. /\ kernel \in Kernel /\ last \in LastSample /\ since \in Since
      /\ kernel.idle \in Nat /\ kernel.total \in Nat /\ kernel.eth \in Nat /\ kernel.wlan \in Nat
      /\ last.idle \in Nat /\ last.total \in Nat /\ last.net \in Nat
      /\ since.sent \in Nat /\ MaxKernel \in Nat
      /\ kernel.total <= MaxKernel /\ kernel.eth + kernel.wlan <= MaxKernel /\ since.sent <= MaxKernel
      /\ SinceLast
  BY MetricsAssumption DEF MetricsInv, MetricsTypes, Kernel, LastSample, Since
<1>2. ASSUME NEW i \in 0..1, NEW b \in 0..1, NEW e \in 0..1, NEW w \in 0..1, Counts(i, b, e, w)
      PROVE  MetricsTypes' /\ SinceLast'
  <2>1. /\ kernel' = [idle |-> kernel.idle + i, total |-> kernel.total + i + b,
                      eth |-> kernel.eth + e, wlan |-> kernel.wlan + w]
        /\ since' = [since EXCEPT !.sent = @ + e + w]
        /\ kernel.total + i + b <= MaxKernel
        /\ kernel.eth + kernel.wlan + e + w <= MaxKernel /\ since.sent + e + w <= MaxKernel
    BY <1>2 DEF Counts
  <2>2. /\ kernel'.idle = kernel.idle + i /\ kernel'.total = kernel.total + i + b
        /\ kernel'.eth = kernel.eth + e /\ kernel'.wlan = kernel.wlan + w /\ kernel' \in Kernel
    BY <1>1, <2>1 DEF Kernel
  <2>3. /\ since'.sent = since.sent + e + w /\ since'.back = since.back /\ since'.lost = since.lost
        /\ since' \in Since
    BY <1>1, <2>1 DEF Since
  <2>4. MetricsTypes'
    BY <1>1, <2>1, <2>2, <2>3 DEF MetricsTypes
  <2>5. SinceLast'
    BY <1>1, <2>2, <2>3 DEF SinceLast
  <2>6. QED
    BY <2>4, <2>5
<1>3. ASSUME IdleGoesBack PROVE MetricsTypes' /\ SinceLast'
  <2>1. /\ kernel'.total = kernel.total + 1 /\ kernel'.eth = kernel.eth
        /\ kernel'.wlan = kernel.wlan /\ kernel' \in Kernel
        /\ kernel.total < MaxKernel
    <3>1. kernel.idle - 1 \in Nat /\ kernel.total + 1 \in Nat /\ kernel.total < MaxKernel
      BY <1>1, <1>3 DEF IdleGoesBack
    <3>2. kernel' = [kernel EXCEPT !.idle = kernel.idle - 1, !.total = kernel.total + 1]
      BY <1>3 DEF IdleGoesBack
    <3>3. QED
      BY <1>1, <3>1, <3>2, Zenon DEF Kernel
  <2>2. since'.sent = since.sent /\ since'.back /\ since'.lost = since.lost /\ since' \in Since
    BY <1>1, <1>3, Zenon DEF IdleGoesBack, Since
  <2>3. MetricsTypes'
    BY <1>1, <2>1, <2>2 DEF MetricsTypes
  <2>4. SinceLast'
    BY <1>1, <2>1, <2>2 DEF SinceLast
  <2>5. QED
    BY <2>3, <2>4
<1>4. ASSUME InterfaceVanishes PROVE MetricsTypes' /\ SinceLast'
  <2>1. /\ kernel'.idle = kernel.idle /\ kernel'.total = kernel.total
        /\ kernel'.eth = kernel.eth /\ kernel'.wlan = 0 /\ kernel' \in Kernel
    BY <1>1, <1>4 DEF InterfaceVanishes, Kernel
  <2>2. since'.sent = since.sent /\ since'.back = since.back /\ since'.lost /\ since' \in Since
    BY <1>1, <1>4, Zenon DEF InterfaceVanishes, Since
  <2>3. MetricsTypes'
    BY <1>1, <2>1, <2>2 DEF MetricsTypes
  <2>4. SinceLast'
    BY <1>1, <2>1, <2>2 DEF SinceLast
  <2>5. QED
    BY <2>3, <2>4
<1>5. QED
  BY <1>0, <1>2, <1>3, <1>4 DEF MetricsInv

\* The sampler of metrics.go, for counters of any width: as long as the kernel's counters do
\* not wrap around between samples, the rates are true, with RatesTrue's exceptions.
THEOREM RatesTrueAlways ==
    ASSUME MaxKernel < UInt
    PROVE  MetricsSpec => []RatesTrue
<1>1. MetricsInv /\ [MetricsNext]_kvars => MetricsInv'
  <2> SUFFICES ASSUME MetricsInv, [MetricsNext]_kvars PROVE MetricsInv'
    OBVIOUS
  <2>1. ASSUME NEW c \in BOOLEAN, NEW n \in BOOLEAN, Sample(c, n) PROVE MetricsInv'
    BY <2>1, SampleInv
  <2>2. CASE \/ \E i, b, e, w \in 0..1 : Counts(i, b, e, w)
             \/ IdleGoesBack \/ InterfaceVanishes
    <3>1. UNCHANGED <<last, snap, sampled>>
      BY <2>2 DEF Counts, IdleGoesBack, InterfaceVanishes
    <3>2. QED
      BY <2>2, <3>1, KernelInv
  <2>3. CASE UNCHANGED kvars
    BY <2>3 DEF kvars, MetricsInv, MetricsTypes, SinceLast, RatesTrue
  <2>4. QED
    BY <2>1, <2>2, <2>3 DEF MetricsNext
<1>2. MetricsInv => RatesTrue
  BY DEF MetricsInv
<1>3. QED
  BY <1>1, <1>2, MetricsInitInv, PTL DEF MetricsSpec

------------------------------------------------------------------------------
(* The dashboard *)

\* A set of numbers has a least one: what the induction over sets rests on.
LEMMA Least ==
    ASSUME NEW T, T \subseteq Nat, T # {}
    PROVE  \E x \in T : \A y \in T : x <= y
<1> DEFINE R == OpToRel(<, Nat)
<1>1. IsWellFoundedOn(R, Nat) BY NatLessThanWellFounded, Zenon
<1> HIDE DEF R
<1>2. PICK x \in T : \A y \in T : ~ (<<y, x>> \in R)
  BY <1>1, WFMin, Zenon
<1>3. \A y \in T : y < x => <<y, x>> \in R
  BY DEF R, OpToRel
<1>4. x \in Nat /\ \A y \in T : y \in Nat /\ ~(y < x) BY <1>2, <1>3, Zenon
<1>5. \A y \in T : x <= y BY <1>4
<1> QED BY <1>5

\* The sum of a function over a set
Total(f, S) == MapThenSumSet(LAMBDA c : f[c], S)

Chosen(s) == CHOOSE x \in s : TRUE

SumStep(g, f, s) == IF s = {} THEN 0 ELSE f[Chosen(s)] + g[s \ {Chosen(s)}]

\* g[s] is the sum of f over each part s of S, as MapThenFoldSet defines it.
SumFun(g, f, S) == g = [s \in SUBSET S |-> SumStep(g, f, s)]

\* The total of a map over a set, by the function that MapThenSumSet chooses.
LEMMA TotalDef ==
    ASSUME NEW f, NEW S
    PROVE  Total(f, S) = (CHOOSE g : SumFun(g, f, S))[S]
BY Zenon DEF Total, MapThenSumSet, MapThenFoldSet, SumFun, SumStep, Chosen

\* The parts of a finite set without an element
LEMMA Smaller ==
    ASSUME NEW S, IsFiniteSet(S), NEW s \in SUBSET S
    PROVE  /\ IsFiniteSet(s) /\ Cardinality(s) \in Nat
           /\ Cardinality(s) = 0 <=> s = {}
           /\ s # {} => Chosen(s) \in s
           /\ \A x \in s : /\ s \ {x} \in SUBSET S
                           /\ Cardinality(s \ {x}) = Cardinality(s) - 1
<1>1. IsFiniteSet(s) /\ Cardinality(s) \in Nat
  BY FS_Subset, FS_CardinalityType
<1>2. Cardinality(s) = 0 <=> s = {}
  BY <1>1, FS_EmptySet
<1>3. s # {} => Chosen(s) \in s
  BY DEF Chosen
<1>4. \A x \in s : Cardinality(s \ {x}) = Cardinality(s) - 1
  BY <1>1, FS_RemoveElement, Zenon
<1>5. QED
  BY <1>1, <1>2, <1>3, <1>4

\* MapThenFoldSet's recursion over a finite set defines a function.
LEMMA SumFunExists ==
    ASSUME NEW S, IsFiniteSet(S), NEW f
    PROVE  \E g : SumFun(g, f, S)
<1> DEFINE Upto(n) == {s \in SUBSET S : Cardinality(s) <= n}
           Partial(h, n) == h = [s \in Upto(n) |-> SumStep(h, f, s)]
           T == {n \in Nat : ~\E h : Partial(h, n)}
<1>1. T = {}
  <2> SUFFICES ASSUME T # {} PROVE FALSE
    BY Zenon
  <2>1. PICK m \in T : \A n \in T : m <= n
    BY Least, Zenon
  <2>2. m \in Nat /\ ~\E h : Partial(h, m)
    BY <2>1, Zenon
  <2>3. CASE m = 0
    <3> DEFINE h == [s \in Upto(0) |-> 0]
    <3>1. \A s \in Upto(0) : s = {}
      BY Smaller
    <3>2. \A s \in Upto(0) : SumStep(h, f, s) = 0
      BY <3>1 DEF SumStep
    <3>3. Partial(h, 0)
      BY <3>2
    <3>4. QED
      BY <2>2, <2>3, <3>3, Zenon
  <2>4. CASE m # 0
    <3>1. m - 1 \in Nat /\ m - 1 \notin T
      <4> HIDE DEF T
      <4> QED
        BY <2>1, <2>2, <2>4
    <3>2. PICK h : Partial(h, m - 1)
      BY <3>1, Zenon
    <3> DEFINE k == [s \in Upto(m) |-> SumStep(h, f, s)]
    <3>3. \A s \in Upto(m - 1) : s \in Upto(m) /\ h[s] = k[s]
      <4>1. ASSUME NEW s \in Upto(m - 1) PROVE s \in Upto(m) /\ h[s] = SumStep(h, f, s)
        <5>1. s \in Upto(m)
          BY <2>2, Smaller
        <5>2. h[s] = SumStep(h, f, s)
          BY <3>2, Zenon
        <5>3. QED
          BY <5>1, <5>2
      <4> HIDE DEF Upto
      <4>2. QED
        BY <4>1
    <3>4. \A s \in Upto(m) : s # {} => s \ {Chosen(s)} \in Upto(m - 1)
      BY <2>2, Smaller
    <3> HIDE DEF Upto
    <3>5. \A s \in Upto(m) : s # {} => h[s \ {Chosen(s)}] = k[s \ {Chosen(s)}]
      BY <3>3, <3>4, Zenon
    <3>6. \A s \in Upto(m) : SumStep(h, f, s) = SumStep(k, f, s)
      <4> HIDE DEF k
      <4> QED
        BY <3>5, Zenon DEF SumStep
    <3>7. Partial(k, m)
      BY <3>6, Zenon
    <3>8. QED
      BY <2>2, <3>7, Zenon
  <2>5. QED
    BY <2>3, <2>4
<1>2. Cardinality(S) \in Nat /\ Upto(Cardinality(S)) = SUBSET S
  BY FS_CardinalityType, FS_Subset
<1>3. PICK h : Partial(h, Cardinality(S))
  BY <1>1, <1>2, Zenon
<1>4. SumFun(h, f, S)
  BY <1>2, <1>3 DEF SumFun
<1>5. QED
  BY <1>4

\* Two such functions agree on the sets both are defined for.
LEMMA SumFunUnique ==
    ASSUME NEW S, IsFiniteSet(S), NEW T \in SUBSET S, NEW f, NEW g, NEW h,
           SumFun(g, f, S), SumFun(h, f, T)
    PROVE  \A s \in SUBSET T : g[s] = h[s]
<1> DEFINE Bad == {s \in SUBSET T : g[s] # h[s]}
           N == {Cardinality(s) : s \in Bad}
<1> SUFFICES ASSUME Bad # {} PROVE FALSE
  OBVIOUS
<1>1. N \subseteq Nat /\ N # {}
  BY Smaller
<1>2. PICK n \in N : \A k \in N : n <= k
  BY <1>1, Least, Zenon
<1>3. PICK s \in Bad : Cardinality(s) = n
  BY <1>2
<1>4. s \in SUBSET T /\ s \in SUBSET S /\ g[s] # h[s]
  BY <1>3
<1>5. g[s] = SumStep(g, f, s) /\ h[s] = SumStep(h, f, s)
  BY <1>4, Zenon DEF SumFun
<1>6. s # {}
  BY <1>4, <1>5 DEF SumStep
<1>7. /\ s \ {Chosen(s)} \in SUBSET T
      /\ Cardinality(s \ {Chosen(s)}) < Cardinality(s)
  <2>1. Chosen(s) \in s /\ Cardinality(s) \in Nat
    BY <1>4, <1>6, Smaller
  <2>2. Cardinality(s \ {Chosen(s)}) = Cardinality(s) - 1
    BY <1>4, <2>1, Smaller
  <2>3. QED
    BY <1>4, <2>1, <2>2
<1>8. s \ {Chosen(s)} \notin Bad
  BY <1>1, <1>2, <1>3, <1>7
<1>9. g[s \ {Chosen(s)}] = h[s \ {Chosen(s)}]
  BY <1>7, <1>8
<1>10. QED
  BY <1>4, <1>5, <1>6, <1>9 DEF SumStep

\* The sums over the parts of S are numbers, and any element can be taken off first.
LEMMA SumFunRemove ==
    ASSUME NEW D, NEW f \in [D -> Nat], NEW S \in SUBSET D, IsFiniteSet(S), NEW g, SumFun(g, f, S)
    PROVE  \A s \in SUBSET S : g[s] \in Nat /\ \A x \in s : g[s] = f[x] + g[s \ {x}]
<1> DEFINE Good(s) == g[s] \in Nat /\ \A x \in s : g[s] = f[x] + g[s \ {x}]
           Bad == {s \in SUBSET S : ~Good(s)}
           N == {Cardinality(s) : s \in Bad}
<1> SUFFICES ASSUME Bad # {} PROVE FALSE
  OBVIOUS
<1>b. Bad \subseteq SUBSET S
  OBVIOUS
<1>1. N \subseteq Nat /\ N # {}
  <2> HIDE DEF Bad
  <2>1. \A t \in Bad : Cardinality(t) \in Nat
    BY <1>b, Smaller
  <2>2. QED
    BY <2>1
<1>2. PICK n \in N : \A k \in N : n <= k
  BY <1>1, Least, Zenon
<1>3. PICK s \in Bad : Cardinality(s) = n
  BY <1>2
<1>4. s \in SUBSET S /\ ~Good(s)
  BY <1>3
<1>5. g[s] = SumStep(g, f, s)
  BY <1>4, Zenon DEF SumFun
<1>6. s # {}
  <2>1. SUFFICES ASSUME s = {} PROVE Good(s)
    BY <1>4
  <2>2. g[s] = 0
    BY <1>5, <2>1 DEF SumStep
  <2>3. QED
    BY <2>1, <2>2
<1>7. ASSUME NEW t \in SUBSET S, Cardinality(t) = Cardinality(s) - 1 PROVE Good(t)
  <2>1. Cardinality(t) \in Nat /\ Cardinality(s) \in Nat
    BY <1>4, Smaller
  <2>2. t \notin Bad
    BY <1>2, <1>3, <1>7, <2>1
  <2>3. QED
    BY <2>2
<1> DEFINE c == Chosen(s)
<1>8. c \in s /\ \A x \in s : s \ {x} \in SUBSET S /\ Cardinality(s \ {x}) = Cardinality(s) - 1
  BY <1>4, <1>6, Smaller
<1>9. \A x \in s : Good(s \ {x}) /\ f[x] \in Nat
  BY <1>4, <1>7, <1>8
<1>10. g[s] = f[c] + g[s \ {c}]
  BY <1>5, <1>6 DEF SumStep
<1> HIDE DEF c
<1>11. g[s] \in Nat
  <2>1. f[c] \in Nat /\ g[s \ {c}] \in Nat
    BY <1>8, <1>9
  <2> HIDE DEF Bad
  <2>2. QED
    BY <1>10, <2>1
<1>12. ASSUME NEW x \in s PROVE g[s] = f[x] + g[s \ {x}]
  <2>1. CASE x = c
    BY <1>10, <2>1
  <2>2. CASE x # c
    <3>1. x \in s \ {c} /\ c \in s \ {x} /\ (s \ {c}) \ {x} = (s \ {x}) \ {c}
      BY <1>8, <2>2
    <3>2. g[s \ {c}] = f[x] + g[(s \ {c}) \ {x}]
      BY <1>8, <1>9, <3>1
    <3>3. g[s \ {x}] = f[c] + g[(s \ {c}) \ {x}]
      BY <1>8, <1>9, <3>1
    <3>4. g[(s \ {c}) \ {x}] \in Nat
      <4>1. IsFiniteSet(s \ {c}) /\ (s \ {c}) \ {x} \in SUBSET S
        BY <1>8, Smaller
      <4>2. CASE (s \ {c}) \ {x} \in Bad
        <5>1. Cardinality((s \ {c}) \ {x}) = Cardinality(s \ {c}) - 1
          <6>1. IsFiniteSet(s \ {c})
            BY <1>4, <1>8, Smaller
          <6>2. QED
            BY <3>1, <6>1, FS_RemoveElement, ZenonT(30)
        <5>2. Cardinality(s) \in Nat /\ Cardinality(s \ {c}) = Cardinality(s) - 1
          BY <1>4, <1>8, Smaller, SMTT(30)
        <5>3. n <= Cardinality((s \ {c}) \ {x})
          BY <1>2, <4>2, Zenon
        <5> HIDE DEF Bad, N
        <5>4. QED
          BY <1>3, <5>1, <5>2, <5>3
      <4>3. QED
        BY <4>1, <4>2
    <3>5. f[x] \in Nat /\ f[c] \in Nat
      BY <1>8, <1>9
    <3>6. QED
      BY <1>10, <3>2, <3>3, <3>4, <3>5
  <2>3. QED
    BY <2>1, <2>2
<1>13. QED
  BY <1>4, <1>11, <1>12

\* What is needed of sums: over nothing, and with one element more
LEMMA TotalFacts ==
    ASSUME NEW D, NEW f \in [D -> Nat], NEW S \in SUBSET D, IsFiniteSet(S)
    PROVE  /\ Total(f, S) \in Nat
           /\ Total(f, {}) = 0
           /\ \A x \in S : Total(f, S) = f[x] + Total(f, S \ {x})
<1>1. ASSUME NEW T \in SUBSET S
      PROVE  \E h : SumFun(h, f, T) /\ Total(f, T) = h[T]
  <2>1. IsFiniteSet(T)
    BY FS_Subset
  <2> DEFINE h == CHOOSE g : SumFun(g, f, T)
  <2>2. SumFun(h, f, T)
    BY <2>1, SumFunExists
  <2>3. Total(f, T) = h[T]
    BY TotalDef
  <2>4. QED
    BY <2>2, <2>3, Zenon
<1>2. PICK g : SumFun(g, f, S) /\ Total(f, S) = g[S]
  BY <1>1
<1>3. ASSUME NEW T \in SUBSET S PROVE Total(f, T) = g[T]
  <2>1. PICK h : SumFun(h, f, T) /\ Total(f, T) = h[T]
    BY <1>1
  <2>2. \A s \in SUBSET T : g[s] = h[s]
    BY <1>2, <2>1, SumFunUnique
  <2>3. QED
    BY <2>1, <2>2
<1>4. g[{}] = 0
  <2>1. {} \in SUBSET S
    OBVIOUS
  <2>2. g[{}] = SumStep(g, f, {})
    BY <1>2, <2>1, Zenon DEF SumFun
  <2>3. QED
    BY <2>2 DEF SumStep
<1>5. \A s \in SUBSET S : g[s] \in Nat /\ \A x \in s : g[s] = f[x] + g[s \ {x}]
  BY <1>2, SumFunRemove
<1>6. QED
  BY <1>3, <1>4, <1>5, Zenon

\* A sum over two sets counts what is in both at least once, and twice at most.
LEMMA TotalUnion ==
    ASSUME NEW D, IsFiniteSet(D), NEW f \in [D -> Nat], NEW S \in SUBSET D, NEW T \in SUBSET D
    PROVE  /\ Total(f, S) <= Total(f, S \cup T)
           /\ Total(f, S \cup T) <= Total(f, S) + Total(f, T)
           /\ S \cap T = {} => Total(f, S \cup T) = Total(f, S) + Total(f, T)
<1> DEFINE Good(t) ==
               /\ Total(f, S) <= Total(f, S \cup t)
               /\ Total(f, S \cup t) <= Total(f, S) + Total(f, t)
               /\ S \cap t = {} => Total(f, S \cup t) = Total(f, S) + Total(f, t)
           Bad == {t \in SUBSET D : ~Good(t)}
           N == {Cardinality(t) : t \in Bad}
<1> SUFFICES ASSUME Bad # {} PROVE FALSE
  BY Zenon
<1>0. ASSUME NEW s \in SUBSET D
      PROVE  /\ Total(f, s) \in Nat /\ Total(f, {}) = 0
             /\ \A x \in s : Total(f, s) = f[x] + Total(f, s \ {x}) /\ f[x] \in Nat
  <2>1. IsFiniteSet(s)
    BY FS_Subset
  <2>2. QED
    BY <2>1, TotalFacts
<1>b. Bad \subseteq SUBSET D
  OBVIOUS
<1>1. N \subseteq Nat /\ N # {}
  <2> HIDE DEF Bad
  <2>1. \A t \in Bad : Cardinality(t) \in Nat
    BY <1>b, Smaller
  <2>2. QED
    BY <2>1
<1>2. PICK n \in N : \A k \in N : n <= k
  BY <1>1, Least, Zenon
<1>3. PICK t \in Bad : Cardinality(t) = n
  BY <1>2
<1>4. t \in SUBSET D /\ ~Good(t)
  BY <1>3
<1>5. t # {}
  <2>1. SUFFICES ASSUME t = {} PROVE Good(t)
    BY <1>4
  <2>2. S \cup t = S
    BY <2>1
  <2>3. Total(f, S) \in Nat /\ Total(f, t) = 0
    BY <1>0, <2>1
  <2> HIDE DEF Bad, N
  <2>4. QED
    BY <2>2, <2>3
<1>6. PICK x \in t : TRUE
  BY <1>5
<1> DEFINE r == t \ {x}
<1>7. r \in SUBSET D /\ Good(r)
  <2>1. r \in SUBSET D /\ Cardinality(r) = Cardinality(t) - 1 /\ Cardinality(t) \in Nat
    BY <1>4, Smaller, SMTT(30)
  <2>2. r \notin Bad
    <3> HIDE DEF Bad, r
    <3>1. r \in Bad => n <= Cardinality(r)
      BY <1>2
    <3>2. QED
      BY <1>3, <2>1, <3>1
  <2>3. QED
    BY <2>1, <2>2
<1>8. /\ Total(f, t) = f[x] + Total(f, r) /\ f[x] \in Nat /\ Total(f, r) \in Nat
      /\ Total(f, S) \in Nat /\ Total(f, S \cup r) \in Nat
  BY <1>0, <1>4, <1>7
<1>9. CASE x \in S
  <2>1. S \cup t = S \cup r /\ S \cap t # {}
    BY <1>9
  <2> HIDE DEF r
  <2>2. Good(t)
    BY <1>7, <1>8, <2>1, SMTT(30)
  <2>3. QED
    BY <1>4, <2>2
<1>10. CASE x \notin S
  <2>1. (S \cup t) \ {x} = S \cup r /\ x \in S \cup t /\ S \cup t \in SUBSET D
    BY <1>4, <1>10
  <2>2. S \cap t = {} => S \cap r = {}
    OBVIOUS
  <2>3. Total(f, S \cup t) = f[x] + Total(f, S \cup r)
    BY <1>0, <2>1, SMTT(30)
  <2> HIDE DEF r
  <2>4. Good(t)
    BY <1>7, <1>8, <2>2, <2>3, SMTT(30)
  <2>5. QED
    BY <1>4, <2>4
<1>11. QED
  BY <1>9, <1>10

------------------------------------------------------------------------------
(* The statistics page *)

Owners == [Consoles -> Nat]
Stage == {"idle", "endpoints", "places", "done"}

DashboardTypes ==
    /\ online \in [Endpoints -> SUBSET Consoles] /\ gatherings \in Owners
    /\ steady \subseteq Consoles /\ during \subseteq Consoles
    /\ geoInflight \subseteq Consoles
    /\ lookups \in Owners

\* What a pass has read: the endpoints one after the other
PassTypes ==
    /\ pass \in [at : Stage, owners : Owners, seen : Seq(SUBSET Consoles), rooms : Nat,
                 points : SUBSET (Consoles \X (Int \X Int))]
    /\ Len(pass.seen) <= GameCount
    /\ pass.at = "endpoints" => Len(pass.seen) < GameCount
    /\ pass.at \in {"places", "done"} => Len(pass.seen) = GameCount

\* A console that stayed is where it was, also when its endpoint was read; nobody else was
\* seen than those of whom the history knows.
Followed ==
    /\ \A c \in steady : \E e \in Endpoints :
           c \in online[e] /\ (e <= Len(pass.seen) => c \in pass.seen[e])
    /\ Everyone \subseteq during
    /\ Counted \subseteq during

\* The rooms counted are those of the consoles counted, of each at least once.
RoomsCounted ==
    /\ Total(pass.owners, Counted) <= pass.rooms
    /\ ~SeenTwice => pass.rooms = Total(pass.owners, Counted)

\* The area a public address is in
Area(c) == <<Snap(Place[c][1]), Snap(Place[c][2])>>

\* What the cache holds, and what has been taken from it
Located ==
    /\ DOMAIN geoCache \subseteq Consoles
    /\ \A c \in DOMAIN geoCache : geoCache[c] = NoPlace \/ (c \notin Local /\ geoCache[c] = Area(c))
    /\ \A pt \in pass.points : pt[1] \in during \ Local /\ pt[2] = Area(pt[1])

\* An address that was asked for is being looked up, or in the cache.
Asked ==
    \A c \in Consoles : /\ lookups[c] <= 1
                        /\ c \in Local => lookups[c] = 0
                        /\ lookups[c] # 0 => c \in DOMAIN geoCache \cup geoInflight

DashboardInv ==
    DashboardTypes /\ PassTypes /\ Followed /\ RoomsCounted /\ Located /\ Asked

\* A coordinate that is cut is less than 0.3 degrees off.
LEMMA SnapNear == \A x \in Int : Snap(x) \in Int /\ x - Snap(x) \in -2..2
<1> SUFFICES ASSUME NEW x \in Int PROVE Snap(x) \in Int /\ x - Snap(x) \in -2..2
  OBVIOUS
<1>1. ASSUME NEW y \in Nat PROVE (y \div 3) * 3 \in Int /\ y - (y \div 3) * 3 \in 0..2
  OBVIOUS
<1>2. CASE x >= 0
  BY <1>1, <1>2 DEF Snap
<1>3. CASE x < 0
  <2> DEFINE y == -x
  <2>1. y \in Nat /\ x = -y
    BY <1>3
  <2>2. Snap(x) = -((y \div 3) * 3)
    BY <1>3 DEF Snap
  <2> HIDE DEF y
  <2> DEFINE z == (y \div 3) * 3
  <2>3. z \in Int /\ y - z \in 0..2
    BY <1>1, <2>1
  <2>4. Snap(x) = -z
    BY <2>2
  <2> HIDE DEF z
  <2>5. QED
    BY <2>1, <2>3, <2>4
<1>4. QED
  BY <1>2, <1>3

\* geoLocate rounds a location to a pair of integers.
LEMMA AreaType == \A c \in Consoles : Area(c) \in Int \X Int
<1> SUFFICES ASSUME NEW c \in Consoles PROVE Area(c) \in Int \X Int
  OBVIOUS
<1>1. Place[c][1] \in Int /\ Place[c][2] \in Int
  BY DashboardAssumption
<1>2. QED
  BY <1>1, SnapNear DEF Area

\* A pass that is done has counted right.
LEMMA DashboardInvImplies == DashboardInv => CountsTrue /\ AskedOnce
<1> SUFFICES ASSUME DashboardInv PROVE CountsTrue /\ AskedOnce
  OBVIOUS
<1>1. AskedOnce
  <2>1. \A c \in Consoles : lookups[c] \in Nat
    BY DEF DashboardInv, DashboardTypes, Owners
  <2>2. QED
    BY <2>1 DEF DashboardInv, Asked, AskedOnce
<1>2. ASSUME pass.at = "done"
      PROVE  /\ steady \subseteq Counted /\ Counted \subseteq during
             /\ Total(pass.owners, steady) <= pass.rooms
             /\ ~SeenTwice => pass.rooms <= Total(pass.owners, during)
             /\ \A pt \in pass.points :
                   /\ pt[1] \in during \ Local
                   /\ \A k \in 1..2 : Place[pt[1]][k] - pt[2][k] \in -2..2
  <2>1. /\ Len(pass.seen) = GameCount /\ pass.seen \in Seq(SUBSET Consoles)
        /\ pass.owners \in [Consoles -> Nat] /\ pass.rooms \in Nat
        /\ GameCount \in Nat /\ IsFiniteSet(Consoles)
        /\ steady \in SUBSET Consoles /\ during \in SUBSET Consoles
    BY <1>2, DashboardAssumption DEF DashboardInv, PassTypes, Owners, DashboardTypes
  <2>2. steady \subseteq Counted
    BY <2>1, SMTT(30) DEF DashboardInv, Followed, Counted, Endpoints
  <2>3. Counted \subseteq during /\ Counted \in SUBSET Consoles
    BY <2>1 DEF DashboardInv, Followed
  <2>4. /\ Counted = steady \cup Counted /\ during = Counted \cup during
    BY <2>2, <2>3
  <2>5. /\ Total(pass.owners, steady) <= Total(pass.owners, Counted)
        /\ Total(pass.owners, Counted) <= Total(pass.owners, during)
    <3>1. /\ Total(pass.owners, steady) <= Total(pass.owners, steady \cup Counted)
          /\ Total(pass.owners, Counted) <= Total(pass.owners, Counted \cup during)
      BY <2>1, <2>3, TotalUnion, Zenon
    <3>2. QED
      BY <2>4, <3>1
  <2>6. /\ Total(pass.owners, steady) \in Nat /\ Total(pass.owners, Counted) \in Nat
        /\ Total(pass.owners, during) \in Nat
    BY <2>1, <2>3, TotalFacts, FS_Subset
  <2>7. ASSUME NEW pt \in pass.points
        PROVE  /\ pt[1] \in during \ Local
               /\ \A k \in 1..2 : Place[pt[1]][k] - pt[2][k] \in -2..2
    <3>1. pt[1] \in during \ Local /\ pt[2] = Area(pt[1]) /\ pt[1] \in Consoles
      BY <2>1 DEF DashboardInv, Located
    <3>2. Place[pt[1]][1] \in Int /\ Place[pt[1]][2] \in Int
      BY <3>1, DashboardAssumption
    <3>3. /\ Place[pt[1]][1] - pt[2][1] \in -2..2
          /\ Place[pt[1]][2] - pt[2][2] \in -2..2
      BY <3>1, <3>2, SnapNear DEF Area
    <3>4. QED
      BY <3>1, <3>3
  <2>8. QED
    BY <2>1, <2>2, <2>3, <2>5, <2>6, <2>7, SMTT(30) DEF DashboardInv, RoomsCounted
<1>3. CountsTrue
  BY <1>2, Zenon DEF CountsTrue, Total
<1>4. QED
  BY <1>1, <1>3

\* At first nobody is online and nothing has been read.
LEMMA DashboardInitInv == DashboardInit => DashboardInv
<1> SUFFICES ASSUME DashboardInit PROVE DashboardInv
  OBVIOUS
<1>0. GameCount \in Nat \ {0} /\ IsFiniteSet(Consoles)
  BY DashboardAssumption
<1>1. DashboardTypes
  BY DEF DashboardInit, DashboardTypes, Owners
<1>2. /\ pass.at = "idle" /\ pass.owners \in [Consoles -> Nat] /\ pass.seen = <<>>
      /\ pass.rooms = 0 /\ pass.points = {}
  BY DEF DashboardInit
<1>3. PassTypes
  <2>1. pass = [at |-> "idle", owners |-> gatherings, seen |-> <<>>, rooms |-> 0, points |-> {}]
    BY DEF DashboardInit
  <2>2. gatherings \in Owners
    BY DEF DashboardInit, Owners
  <2>3. QED
    BY <1>0, <2>1, <2>2 DEF PassTypes, Stage
<1>4. Counted = {} /\ Everyone = {} /\ steady = {}
  BY <1>2 DEF Counted, Everyone, DashboardInit
<1>5. Followed
  BY <1>4 DEF Followed
<1>6. Total(pass.owners, Counted) = 0
  <2>1. {} \in SUBSET Consoles /\ IsFiniteSet({})
    BY FS_EmptySet
  <2>2. QED
    BY <1>2, <1>4, <2>1, TotalFacts
<1>7. RoomsCounted
  BY <1>2, <1>6 DEF RoomsCounted
<1>8. Located
  BY <1>2 DEF Located, DashboardInit
<1>9. Asked
  BY DEF DashboardInit, Asked
<1>10. QED
  BY <1>1, <1>3, <1>5, <1>7, <1>8, <1>9 DEF DashboardInv

\* A console comes or goes: it is no longer one that stayed, and the history knows of it.
LEMMA MovesInv ==
    ASSUME DashboardInv, NEW c \in Consoles, NEW e \in Endpoints, NEW s \in SUBSET Consoles,
           online' = [online EXCEPT ![e] = s], s \ {c} = online[e] \ {c}, Track(c),
           UNCHANGED <<gatherings, pass, geoCache, geoInflight, lookups, passes>>
    PROVE  DashboardInv'
<1> USE DEF DashboardInv
<1>1. online \in [Endpoints -> SUBSET Consoles] /\ steady \subseteq Consoles /\ during \subseteq Consoles
  BY DEF DashboardTypes
<1>2. steady' = steady \ {c} /\ during' = during \cup {c}
  BY DEF Track
<1>3. /\ online' \in [Endpoints -> SUBSET Consoles]
      /\ \A d \in Endpoints : online'[d] \ {c} = online[d] \ {c}
  BY <1>1
<1>4. DashboardTypes'
  BY <1>1, <1>2, <1>3 DEF DashboardTypes
<1>5. PassTypes' /\ RoomsCounted' /\ Asked'
  BY DEF PassTypes, RoomsCounted, Asked, SeenTwice, Counted
<1>6. Located'
  BY <1>2 DEF Located
<1>7. Followed'
  <2>1. ASSUME NEW x \in steady'
        PROVE  \E d \in Endpoints : x \in online'[d] /\ (d <= Len(pass.seen) => x \in pass.seen[d])
    <3>1. x \in steady /\ x # c
      BY <1>2
    <3>2. PICK d \in Endpoints : x \in online[d] /\ (d <= Len(pass.seen) => x \in pass.seen[d])
      BY <3>1 DEF Followed
    <3>3. QED
      BY <1>3, <3>1, <3>2
  <2>2. Everyone' \subseteq during'
    BY <1>2, <1>3 DEF Followed, Everyone
  <2>3. Counted' \subseteq during'
    BY <1>2 DEF Followed, Counted
  <2>4. QED
    BY <2>1, <2>2, <2>3 DEF Followed
<1>8. QED
  BY <1>4, <1>5, <1>6, <1>7

\* registeredGatheringOwners begins a pass.
LEMMA ReadOwnersInv == DashboardInv /\ ReadOwners => DashboardInv'
<1> SUFFICES ASSUME DashboardInv, ReadOwners PROVE DashboardInv'
  OBVIOUS
<1> USE DEF DashboardInv
<1>0. GameCount \in Nat \ {0} /\ IsFiniteSet(Consoles)
  BY DashboardAssumption
<1>1. PICK owners \in {gatherings, [c \in Consoles |-> 0]} :
          pass' = [at |-> "endpoints", owners |-> owners, seen |-> <<>>, rooms |-> 0, points |-> {}]
  BY Zenon DEF ReadOwners
<1>2. owners \in Owners
  BY DEF DashboardTypes, Owners
<1>3. /\ pass'.at = "endpoints" /\ pass'.owners = owners /\ pass'.seen = <<>>
      /\ pass'.rooms = 0 /\ pass'.points = {}
  BY <1>1
<1>4. steady' = Everyone /\ during' = Everyone
      /\ UNCHANGED <<online, gatherings, geoCache, geoInflight, lookups, changes>>
  BY DEF ReadOwners
<1>5. Everyone \subseteq Consoles
  BY DEF DashboardTypes, Everyone
<1>6. DashboardTypes'
  BY <1>4, <1>5 DEF DashboardTypes
<1>7. PassTypes'
  BY <1>0, <1>1, <1>2, SMTT(30) DEF PassTypes, Stage
<1>8. Counted' = {} /\ Everyone' = Everyone
  BY <1>3, <1>4 DEF Counted, Everyone
<1>9. Followed'
  <2>1. \A c \in steady' : \E e \in Endpoints : c \in online'[e] /\ ~(e <= Len(pass'.seen))
    BY <1>0, <1>3, <1>4 DEF Everyone, Endpoints
  <2>2. QED
    BY <1>4, <1>8, <2>1 DEF Followed
<1>10. RoomsCounted'
  <2>1. Total(owners, {}) = 0
    <3>1. {} \in SUBSET Consoles /\ IsFiniteSet({})
      BY FS_EmptySet
    <3>2. QED
      BY <1>2, <3>1, TotalFacts DEF Owners
  <2>2. QED
    BY <1>3, <1>8, <2>1 DEF RoomsCounted
<1>11. Located' /\ Asked'
  BY <1>3, <1>4 DEF Located, Asked
<1>12. QED
  BY <1>6, <1>7, <1>9, <1>10, <1>11

\* endpointOnlinePIDs of the next endpoint: whoever stayed there is counted.
LEMMA ReadEndpointInv == DashboardInv /\ ReadEndpoint => DashboardInv'
<1> SUFFICES ASSUME DashboardInv, ReadEndpoint PROVE DashboardInv'
  OBVIOUS
<1> USE DEF DashboardInv
<1> DEFINE n == Len(pass.seen)
           pids == online[n + 1]
<1>0. GameCount \in Nat \ {0} /\ IsFiniteSet(Consoles)
  BY DashboardAssumption
<1>1. /\ pass \in [at : Stage, owners : Owners, seen : Seq(SUBSET Consoles), rooms : Nat,
                   points : SUBSET (Consoles \X (Int \X Int))]
      /\ n < GameCount /\ n \in Nat /\ pass.at = "endpoints"
      /\ pass.seen \in Seq(SUBSET Consoles) /\ pass.owners \in [Consoles -> Nat] /\ pass.rooms \in Nat
  BY DEF PassTypes, ReadEndpoint, Owners
<1>2. n + 1 \in Endpoints /\ pids \in SUBSET Consoles
  BY <1>0, <1>1 DEF Endpoints, DashboardTypes
<1>3. UNCHANGED <<online, gatherings, geoCache, geoInflight, lookups, steady, during, changes, passes>>
  BY DEF ReadEndpoint
<1>4. pass' = [pass EXCEPT !.seen = Append(pass.seen, pids),
                           !.rooms = pass.rooms + Total(pass.owners, pids),
                           !.at = IF n + 1 = GameCount THEN "places" ELSE "endpoints"]
  BY <1>1, Zenon DEF ReadEndpoint, RoomsOf, Total
<1>5. Total(pass.owners, pids) \in Nat
  BY <1>0, <1>1, <1>2, TotalFacts, FS_Subset
<1> HIDE DEF pids
<1>6. /\ pass'.seen = Append(pass.seen, pids) /\ pass'.rooms = pass.rooms + Total(pass.owners, pids)
      /\ pass'.at = (IF n + 1 = GameCount THEN "places" ELSE "endpoints")
      /\ pass'.owners = pass.owners /\ pass'.points = pass.points
  BY <1>1, <1>4
<1>7. /\ pass'.seen \in Seq(SUBSET Consoles) /\ Len(pass'.seen) = n + 1
      /\ pass'.seen[n + 1] = pids /\ \A i \in 1..n : pass'.seen[i] = pass.seen[i]
  BY <1>1, <1>2, <1>6
<1>8. PassTypes'
  <2>1. pass' \in [at : Stage, owners : Owners, seen : Seq(SUBSET Consoles), rooms : Nat,
                   points : SUBSET (Consoles \X (Int \X Int))]
    <3>1. /\ Append(pass.seen, pids) \in Seq(SUBSET Consoles)
          /\ pass.rooms + Total(pass.owners, pids) \in Nat
          /\ (IF n + 1 = GameCount THEN "places" ELSE "endpoints") \in Stage
      BY <1>1, <1>2, <1>5 DEF Stage
    <3>2. QED
      BY <1>1, <1>4, <3>1, Zenon
  <2>2. QED
    BY <1>0, <1>1, <1>6, <1>7, <2>1 DEF PassTypes
<1>9. Counted' = Counted \cup pids
  <2>1. DOMAIN pass.seen = 1..n /\ DOMAIN pass'.seen = 1..(n + 1)
    BY <1>1, <1>7
  <2>2. ASSUME NEW i \in DOMAIN pass'.seen PROVE pass'.seen[i] \subseteq Counted \cup pids
    <3>1. i = n + 1 \/ (i \in DOMAIN pass.seen /\ pass'.seen[i] = pass.seen[i])
      BY <1>1, <1>7, <2>1
    <3>2. QED
      BY <1>7, <3>1 DEF Counted
  <2>3. ASSUME NEW i \in DOMAIN pass.seen PROVE pass.seen[i] \subseteq Counted'
    <3>1. i \in DOMAIN pass'.seen /\ pass'.seen[i] = pass.seen[i]
      BY <1>1, <1>7, <2>1
    <3>2. QED
      BY <3>1 DEF Counted
  <2>4. pids \subseteq Counted'
    <3>1. n + 1 \in DOMAIN pass'.seen /\ pass'.seen[n + 1] = pids
      BY <1>1, <1>7, <2>1
    <3>2. QED
      BY <3>1 DEF Counted
  <2>5. QED
    BY <2>2, <2>3, <2>4 DEF Counted
<1>10. Followed'
  <2>1. ASSUME NEW c \in steady'
        PROVE  \E e \in Endpoints : c \in online'[e] /\ (e <= Len(pass'.seen) => c \in pass'.seen[e])
    <3>1. PICK e \in Endpoints : c \in online[e] /\ (e <= n => c \in pass.seen[e])
      BY <1>3 DEF Followed
    <3>2. e \in Nat /\ e >= 1
      BY <1>0 DEF Endpoints
    <3>3. e <= n + 1 => c \in pass'.seen[e]
      <4>1. CASE e = n + 1
        BY <1>7, <3>1, <4>1 DEF pids
      <4>2. CASE e <= n
        BY <1>7, <3>1, <3>2, <4>2
      <4>3. QED
        BY <1>1, <3>2, <4>1, <4>2
    <3>4. QED
      BY <1>3, <1>7, <3>1, <3>3
  <2>2. pids \subseteq Everyone
    BY <1>2 DEF Everyone, pids
  <2>3. Everyone' = Everyone
    BY <1>3 DEF Everyone
  <2>4. QED
    BY <1>3, <1>9, <2>1, <2>2, <2>3 DEF Followed
<1>11. RoomsCounted'
  <2>1. Counted \in SUBSET Consoles
    BY DEF Followed, DashboardTypes
  <2>2. /\ Total(pass.owners, Counted \cup pids) <= Total(pass.owners, Counted) + Total(pass.owners, pids)
        /\ Counted \cap pids = {} =>
               Total(pass.owners, Counted \cup pids) = Total(pass.owners, Counted) + Total(pass.owners, pids)
    <3>1. /\ IsFiniteSet(Consoles) /\ pass.owners \in [Consoles -> Nat]
          /\ Counted \in SUBSET Consoles /\ pids \in SUBSET Consoles
      BY <1>0, <1>1, <1>2, <2>1
    <3>2. QED
      <4> DEFINE f == pass.owners
                 S == Counted
      <4> HIDE DEF f, S
      <4>1. /\ Total(f, S \cup pids) <= Total(f, S) + Total(f, pids)
            /\ S \cap pids = {} => Total(f, S \cup pids) = Total(f, S) + Total(f, pids)
        <5>1. f \in [Consoles -> Nat] /\ S \in SUBSET Consoles
          BY <3>1 DEF f, S
        <5>2. QED
          BY <3>1, <5>1, TotalUnion
      <4>2. QED
        BY <4>1 DEF f, S
  <2>3. Total(pass.owners, Counted) \in Nat /\ Total(pass.owners, Counted \cup pids) \in Nat
    BY <1>0, <1>1, <1>2, <2>1, TotalFacts, FS_Subset, Zenon
  <2>4. ~SeenTwice' => ~SeenTwice /\ Counted \cap pids = {}
    <3>1. DOMAIN pass.seen = 1..n /\ DOMAIN pass'.seen = 1..(n + 1)
      BY <1>1, <1>7
    <3>2. SeenTwice => SeenTwice'
      <4> SUFFICES ASSUME NEW i \in 1..n, NEW j \in 1..n, i # j, pass.seen[i] \cap pass.seen[j] # {}
                   PROVE  SeenTwice'
        BY <3>1 DEF SeenTwice
      <4>1. i \in DOMAIN pass'.seen /\ j \in DOMAIN pass'.seen
        BY <1>1, <3>1
      <4>2. pass'.seen[i] = pass.seen[i] /\ pass'.seen[j] = pass.seen[j]
        BY <1>7
      <4>3. QED
        BY <4>1, <4>2, Zenon DEF SeenTwice
    <3>3. ASSUME NEW c \in Counted \cap pids PROVE SeenTwice'
      <4>1. PICK i \in 1..n : c \in pass.seen[i]
        BY <3>1 DEF Counted
      <4>2. i # n + 1 /\ i \in DOMAIN pass'.seen /\ n + 1 \in DOMAIN pass'.seen
        BY <1>1, <3>1
      <4>3. c \in pass'.seen[i] \cap pass'.seen[n + 1]
        BY <1>7, <4>1
      <4>4. QED
        BY <4>2, <4>3 DEF SeenTwice
    <3>4. QED
      BY <3>2, <3>3
  <2>5. Total(pass.owners, Counted) <= pass.rooms
    BY DEF RoomsCounted
  <2>6. Total(pass.owners, Counted \cup pids) <= pass'.rooms
    BY <1>1, <1>5, <1>6, <2>2, <2>3, <2>5
  <2>7. ~SeenTwice' => pass'.rooms = Total(pass.owners, Counted \cup pids)
    BY <1>6, <2>2, <2>4 DEF RoomsCounted
  <2>8. QED
    BY <1>6, <1>9, <2>6, <2>7 DEF RoomsCounted
<1>12. DashboardTypes' /\ Located' /\ Asked'
  BY <1>3, <1>6 DEF DashboardTypes, Located, Asked
<1>13. QED
  BY <1>8, <1>10, <1>11, <1>12

\* onlineLocations and geoLocate: what is shown comes from the cache, and what is not
\* there and not being looked up is asked for.
LEMMA ReadPlacesInv == DashboardInv /\ ReadPlaces => DashboardInv'
<1> SUFFICES ASSUME DashboardInv, ReadPlaces PROVE DashboardInv'
  OBVIOUS
<1> USE DEF DashboardInv
<1> DEFINE asked == {c \in Everyone : Unknown(c)}
           shown == {d \in Everyone \cap DOMAIN geoCache : geoCache[d] # NoPlace}
           points == {<<c, geoCache[c]>> : c \in shown}
<1>1. /\ pass \in [at : Stage, owners : Owners, seen : Seq(SUBSET Consoles), rooms : Nat,
                   points : SUBSET (Consoles \X (Int \X Int))]
      /\ pass.at = "places" /\ Len(pass.seen) = GameCount
  BY DEF PassTypes, ReadPlaces
<1>2. /\ pass' = [pass EXCEPT !.at = "done", !.points = points]
      /\ geoInflight' = geoInflight \cup asked
      /\ lookups' = [c \in Consoles |-> IF c \in asked \ Local THEN lookups[c] + 1 ELSE lookups[c]]
      /\ UNCHANGED <<online, gatherings, geoCache, steady, during, changes, passes>>
  BY DEF ReadPlaces
<1>3. /\ Everyone \subseteq Consoles /\ Everyone \subseteq during
      /\ lookups \in [Consoles -> Nat]
  BY DEF DashboardTypes, Everyone, Followed, Owners
<1>4. ASSUME NEW pt \in points
      PROVE  pt[1] \in during \ Local /\ pt[2] = Area(pt[1]) /\ pt \in Consoles \X (Int \X Int)
  <2>1. PICK c \in shown : pt = <<c, geoCache[c]>>
    OBVIOUS
  <2>2. c \in during /\ c \in Consoles /\ c \notin Local /\ geoCache[c] = Area(c)
    BY <1>3, <2>1 DEF Located
  <2>3. QED
    BY <2>1, <2>2, AreaType
<1>5. asked \subseteq Consoles /\ \A c \in asked : c \notin DOMAIN geoCache /\ c \notin geoInflight
  BY <1>3 DEF Unknown
<1> HIDE DEF asked, points
<1>6. /\ pass'.at = "done" /\ pass'.points = points /\ pass'.seen = pass.seen
      /\ pass'.owners = pass.owners /\ pass'.rooms = pass.rooms
  BY <1>1, <1>2
<1>7. PassTypes'
  <2>1. points \in SUBSET (Consoles \X (Int \X Int))
    BY <1>4
  <2>2. pass' \in [at : Stage, owners : Owners, seen : Seq(SUBSET Consoles), rooms : Nat,
                   points : SUBSET (Consoles \X (Int \X Int))]
    BY <1>1, <1>2, <2>1, Zenon DEF Stage
  <2>3. QED
    BY <1>1, <1>6, <2>2, DashboardAssumption DEF PassTypes
<1>8. DashboardTypes'
  <2>1. lookups' \in [Consoles -> Nat]
    BY <1>2, <1>3
  <2>2. QED
    BY <1>2, <1>5, <2>1 DEF DashboardTypes, Owners
<1>9. Followed' /\ RoomsCounted'
  BY <1>2, <1>6 DEF Followed, RoomsCounted, Counted, Everyone, SeenTwice
<1>10. Located'
  BY <1>2, <1>4, <1>6 DEF Located
<1>11. Asked'
  <2> SUFFICES ASSUME NEW c \in Consoles
               PROVE  /\ lookups'[c] <= 1
                      /\ c \in Local => lookups'[c] = 0
                      /\ lookups'[c] # 0 => c \in DOMAIN geoCache \cup geoInflight'
    BY <1>2 DEF Asked
  <2>1. /\ lookups[c] \in Nat /\ lookups[c] <= 1 /\ (c \in Local => lookups[c] = 0)
        /\ lookups[c] # 0 => c \in DOMAIN geoCache \cup geoInflight
    BY <1>3 DEF Asked
  <2>2. CASE c \in asked \ Local
    <3>1. lookups[c] = 0
      BY <1>5, <2>1, <2>2
    <3>2. QED
      BY <1>2, <2>2, <3>1
  <2>3. CASE c \notin asked \ Local
    BY <1>2, <2>1, <2>3
  <2>4. QED
    BY <2>2, <2>3
<1>12. QED
  BY <1>7, <1>8, <1>9, <1>10, <1>11

\* fetchGeo: an address moves from those being looked up to the cache.
LEMMA FetchGeoInv ==
    ASSUME DashboardInv, NEW c \in Consoles, NEW ok \in BOOLEAN, FetchGeo(c, ok)
    PROVE  DashboardInv'
<1> USE DEF DashboardInv
<1>1. /\ geoInflight' = geoInflight \ {c} /\ (ok => c \notin Local)
      /\ UNCHANGED <<online, gatherings, pass, lookups, steady, during, changes, passes>>
      /\ DOMAIN geoCache' = DOMAIN geoCache \cup {c}
      /\ geoCache'[c] = IF ok THEN Area(c) ELSE NoPlace
      /\ \A d \in DOMAIN geoCache : d # c => geoCache'[d] = geoCache[d]
  BY DEF FetchGeo, Area
<1>2. DashboardTypes'
  BY <1>1 DEF DashboardTypes
<1>3. PassTypes' /\ Followed' /\ RoomsCounted'
  <2>1. UNCHANGED <<online, gatherings, pass, steady, during>>
    BY <1>1
  <2>2. PassTypes'
    BY <2>1 DEF PassTypes
  <2>3. Followed'
    BY <2>1 DEF Followed, Counted, Everyone, SeenTwice
  <2>4. RoomsCounted'
    BY <2>1 DEF RoomsCounted, Counted, SeenTwice
  <2>5. QED
    BY <2>2, <2>3, <2>4
<1>4. Located'
  <2>1. \A d \in DOMAIN geoCache' :
            geoCache'[d] = NoPlace \/ (d \notin Local /\ geoCache'[d] = Area(d))
    BY <1>1 DEF Located
  <2>2. QED
    BY <1>1, <2>1 DEF Located
<1>5. Asked'
  BY <1>1 DEF Asked
<1>6. QED
  BY <1>2, <1>3, <1>4, <1>5

\* Every step keeps the invariant.
LEMMA DashboardNextInv == DashboardInv /\ [DashboardNext]_dvars => DashboardInv'
<1> SUFFICES ASSUME DashboardInv, [DashboardNext]_dvars PROVE DashboardInv'
  OBVIOUS
<1>1. ASSUME NEW c \in Consoles, NEW e \in Endpoints, ComeOnline(c, e) \/ GoOffline(c, e)
      PROVE  DashboardInv'
  <2>1. /\ Track(c) /\ UNCHANGED <<gatherings, pass, geoCache, geoInflight, lookups, passes>>
        /\ online[e] \in SUBSET Consoles
    BY <1>1 DEF ComeOnline, GoOffline, DashboardInv, DashboardTypes
  <2>2. CASE ComeOnline(c, e)
    <3>1. online' = [online EXCEPT ![e] = online[e] \cup {c}]
      BY <2>2 DEF ComeOnline
    <3>2. online[e] \cup {c} \in SUBSET Consoles /\ (online[e] \cup {c}) \ {c} = online[e] \ {c}
      BY <2>1
    <3>3. QED
      BY <2>1, <3>1, <3>2, MovesInv, Zenon
  <2>3. CASE GoOffline(c, e)
    <3>1. online' = [online EXCEPT ![e] = online[e] \ {c}]
      BY <2>3 DEF GoOffline
    <3>2. online[e] \ {c} \in SUBSET Consoles /\ (online[e] \ {c}) \ {c} = online[e] \ {c}
      BY <2>1
    <3>3. QED
      BY <2>1, <3>1, <3>2, MovesInv, Zenon
  <2>4. QED
    BY <1>1, <2>2, <2>3
<1>2. ASSUME NEW c \in Consoles, OpenGathering(c) PROVE DashboardInv'
  <2>1. /\ UNCHANGED <<online, pass, geoCache, geoInflight, lookups, steady, during, passes>>
        /\ gatherings' \in Owners
    BY <1>2 DEF OpenGathering, DashboardInv, DashboardTypes, Owners
  <2>2. QED
    BY <2>1, SMTT(30) DEF DashboardInv, DashboardTypes, PassTypes, Followed, RoomsCounted, Located, Asked,
                Counted, Everyone, SeenTwice
<1>3. CASE AnswerStats
  <2>1. /\ UNCHANGED <<online, gatherings, geoCache, geoInflight, lookups, steady, during>>
        /\ pass' = [pass EXCEPT !.at = "idle"]
    BY <1>3 DEF AnswerStats
  <2>2. /\ pass'.at = "idle" /\ pass'.points = pass.points /\ pass'.seen = pass.seen
        /\ pass'.owners = pass.owners /\ pass'.rooms = pass.rooms
        /\ PassTypes'
    BY <2>1 DEF DashboardInv, PassTypes, Stage
  <2>3. QED
    BY <2>1, <2>2 DEF DashboardInv, DashboardTypes, Followed, RoomsCounted, Located, Asked,
                      Counted, Everyone, SeenTwice
<1>4. CASE UNCHANGED dvars
  BY <1>4, SMTT(30) DEF dvars, DashboardInv, DashboardTypes, PassTypes, Followed, RoomsCounted, Located,
              Asked, Counted, Everyone, SeenTwice
<1>5. QED
  BY <1>1, <1>2, <1>3, <1>4, ReadOwnersInv, ReadEndpointInv, ReadPlacesInv, FetchGeoInv
  DEF DashboardNext

\* currentStats: what a pass counts is true of some moment of it, for any number of
\* consoles, games and gatherings.
THEOREM CountsTrueAlways == DashboardSpec => []CountsTrue
<1>1. DashboardInv => CountsTrue
  BY DashboardInvImplies
<1>2. QED
  BY <1>1, DashboardInitInv, DashboardNextInv, PTL DEF DashboardSpec

\* geoLocate: an address is asked for at most once, and a private one never.
THEOREM AskedOnceAlways == DashboardSpec => []AskedOnce
<1>1. DashboardInv => AskedOnce
  BY DashboardInvImplies
<1>2. QED
  BY <1>1, DashboardInitInv, DashboardNextInv, PTL DEF DashboardSpec
==============================================================================
