------------------------------- MODULE Metrics -------------------------------
(***************************************************************************)
(* The sampler of metrics.go: counters read from /proc, and the rates it   *)
(* makes of the differences of two samples, in unsigned integers.  The     *)
(* kernel, whose idle counter may go back a little, and the network        *)
(* interfaces, which may vanish with their counters, are the environment.  *)
(***************************************************************************)
EXTENDS Integers

CONSTANTS
    UInt,            \* values of a counter, 2^64 in the program
    MaxKernel,       \* bound: ticks and bytes counted
    MaxSamples       \* bound: samples

ASSUME MetricsAssumption ==
    UInt \in Nat /\ MaxKernel \in Nat \ {0, 1} /\ MaxSamples \in Nat

VARIABLES
    kernel,          \* the counters: idle and total ticks, bytes of two interfaces
    last,            \* lastIdle, lastTotal, lastNet, and whether lastTime is set
    snap,            \* metricsSnap: busy ticks out of how many, bytes since the last sample
    since,           \* history, since the last sample: bytes sent, whether the idle counter
                     \* went back, whether counters of the network were lost
    sampled,         \* history: the same, between the last sample and the one before
    samples          \* samples so far

kvars == <<kernel, last, snap, since, sampled, samples>>

Nothing(lost) == [sent |-> 0, back |-> FALSE, lost |-> lost]

MetricsInit ==
    /\ kernel = [idle |-> 1, total |-> 2, eth |-> 1, wlan |-> 0]
    /\ last = [idle |-> 0, total |-> 0, net |-> 0, set |-> FALSE]
    /\ snap = [busy |-> 0, of |-> 0, net |-> 0]
    /\ since = Nothing(FALSE)
    /\ sampled = Nothing(FALSE)
    /\ samples = 0

\* The kernel counts ticks, idle ones among them, and bytes.
Counts(idle, busy, eth, wlan) ==
    /\ kernel.total + idle + busy <= MaxKernel
    /\ kernel.eth + kernel.wlan + eth + wlan <= MaxKernel /\ since.sent + eth + wlan <= MaxKernel
    /\ idle + busy + eth + wlan > 0
    /\ kernel' = [idle |-> kernel.idle + idle, total |-> kernel.total + idle + busy,
                  eth |-> kernel.eth + eth, wlan |-> kernel.wlan + wlan]
    /\ since' = [since EXCEPT !.sent = @ + eth + wlan]
    /\ UNCHANGED <<last, snap, sampled, samples>>

\* iowait, which readCPU counts as idle, goes back while other counters go on.
IdleGoesBack ==
    /\ kernel.idle > 0 /\ kernel.total < MaxKernel
    /\ kernel' = [kernel EXCEPT !.idle = @ - 1, !.total = @ + 1]
    /\ since' = [since EXCEPT !.back = TRUE]
    /\ UNCHANGED <<last, snap, sampled, samples>>

\* An interface vanishes, with its counters.
InterfaceVanishes ==
    /\ kernel.wlan > 0
    /\ kernel' = [kernel EXCEPT !.wlan = 0]
    /\ since' = [since EXCEPT !.lost = TRUE]
    /\ UNCHANGED <<last, snap, sampled, samples>>

\* A difference of unsigned integers
Minus(a, b) == (a - b) % UInt

\* Mutant: samples are compared also after a read that failed.
ComparableAny(total) == last.set

\* The samples give a CPU load.
Comparable(total) == last.total # 0 /\ total > last.total

\* Mutant: the first sample counts all that was ever sent.
KnownTimeAlways == TRUE

\* lastTime is set; time has passed.
KnownTime == last.set

\* A round of the loop.  A file that cannot be read gives zeros.
Sample(cpuRead, netRead) ==
    LET idle == IF cpuRead THEN kernel.idle ELSE 0
        total == IF cpuRead THEN kernel.total ELSE 0
        net == IF netRead THEN kernel.eth + kernel.wlan ELSE 0
        of == IF Comparable(total) THEN Minus(total, last.total) ELSE 0
    IN  /\ samples < MaxSamples
        /\ samples' = samples + 1
        /\ snap' = [of |-> of,
                    busy |-> IF of = 0 THEN 0 ELSE of - Minus(idle, last.idle),
                    net |-> IF KnownTime THEN Minus(net, last.net) ELSE 0]
        /\ last' = [idle |-> idle, total |-> total, net |-> net, set |-> TRUE]
        /\ sampled' = [since EXCEPT !.lost = @ \/ ~netRead]
        /\ since' = Nothing(~netRead)
        /\ UNCHANGED kernel

MetricsNext ==
    \/ \E i, b, e, w \in 0..1 : Counts(i, b, e, w)
    \/ IdleGoesBack \/ InterfaceVanishes
    \/ \E c, n \in BOOLEAN : Sample(c, n)

MetricsSpec == MetricsInit /\ [][MetricsNext]_kvars

------------------------------------------------------------------------------
(* Properties *)

\* The CPU load is between 0 and 100 percent, also around reads of /proc/stat that fail,
\* unless the idle counter went back between the samples; the traffic shown was sent since
\* the sample before, and nothing is shown for what was sent before the first, unless
\* network counters were lost in between - a read that failed, an interface that vanished.
\* In both exceptions the difference of unsigned counters wraps around.
RatesTrue ==
    /\ snap.busy \in 0..snap.of \/ sampled.back
    /\ snap.net <= sampled.sent \/ sampled.lost
==============================================================================
